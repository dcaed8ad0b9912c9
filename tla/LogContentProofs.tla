-------------------------- MODULE LogContentProofs --------------------------
(***************************************************************************)
(* Proofs about what LogBuffer writes to the files: how often a record is  *)
(* there, and that none is missing.  For any number of logs, of threads    *)
(* and of signals, any limit of the buffers and any disks that fail.       *)
(***************************************************************************)
EXTENDS LogBufferProofs, MCLogBuffer

-----------------------------------------------------------------------------
(* Sequences of records.                                                   *)

(* How often a record is in a sequence.                                     *)
Count(records, r) == Cardinality({i \in DOMAIN records : records[i] = r})

LEMMA CountType ==
  ASSUME NEW S, NEW records \in Seq(S), NEW r
  PROVE  /\ IsFiniteSet({i \in DOMAIN records : records[i] = r})
         /\ Count(records, r) \in Nat
         /\ (\A i \in DOMAIN records : records[i] # r) => Count(records, r) = 0
<1>1. PICK n \in Nat : n = Len(records) /\ DOMAIN records = 1 .. n
  BY LenProperties
<1>2. IsFiniteSet(1 .. n)
  BY <1>1, FS_Interval
<1> DEFINE places == {i \in DOMAIN records : records[i] = r}
<1>3. places \in SUBSET (1 .. n)
  BY <1>1
<1>4. IsFiniteSet(places)
  BY <1>2, <1>3, FS_Subset
<1>5. Cardinality(places) \in Nat
  BY <1>4, FS_CardinalityType
<1>6. ASSUME \A i \in DOMAIN records : records[i] # r
      PROVE  Count(records, r) = 0
  <2>1. places = {}
    BY <1>6
  <2> QED
    BY <2>1, FS_EmptySet DEF Count
<1> QED
  BY <1>4, <1>5, <1>6 DEF Count

LEMMA CountConcat ==
  ASSUME NEW S, NEW s \in Seq(S), NEW t \in Seq(S), NEW r
  PROVE  Count(s \o t, r) = Count(s, r) + Count(t, r)
<1>1. PICK m \in Nat : m = Len(s) /\ DOMAIN s = 1 .. m
  BY LenProperties
<1>2. PICK n \in Nat : n = Len(t) /\ DOMAIN t = 1 .. n
  BY LenProperties
<1>3. PICK u \in Seq(S) :
        /\ u = s \o t /\ DOMAIN u = 1 .. m + n
        /\ \A i \in 1 .. m + n : u[i] = IF i <= m THEN s[i] ELSE t[i - m]
  <2>1. /\ s \o t \in Seq(S) /\ Len(s \o t) = m + n
        /\ \A i \in 1 .. m + n : (s \o t)[i] = IF i <= m THEN s[i] ELSE t[i - m]
    BY <1>1, <1>2, ConcatProperties
  <2>2. DOMAIN (s \o t) = 1 .. m + n
    BY <2>1, LenProperties
  <2> QED
    BY <2>1, <2>2
<1> DEFINE inS == {i \in DOMAIN s : s[i] = r}
           inT == {i \in DOMAIN t : t[i] = r}
           low == {i \in 1 .. m : u[i] = r}
           high == {i \in m + 1 .. m + n : u[i] = r}
           shift == [i \in inT |-> i + m]
<1>4. IsFiniteSet(inS) /\ IsFiniteSet(inT)
  BY CountType
<1>5. low = inS
  BY <1>1, <1>2, <1>3
<1>6. shift \in Bijection(inT, high)
  <2>1. shift \in [inT -> high]
    <3>1. ASSUME NEW i \in inT PROVE i + m \in high
      BY <1>1, <1>2, <1>3, <3>1
    <3> QED
      BY <3>1
  <2>2. \A i, j \in inT : shift[i] = shift[j] => i = j
    BY <1>1, <1>2
  <2>3. ASSUME NEW k \in high PROVE \E i \in inT : shift[i] = k
    <3>1. k - m \in inT
      BY <1>1, <1>2, <1>3, <2>3
    <3>2. shift[k - m] = k
      BY <1>1, <3>1
    <3> QED
      BY <3>1, <3>2
  <2> QED
    BY <2>1, <2>2, <2>3 DEF Bijection, Injection, Surjection, IsInjective
<1>7. IsFiniteSet(high) /\ Cardinality(high) = Cardinality(inT)
  BY <1>4, <1>6, FS_Bijection DEF ExistsBijection
<1>8. {i \in DOMAIN u : u[i] = r} = low \cup high
  BY <1>1, <1>2, <1>3
<1>9. low \cap high = {}
  BY <1>1, <1>2
<1> HIDE DEF low, high, shift, inS, inT
<1>10. Cardinality(low \cup high) = Cardinality(low) + Cardinality(high) - 0
  BY <1>4, <1>5, <1>7, <1>9, FS_Union, FS_EmptySet
<1>11. Cardinality(low) \in Nat /\ Cardinality(high) \in Nat
  BY <1>4, <1>5, <1>7, FS_CardinalityType
<1>12. Count(u, r) = Cardinality(low \cup high)
  BY <1>8 DEF Count
<1>13. Count(s, r) = Cardinality(low) /\ Count(t, r) = Cardinality(high)
  BY <1>5, <1>7 DEF Count, inS, inT
<1>14. Count(u, r) = Count(s, r) + Count(t, r)
  BY <1>10, <1>11, <1>12, <1>13
<1> QED
  BY <1>3, <1>14

(* A sequence without repetition has a record once, or not.                 *)
LEMMA CountDistinct ==
  ASSUME NEW S, NEW records \in Seq(S), NEW r,
         \A i, j \in DOMAIN records : records[i] = records[j] => i = j
  PROVE  Count(records, r) <= 1
<1> DEFINE places == {i \in DOMAIN records : records[i] = r}
<1>1. CASE places = {}
  <2>1. Cardinality(places) = 0
    BY <1>1, FS_EmptySet
  <2>2. Count(records, r) = 0
    BY <2>1 DEF Count
  <2> QED
    BY <2>2
<1>2. ASSUME NEW k \in places PROVE Count(records, r) <= 1
  <2>1. places = {k}
    BY <1>2
  <2>2. Cardinality(places) = 1
    BY <2>1, FS_Singleton
  <2>3. Count(records, r) = 1
    BY <2>2 DEF Count
  <2> QED
    BY <2>3
<1> QED
  BY <1>1, <1>2

(* The records from number m to number n.                                   *)
Run(m, n) == [i \in 1 .. n - m + 1 |-> m + i - 1]

LEMMA RunType ==
  ASSUME NEW m \in Nat \ {0}, NEW n \in 0 .. MaxRecords, m <= n + 1
  PROVE  /\ Run(m, n) \in Records /\ Len(Run(m, n)) = n - m + 1
         /\ \A i \in 1 .. n - m + 1 : Run(m, n)[i] = m + i - 1
         /\ Run(m, n) = <<>> <=> m = n + 1
<1>1. MaxRecords \in Nat
  BY BuffersAssumption
<1>2. PICK k \in Nat : k = n - m + 1
  BY <1>1
<1>3. Run(m, n) \in [1 .. k -> 1 .. MaxRecords]
  BY <1>1, <1>2 DEF Run
<1>4. Run(m, n) \in Records
  BY <1>2, <1>3, SeqDef DEF Records
<1>5. Len(Run(m, n)) = k
  BY <1>2, <1>3, <1>4, LenProperties DEF Records
<1>6. Run(m, n) = <<>> <=> k = 0
  BY <1>4, <1>5, EmptySeq DEF Records
<1> QED
  BY <1>1, <1>2, <1>4, <1>5, <1>6 DEF Run

LEMMA RunFromFirst ==
  ASSUME NEW n \in 0 .. MaxRecords
  PROVE  /\ Run(1, n) \in Records /\ Len(Run(1, n)) = n
         /\ \A i \in 1 .. n : Run(1, n)[i] = i
<1>1. MaxRecords \in Nat /\ 1 \in Nat \ {0} /\ 1 <= n + 1
  BY BuffersAssumption
<1>2. /\ Run(1, n) \in Records /\ Len(Run(1, n)) = n - 1 + 1
      /\ \A i \in 1 .. n - 1 + 1 : Run(1, n)[i] = 1 + i - 1
  BY <1>1, RunType
<1> QED
  BY <1>1, <1>2

LEMMA RunConcat ==
  ASSUME NEW m \in Nat \ {0}, NEW n \in 0 .. MaxRecords, m <= n + 1
  PROVE  Run(1, m - 1) \o Run(m, n) = Run(1, n)
<1>1. MaxRecords \in Nat /\ m - 1 \in 0 .. MaxRecords /\ 1 <= n + 1 /\ 1 <= m
  BY BuffersAssumption
<1>2. /\ Run(1, m - 1) \in Records /\ Len(Run(1, m - 1)) = m - 1
      /\ \A i \in 1 .. m - 1 : Run(1, m - 1)[i] = i
  BY <1>1, RunFromFirst
<1>3. /\ Run(m, n) \in Records /\ Len(Run(m, n)) = n - m + 1
      /\ \A i \in 1 .. n - m + 1 : Run(m, n)[i] = m + i - 1
  BY RunType
<1>4. /\ Run(1, n) \in Records /\ Len(Run(1, n)) = n
      /\ \A i \in 1 .. n : Run(1, n)[i] = i
  BY <1>1, RunFromFirst
<1>5. /\ Run(1, m - 1) \o Run(m, n) \in Records
      /\ Len(Run(1, m - 1) \o Run(m, n)) = n
      /\ \A i \in 1 .. n : (Run(1, m - 1) \o Run(m, n))[i] =
           IF i <= m - 1 THEN Run(1, m - 1)[i] ELSE Run(m, n)[i - (m - 1)]
  <2>1. (m - 1) + (n - m + 1) = n
    BY <1>1
  <2>2. PICK s \in Records, t \in Records : s = Run(1, m - 1) /\ t = Run(m, n)
    BY <1>2, <1>3
  <2>3. /\ s \o t \in Records /\ Len(s \o t) = Len(s) + Len(t)
        /\ \A i \in 1 .. Len(s) + Len(t) : (s \o t)[i] =
             IF i <= Len(s) THEN s[i] ELSE t[i - Len(s)]
    BY ConcatProperties DEF Records
  <2>4. Len(s) = m - 1 /\ Len(s) + Len(t) = n
    BY <1>2, <1>3, <2>1, <2>2
  <2>5. /\ s \o t \in Records /\ Len(s \o t) = n
        /\ \A i \in 1 .. n : (s \o t)[i] =
             IF i <= m - 1 THEN s[i] ELSE t[i - (m - 1)]
    BY <2>3, <2>4
  <2> QED
    BY <2>2, <2>5
<1>6. \A i \in 1 .. n : (Run(1, m - 1) \o Run(m, n))[i] = Run(1, n)[i]
  BY <1>1, <1>2, <1>3, <1>4, <1>5
<1> QED
  BY <1>4, <1>5, <1>6, SeqEqual DEF Records

LEMMA RunAppend ==
  ASSUME NEW m \in Nat \ {0}, NEW n \in 0 .. MaxRecords, m <= n + 1,
         n < MaxRecords
  PROVE  Append(Run(m, n), n + 1) = Run(m, n + 1)
<1>1. MaxRecords \in Nat /\ n + 1 \in 1 .. MaxRecords /\ m <= n + 1 + 1
  BY BuffersAssumption
<1>2. /\ Run(m, n) \in Records /\ Len(Run(m, n)) = n - m + 1
      /\ \A i \in 1 .. n - m + 1 : Run(m, n)[i] = m + i - 1
  BY RunType
<1>3. /\ Run(m, n + 1) \in Records /\ Len(Run(m, n + 1)) = n + 1 - m + 1
      /\ \A i \in 1 .. n + 1 - m + 1 : Run(m, n + 1)[i] = m + i - 1
  BY <1>1, RunType
<1>4. /\ Append(Run(m, n), n + 1) \in Records
      /\ Len(Append(Run(m, n), n + 1)) = n - m + 1 + 1
      /\ \A i \in 1 .. n - m + 1 : Append(Run(m, n), n + 1)[i] = Run(m, n)[i]
      /\ Append(Run(m, n), n + 1)[n - m + 1 + 1] = n + 1
  BY <1>1, <1>2, AppendProperties DEF Records
<1>5. \A i \in 1 .. n - m + 1 + 1 :
        Append(Run(m, n), n + 1)[i] = Run(m, n + 1)[i]
  BY <1>1, <1>2, <1>3, <1>4
<1>6. n - m + 1 + 1 = n + 1 - m + 1
  BY <1>1
<1> QED
  BY <1>3, <1>4, <1>5, <1>6, SeqEqual DEF Records

-----------------------------------------------------------------------------
(* What a step does to one log.                                            *)

(* The main thread has given the records of Buffer b to its output_file.    *)
Writing(b) == pc[Main] \in {"sync", "clear"} /\ at[Main] = b

Untouched(b) ==
  /\ logged'[b] = logged[b] /\ buffer'[b] = buffer[b]
  /\ stream'[b] = stream[b] /\ file'[b] = file[b]

Inserted(b) ==
  /\ Insert /\ b = at[Main]
  /\ logged'[b] = logged[b] + 1
  /\ buffer'[b] = Append(buffer[b], logged[b] + 1)
  /\ stream'[b] = stream[b] /\ file'[b] = file[b]

HandedOver(c, b) ==
  /\ FlushWrite(c) /\ b = at[c] /\ b \notin failed /\ buffer[b] # <<>>
  /\ pc'[c] = "sync" /\ at' = at
  /\ stream'[b] = stream[b] \o buffer[b]
  /\ logged'[b] = logged[b] /\ buffer'[b] = buffer[b] /\ file'[b] = file[b]

WrittenOut(c, b) ==
  /\ FlushSync(c) \/ (c = Main /\ Close)
  /\ b = at[c] /\ at' = at
  /\ file'[b] = file[b] \o stream[b] /\ stream'[b] = <<>>
  /\ logged'[b] = logged[b] /\ buffer'[b] = buffer[b]

Cleared(c, b) ==
  /\ FlushClear(c) /\ b = at[c]
  /\ buffer'[b] = <<>>
  /\ logged'[b] = logged[b] /\ stream'[b] = stream[b] /\ file'[b] = file[b]

WroteInPart(b) ==
  /\ b \in failed'
  /\ \E records \in {stream[b], stream[b] \o buffer[b]} :
       /\ \/ records = stream[b]
          \/ b \notin failed /\ \E c \in Contexts : FlushWrite(c) /\ b = at[c]
       /\ \E n \in 0 .. Len(records) - 1 :
            file'[b] = file[b] \o SubSeq(records, 1, n)
  /\ logged'[b] = logged[b] /\ buffer'[b] = buffer[b] /\ stream'[b] = stream[b]

LEMMA WriteOutEffect ==
  ASSUME BufferInv, NEW c \in Contexts, On(c) = at[c], at[c] \in Buffers,
         NEW label, WriteOut(c, label), FlushSync(c) \/ (c = Main /\ Close),
         NEW b \in Buffers
  PROVE  /\ failed \subseteq failed'
         /\ \/ (b \in failed' => b \in failed) /\ (Untouched(b) \/ WrittenOut(c, b))
            \/ WroteInPart(b)
<1>1. TypeOK
  BY DEF BufferInv
<1>2. UNCHANGED <<logged, buffer, at>>
  BY DEF WriteOut
<1>3. CASE /\ file' = [file EXCEPT ![at[c]] = @ \o stream[at[c]]]
           /\ stream' = [stream EXCEPT ![at[c]] = <<>>]
           /\ UNCHANGED failed
  BY <1>1, <1>2, <1>3 DEF TypeOK, Untouched, WrittenOut
<1>4. CASE WriteFails(at[c], stream[at[c]]) /\ UNCHANGED stream
  <2>1. /\ failed' = failed \cup {at[c]}
        /\ \E n \in 0 .. Len(stream[at[c]]) - 1 :
             file' = [file EXCEPT ![at[c]] = @ \o SubSeq(stream[at[c]], 1, n)]
    BY <1>4 DEF WriteFails
  <2>2. CASE b = at[c]
    BY <1>1, <1>2, <1>4, <2>1, <2>2 DEF TypeOK, WroteInPart
  <2>3. CASE b # at[c]
    BY <1>1, <1>2, <1>4, <2>1, <2>3 DEF TypeOK, Untouched
  <2> QED
    BY <2>1, <2>2, <2>3
<1> QED
  BY <1>3, <1>4 DEF WriteOut

LEMMA FlushStepEffect ==
  ASSUME BufferInv, NEW c \in Contexts, FlushStep(c), NEW b \in Buffers
  PROVE  /\ failed \subseteq failed'
         /\ \/ /\ b \in failed' => b \in failed
               /\ \/ Untouched(b) \/ HandedOver(c, b) \/ WrittenOut(c, b)
                  \/ Cleared(c, b)
            \/ WroteInPart(b)
<1>1. TypeOK /\ pc[c] \in {"flush", "sync", "clear"}
  BY FlushStepMoves DEF BufferInv
<1>2. On(c) = at[c] /\ at[c] \in Buffers
  BY <1>1, OnType
<1>3. CASE FlushWrite(c)
  <2>1. UNCHANGED <<logged, buffer>>
    BY <1>3 DEF FlushWrite
  <2>2. CASE buffer[at[c]] = <<>>
    BY <1>2, <1>3, <2>1, <2>2 DEF FlushWrite, Untouched
  <2>3. CASE buffer[at[c]] # <<>>
    <3>1. /\ Goto(c, "sync") /\ at' = at
          /\ \/ /\ at[c] \notin failed
                /\ stream' = [stream EXCEPT ![at[c]] = @ \o buffer[at[c]]]
                /\ UNCHANGED <<file, failed>>
             \/ /\ at[c] \notin failed
                /\ WriteFails(at[c], stream[at[c]] \o buffer[at[c]])
                /\ UNCHANGED stream
             \/ UNCHANGED <<stream, file, failed>>
      BY <1>2, <1>3, <2>3 DEF FlushWrite
    <3>2. pc'[c] = "sync"
      BY <1>1, <3>1 DEF Goto, TypeOK
    <3>3. CASE /\ at[c] \notin failed
               /\ stream' = [stream EXCEPT ![at[c]] = @ \o buffer[at[c]]]
               /\ UNCHANGED <<file, failed>>
      BY <1>1, <1>2, <1>3, <2>1, <2>3, <3>1, <3>2, <3>3
         DEF TypeOK, Untouched, HandedOver
    <3>4. CASE /\ at[c] \notin failed
               /\ WriteFails(at[c], stream[at[c]] \o buffer[at[c]])
               /\ UNCHANGED stream
      <4>1. PICK records : records = stream[at[c]] \o buffer[at[c]]
        OBVIOUS
      <4>2. PICK n \in 0 .. Len(records) - 1 :
              file' = [file EXCEPT ![at[c]] = @ \o SubSeq(records, 1, n)]
        BY <3>4, <4>1 DEF WriteFails
      <4>3. failed' = failed \cup {at[c]}
        BY <3>4 DEF WriteFails
      <4>4. CASE b = at[c]
        <5>1. file'[b] = file[b] \o SubSeq(records, 1, n)
          BY <1>1, <1>2, <4>2, <4>4 DEF TypeOK
        <5>2. records = stream[b] \o buffer[b]
          BY <4>1, <4>4
        <5> QED
          BY <1>3, <2>1, <3>4, <4>3, <4>4, <5>1, <5>2 DEF WroteInPart
      <4>5. CASE b # at[c]
        BY <1>1, <1>2, <2>1, <3>4, <4>2, <4>3, <4>5 DEF TypeOK, Untouched
      <4> QED
        BY <4>3, <4>4, <4>5
    <3>5. CASE UNCHANGED <<stream, file, failed>>
      BY <2>1, <3>5 DEF Untouched
    <3> QED
      BY <3>1, <3>3, <3>4, <3>5
  <2> QED
    BY <2>2, <2>3
<1>4. CASE FlushSync(c)
  <2>1. CASE WriteOut(c, "clear")
    BY <1>2, <1>4, <2>1, WriteOutEffect
  <2>2. CASE ~ WriteOut(c, "clear")
    BY <1>4, <2>2 DEF FlushSync, streams, Untouched
  <2> QED
    BY <2>1, <2>2
<1>5. CASE FlushClear(c)
  <2>1. buffer' = [buffer EXCEPT ![at[c]] = <<>>]
    BY <1>2, <1>5 DEF FlushClear
  <2> QED
    BY <1>1, <1>2, <1>5, <2>1 DEF FlushClear, TypeOK, Untouched, Cleared
<1> QED
  BY <1>3, <1>4, <1>5 DEF FlushStep

LEMMA StepEffect ==
  ASSUME BufferInv, LogStep, NEW b \in Buffers
  PROVE  /\ failed \subseteq failed'
         /\ \/ /\ b \in failed' => b \in failed
               /\ \/ Untouched(b) \/ Inserted(b)
                  \/ \E c \in Contexts : HandedOver(c, b) \/ WrittenOut(c, b)
                                           \/ Cleared(c, b)
            \/ WroteInPart(b)
<1>1. TypeOK /\ Main \in Contexts
  BY ContextsType DEF BufferInv
<1>2. CASE UNCHANGED <<logged, streams>>
  BY <1>2 DEF streams, Untouched
<1>3. CASE Insert
  <2>1. at[Main] \in Buffers
    BY <1>1 DEF TypeOK
  <2>2. /\ logged' = [logged EXCEPT ![at[Main]] = @ + 1]
        /\ buffer' = [buffer EXCEPT ![at[Main]] = Append(@, logged[at[Main]] + 1)]
        /\ UNCHANGED <<stream, file, failed>>
    BY <1>3 DEF Insert
  <2>3. CASE b = at[Main]
    BY <1>1, <1>3, <2>1, <2>2, <2>3 DEF TypeOK, Inserted
  <2>4. CASE b # at[Main]
    BY <1>1, <2>1, <2>2, <2>4 DEF TypeOK, Untouched
  <2> QED
    BY <2>2, <2>3, <2>4
<1>4. ASSUME NEW c \in Contexts, FlushStep(c)
      PROVE  /\ failed \subseteq failed'
             /\ \/ /\ b \in failed' => b \in failed
                   /\ \/ Untouched(b) \/ HandedOver(c, b) \/ WrittenOut(c, b)
                      \/ Cleared(c, b)
                \/ WroteInPart(b)
  BY <1>4, FlushStepEffect
<1>5. CASE Close
  <2>1. On(Main) = at[Main] /\ at[Main] \in Buffers
    BY <1>1, <1>5, OnType DEF Close
  <2> QED
    BY <1>1, <1>5, <2>1, WriteOutEffect DEF Close
<1>6. CASE \/ LockInstances \/ PushBack \/ RegisterSignals \/ Remove \/ Return
           \/ Construct \/ Leave \/ EndedByCaller \/ UNCHANGED vars
  BY <1>2, <1>6 DEF LockInstances, PushBack, RegisterSignals, Remove, Return,
     Construct, Leave, EndedByCaller, vars, streams
<1>7. ASSUME NEW d \in Buffers, Put(d) \/ Flush(d)
      PROVE  UNCHANGED <<logged, streams>>
  BY <1>7 DEF Put, Flush
<1>8. ASSUME NEW s \in Signals, LockInHandler(s) \/ Exit(s)
      PROVE  UNCHANGED <<logged, streams>>
  BY <1>8 DEF LockInHandler, Exit
<1>9. ASSUME NEW s \in Signals, NEW t \in Threads, Deliver(s, t)
      PROVE  UNCHANGED <<logged, streams>>
  BY <1>9 DEF Deliver
<1> QED
  BY <1>1, <1>2, <1>3, <1>4, <1>5, <1>6, <1>7, <1>8, <1>9, ContextsType, FailEnds
     DEF LogStep, Next, MainStep, HandlerStep

-----------------------------------------------------------------------------
(* The holder of mutex_ and the main thread.                               *)

OnMain(s) == s \in {stack[Main][i] : i \in DOMAIN stack[Main]}

(* A handler that has locked mutex_ goes through instances_, which nobody   *)
(* changes meanwhile; the main thread goes on only if it is not below it.   *)
LEMMA HolderNext ==
  ASSUME BufferInv, LogStep, NEW s \in Signals, mutex = s
  PROVE  /\ mutex' = s /\ instances' = instances
         /\ OnMain(s)' => OnMain(s)
         /\ \/ FlushStep(s)
            \/ /\ pc'[s] = pc[s] /\ at'[s] = at[s]
               /\ OnMain(s) => UNCHANGED <<logged, streams, pc[Main], at[Main]>>
<1>1. /\ pc \in [Contexts -> PCs] /\ at \in [Contexts -> Buffers]
      /\ Main \in Contexts /\ s \in Contexts /\ s # Main /\ s # Nobody
      /\ pc[s] \in {"flush", "sync", "clear", "exit"}
      /\ pc[Main] \notin {"push_back", "remove"}
      /\ \A q \in Signals \ {s} : pc[q] \in {"none", "lock"} /\ q # Main
  BY ContextsType DEF BufferInv, TypeOK, PlaceInv, HandlerInv
<1>2. ASSUME Runs(Main) PROVE ~ OnMain(s)
  <2>1. Len(stack[Main]) = 1 /\ stack[Main] \in Seq(Contexts)
    BY <1>2, MainRuns, ContextsType DEF BufferInv, TypeOK
  <2>2. stack[Main][1] = Main /\ DOMAIN stack[Main] = 1 .. 1
    BY <2>1, ContextsType DEF BufferInv, PlaceInv, StackInv
  <2> QED
    BY <1>1, <2>2 DEF OnMain
<1>3. ASSUME Runs(Main), UNCHANGED <<mutex, instances, stack>>,
             pc'[s] = pc[s], at'[s] = at[s]
      PROVE  /\ mutex' = s /\ instances' = instances
             /\ OnMain(s)' => OnMain(s)
             /\ pc'[s] = pc[s] /\ at'[s] = at[s]
             /\ OnMain(s) => UNCHANGED <<logged, streams, pc[Main], at[Main]>>
  BY <1>2, <1>3 DEF OnMain
<1>4. CASE \/ LockInstances \/ PushBack \/ Remove
  BY <1>1, <1>4 DEF LockInstances, PushBack, Remove
<1>5. CASE \/ RegisterSignals \/ Insert \/ Close \/ Return
           \/ Construct \/ Leave \/ \E b \in Buffers : Put(b) \/ Flush(b)
  BY <1>1, <1>3, <1>5 DEF RegisterSignals, Insert, Close, WriteOut, Return,
     Construct, Leave, Put, Flush, Ready, Goto
<1>6. CASE FlushStep(Main)
  <2>1. /\ UNCHANGED <<mutex, instances, stack>>
        /\ pc' = [pc EXCEPT ![Main] = pc'[Main]]
        /\ \A d \in Contexts : d # Main => at'[d] = at[d]
    BY <1>1, <1>6, FlushStepMoves
  <2>2. Runs(Main)
    BY <1>6 DEF FlushStep, FlushWrite, FlushSync, FlushClear
  <2> QED
    BY <1>1, <1>3, <2>1, <2>2
<1>7. ASSUME NEW q \in Signals, HandlerStep(q)
      PROVE  /\ mutex' = s /\ instances' = instances
             /\ OnMain(s)' => OnMain(s)
             /\ \/ FlushStep(s)
                \/ /\ pc'[s] = pc[s] /\ at'[s] = at[s]
                   /\ UNCHANGED <<logged, streams, pc[Main], at[Main]>>
  <2>1. CASE FlushStep(q)
    <3>1. pc[q] \in {"flush", "sync", "clear"}
          /\ UNCHANGED <<mutex, instances, stack>>
      BY <2>1, FlushStepMoves, ContextsType
    <3>2. q = s
      BY <1>1, <3>1
    <3> QED
      BY <2>1, <3>1, <3>2 DEF OnMain
  <2>2. CASE LockInHandler(q)
    BY <1>1, <2>2 DEF LockInHandler
  <2>3. CASE Exit(q)
    BY <2>3 DEF Exit, OnMain
  <2> QED
    BY <1>7, <2>1, <2>2, <2>3 DEF HandlerStep
<1>8. ASSUME NEW q \in Signals, NEW t \in Threads, Deliver(q, t)
      PROVE  /\ mutex' = s /\ instances' = instances
             /\ OnMain(s)' => OnMain(s)
             /\ pc'[s] = pc[s] /\ at'[s] = at[s]
             /\ UNCHANGED <<logged, streams, pc[Main], at[Main]>>
  <2>1. pc[q] = "none" /\ q # s /\ q # Main /\ q \in Contexts
    BY <1>1, <1>8, ContextsType DEF Deliver
  <2>2. OnMain(s)' => OnMain(s)
    <3>1. /\ stack[Main] \in Seq(Contexts) /\ stack \in [Threads -> Seq(Contexts)]
          /\ Main \in Threads
      BY ContextsType DEF BufferInv, TypeOK
    <3>2. stack'[Main] = stack[Main] \/ stack'[Main] = Append(stack[Main], q)
      BY <1>8, <3>1 DEF Deliver
    <3>3. CASE stack'[Main] = Append(stack[Main], q)
      BY <2>1, <3>1, <3>3 DEF OnMain
    <3> QED
      BY <3>2, <3>3 DEF OnMain
  <2> QED
    BY <1>1, <1>8, <2>1, <2>2 DEF Deliver, Goto
<1>9. CASE EndedByCaller \/ UNCHANGED vars
  BY <1>9 DEF EndedByCaller, vars, streams, OnMain
<1> QED
  BY <1>3, <1>4, <1>5, <1>6, <1>7, <1>8, <1>9, FailEnds
     DEF LogStep, Next, MainStep

(* A flush() of the main thread ends with an empty stream.                  *)
LEMMA WritingNext ==
  ASSUME BufferInv, LogStep, NEW b \in Buffers, Writing(b)
  PROVE  Writing(b)' \/ buffer'[b] = <<>>
<1>1. /\ pc \in [Contexts -> PCs] /\ at \in [Contexts -> Buffers]
      /\ Main \in Contexts /\ pc[Main] \in {"sync", "clear"} /\ at[Main] = b
      /\ buffer \in [Buffers -> Records]
  BY ContextsType DEF Writing, BufferInv, TypeOK
<1>2. CASE FlushStep(Main)
  <2>1. CASE FlushClear(Main)
    BY <1>1, <2>1 DEF FlushClear, On
  <2>2. CASE ~ FlushClear(Main)
    <3>1. FlushSync(Main)
      BY <1>1, <1>2, <2>2 DEF FlushStep, FlushWrite
    <3>2. pc'[Main] = "clear" /\ at' = at
      BY <1>1, <3>1 DEF FlushSync, WriteOut, Goto
    <3> QED
      BY <1>1, <3>2 DEF Writing
  <2> QED
    BY <2>1, <2>2
<1>3. CASE \/ LockInstances \/ PushBack \/ RegisterSignals \/ Insert \/ Close
           \/ Remove \/ Return \/ Construct \/ Leave
           \/ \E d \in Buffers : Put(d) \/ Flush(d)
  BY <1>1, <1>3 DEF LockInstances, PushBack, RegisterSignals, Insert, Close,
     Remove, Return, Construct, Leave, Put, Flush, Ready
<1>4. ASSUME NEW s \in Signals, FlushStep(s) PROVE Writing(b)'
  <2>1. s \in Contexts /\ s # Main
    BY ContextsType
  <2>2. /\ pc' = [pc EXCEPT ![s] = pc'[s]]
        /\ \A d \in Contexts : d # s => at'[d] = at[d]
    BY <1>4, <2>1, FlushStepMoves
  <2> QED
    BY <1>1, <2>1, <2>2 DEF Writing
<1>5. ASSUME NEW s \in Signals, LockInHandler(s) \/ Exit(s)
      PROVE  Writing(b)'
  BY <1>1, <1>5, ContextsType DEF LockInHandler, Exit, Goto, Writing
<1>6. ASSUME NEW s \in Signals, NEW t \in Threads, Deliver(s, t)
      PROVE  Writing(b)'
  BY <1>1, <1>6, ContextsType DEF Deliver, Goto, Writing
<1>7. CASE EndedByCaller \/ UNCHANGED vars
  BY <1>1, <1>7 DEF EndedByCaller, vars, Writing
<1> QED
  BY <1>2, <1>3, <1>4, <1>5, <1>6, <1>7, FailEnds
     DEF LogStep, Next, MainStep, HandlerStep

-----------------------------------------------------------------------------
(* How often a record is written.                                          *)

Once(written) == IF written THEN 1 ELSE 0

(* Whoever holds mutex_ as a handler has written Buffer b, or found nothing *)
(* in it.                                                                  *)
HandlerWrote(b) ==
  \E s \in Signals :
    \/ pc[s] \in {"flush", "sync", "clear"} /\ b < at[s]
    \/ pc[s] \in {"sync", "clear"} /\ b = at[s]
    \/ pc[s] = "exit"

(* The main thread has written record r of log b.                           *)
MainWrote(b, r) ==
  Writing(b) \/ r \notin {buffer[b][i] : i \in DOMAIN buffer[b]}

TimesBound(b) ==
  \A r \in 1 .. logged[b] :
    Count(file[b], r) + Count(stream[b], r)
      <= Once(MainWrote(b, r)) + Once(HandlerWrote(b))

(* The records of b come from its log, and wait once in the Buffer; without *)
(* a disk that fails, the main thread and the one handler that flushes      *)
(* write each at most once.                                                 *)
LogCounted(b) ==
  /\ buffer[b] \in Seq(1 .. logged[b])
  /\ stream[b] \in Seq(1 .. logged[b])
  /\ file[b] \in Seq(1 .. logged[b])
  /\ \A i, j \in DOMAIN buffer[b] : buffer[b][i] = buffer[b][j] => i = j
  /\ b \notin failed => TimesBound(b)

CountInv == \A b \in Buffers : LogCounted(b)

LEMMA HandlerWroteNext ==
  ASSUME BufferInv, LogStep, NEW b \in Buffers, HandlerWrote(b)
  PROVE  HandlerWrote(b)'
<1>1. PICK s \in Signals :
        \/ pc[s] \in {"flush", "sync", "clear"} /\ b < at[s]
        \/ pc[s] \in {"sync", "clear"} /\ b = at[s]
        \/ pc[s] = "exit"
  BY DEF HandlerWrote
<1>2. mutex = s /\ s \in Contexts /\ s # Main
  BY <1>1, ContextsType DEF BufferInv, PlaceInv, HandlerInv
<1>3. at[s] \in Nat /\ b \in Nat
  BY <1>2 DEF BufferInv, TypeOK, Buffers
<1>4. CASE FlushStep(s)
  <2>1. /\ pc[s] \in {"flush", "sync", "clear"}
        /\ \/ pc'[s] \in {"sync", "clear"} /\ at'[s] = at[s]
           \/ pc'[s] = "flush" /\ at'[s] = at[s] + 1
           \/ pc'[s] = "exit"
    BY <1>2, <1>4, FlushStepMoves
  <2> QED
    BY <1>1, <1>3, <2>1 DEF HandlerWrote
<1>5. CASE ~ FlushStep(s)
  <2>1. pc'[s] = pc[s] /\ at'[s] = at[s]
    BY <1>2, <1>5, HolderNext
  <2> QED
    BY <1>1, <2>1 DEF HandlerWrote
<1> QED
  BY <1>4, <1>5

(* Nothing is forgotten of what was written.                                *)
LEMMA WroteNext ==
  ASSUME BufferInv, LogStep, NEW b \in Buffers,
         buffer'[b] = buffer[b] \/ buffer'[b] = <<>>, NEW r
  PROVE  Once(MainWrote(b, r)) + Once(HandlerWrote(b))
           <= Once(MainWrote(b, r)') + Once(HandlerWrote(b)')
<1>1. MainWrote(b, r) => MainWrote(b, r)'
  <2>1. CASE buffer'[b] = <<>>
    BY <2>1 DEF MainWrote
  <2>2. CASE buffer'[b] = buffer[b] /\ buffer'[b] # <<>>
    BY <2>2, WritingNext DEF MainWrote
  <2> QED
    BY <2>1, <2>2
<1>2. HandlerWrote(b) => HandlerWrote(b)'
  BY HandlerWroteNext
<1> QED
  BY <1>1, <1>2 DEF Once

LEMMA CountUntouched ==
  ASSUME BufferInv, LogStep, NEW b \in Buffers, LogCounted(b),
         b \in failed' => b \in failed, failed \subseteq failed', Untouched(b)
  PROVE  LogCounted(b)'
<1>1. ASSUME b \notin failed' PROVE TimesBound(b)'
  <2> SUFFICES ASSUME NEW r \in 1 .. logged'[b]
               PROVE  Count(file[b], r) + Count(stream[b], r)
                        <= Once(MainWrote(b, r)') + Once(HandlerWrote(b)')
    BY DEF TimesBound, Untouched
  <2>1. Count(file[b], r) + Count(stream[b], r)
          <= Once(MainWrote(b, r)) + Once(HandlerWrote(b))
    BY <1>1 DEF LogCounted, TimesBound, Untouched
  <2>2. Once(MainWrote(b, r)) + Once(HandlerWrote(b))
          <= Once(MainWrote(b, r)') + Once(HandlerWrote(b)')
    BY WroteNext DEF Untouched
  <2>3. Count(file[b], r) \in Nat /\ Count(stream[b], r) \in Nat
    BY CountType DEF LogCounted
  <2> QED
    BY <2>1, <2>2, <2>3 DEF Once
<1> QED
  BY <1>1 DEF LogCounted, Untouched

(* The next record of a log is none that waits in its Buffer.               *)
LEMMA AppendNext ==
  ASSUME NEW n \in Nat, NEW s \in Seq(1 .. n),
         \A i, j \in DOMAIN s : s[i] = s[j] => i = j
  PROVE  /\ Append(s, n + 1) \in Seq(1 .. n + 1)
         /\ \A i, j \in DOMAIN Append(s, n + 1) :
              Append(s, n + 1)[i] = Append(s, n + 1)[j] => i = j
         /\ \A r \in 1 .. n :
              r \in {Append(s, n + 1)[i] : i \in DOMAIN Append(s, n + 1)}
                => r \in {s[i] : i \in DOMAIN s}
<1>1. PICK k \in Nat : k = Len(s) /\ DOMAIN s = 1 .. k
  BY LenProperties
<1>2. \A i \in 1 .. k : s[i] \in 1 .. n
  BY <1>1, ElementOfSeq
<1>3. s \in Seq(1 .. n + 1)
  <2>1. (1 .. n) \subseteq (1 .. n + 1)
    OBVIOUS
  <2> QED
    BY <2>1, SeqMonotonic
<1>4. PICK last \in 1 .. n + 1 : last = n + 1
  OBVIOUS
<1>5. PICK t \in Seq(1 .. n + 1) :
        /\ t = Append(s, n + 1) /\ Len(t) = k + 1 /\ t[k + 1] = n + 1
        /\ \A i \in 1 .. k : t[i] = s[i]
  <2>1. /\ Append(s, last) \in Seq(1 .. n + 1)
        /\ Len(Append(s, last)) = Len(s) + 1
        /\ \A i \in 1 .. Len(s) : Append(s, last)[i] = s[i]
        /\ Append(s, last)[Len(s) + 1] = last
    BY <1>3, AppendProperties
  <2> QED
    BY <1>1, <1>4, <2>1
<1>6. DOMAIN t = 1 .. k + 1
  BY <1>5, LenProperties
<1>7. ASSUME NEW i \in 1 .. k + 1, NEW j \in 1 .. k + 1, t[i] = t[j]
      PROVE  i = j
  <2>1. \A l \in 1 .. k : t[l] = s[l] /\ t[l] # t[k + 1]
    BY <1>2, <1>5
  <2>2. CASE i \in 1 .. k /\ j \in 1 .. k
    <3>1. s[i] = s[j]
      BY <1>5, <1>7, <2>2
    <3> QED
      BY <1>1, <2>2, <3>1
  <2>3. CASE i = k + 1 \/ j = k + 1
    <3>1. i = k + 1 \/ i \in 1 .. k
      OBVIOUS
    <3>2. j = k + 1 \/ j \in 1 .. k
      OBVIOUS
    <3> QED
      BY <1>7, <2>1, <2>3, <3>1, <3>2
  <2> QED
    BY <2>2, <2>3
<1>8. ASSUME NEW r \in 1 .. n, NEW i \in 1 .. k + 1, t[i] = r
      PROVE  \E j \in DOMAIN s : s[j] = r
  <2>1. i # k + 1
    <3>1. t[k + 1] = n + 1 /\ r # n + 1
      BY <1>5
    <3> QED
      BY <1>8, <3>1
  <2>2. i \in 1 .. k
    BY <2>1
  <2> QED
    BY <1>1, <1>5, <1>8, <2>2
<1> QED
  BY <1>5, <1>6, <1>7, <1>8

LEMMA CountInserted ==
  ASSUME BufferInv, LogStep, NEW b \in Buffers, LogCounted(b),
         b \in failed' => b \in failed, failed \subseteq failed', Inserted(b)
  PROVE  LogCounted(b)'
<1>1. /\ logged[b] \in Nat /\ logged'[b] = logged[b] + 1
      /\ buffer'[b] = Append(buffer[b], logged[b] + 1)
      /\ stream'[b] = stream[b] /\ file'[b] = file[b]
  BY DEF Inserted, BufferInv, TypeOK
<1>2. (1 .. logged[b]) \subseteq (1 .. logged[b] + 1)
  BY <1>1
<1>3. /\ buffer[b] \in Seq(1 .. logged'[b]) /\ stream[b] \in Seq(1 .. logged'[b])
      /\ file[b] \in Seq(1 .. logged'[b])
  BY <1>1, <1>2, SeqMonotonic DEF LogCounted
<1>4. /\ buffer'[b] \in Seq(1 .. logged'[b])
      /\ \A r \in 1 .. logged[b] :
           r \in {buffer'[b][i] : i \in DOMAIN buffer'[b]}
             => r \in {buffer[b][i] : i \in DOMAIN buffer[b]}
  BY <1>1, AppendNext DEF LogCounted
<1>5. \A i, j \in DOMAIN buffer'[b] : buffer'[b][i] = buffer'[b][j] => i = j
  BY <1>1, AppendNext DEF LogCounted
<1>7. ASSUME b \notin failed' PROVE TimesBound(b)'
  <2> SUFFICES ASSUME NEW r \in 1 .. logged'[b]
               PROVE  Count(file[b], r) + Count(stream[b], r)
                        <= Once(MainWrote(b, r)') + Once(HandlerWrote(b)')
    BY <1>1 DEF TimesBound
  <2>1. Count(file[b], r) \in Nat /\ Count(stream[b], r) \in Nat
    BY <1>3, CountType
  <2>2. CASE r = logged[b] + 1
    <3>1. ASSUME NEW s \in Seq(1 .. logged[b]) PROVE Count(s, r) = 0
      <4>1. \A i \in DOMAIN s : s[i] # r
        BY <1>1, <2>2, <3>1, ElementOfSeq, LenProperties
      <4> QED
        BY <4>1, CountType
    <3>2. Count(file[b], r) = 0 /\ Count(stream[b], r) = 0
      BY <3>1 DEF LogCounted
    <3> QED
      BY <3>2 DEF Once
  <2>3. CASE r # logged[b] + 1
    <3>1. r \in 1 .. logged[b]
      BY <1>1, <2>3
    <3>2. Count(file[b], r) + Count(stream[b], r)
            <= Once(MainWrote(b, r)) + Once(HandlerWrote(b))
      BY <1>7, <3>1 DEF LogCounted, TimesBound
    <3>3. ~ Writing(b)
      BY DEF Inserted, Insert, Writing
    <3>4. r \in {buffer'[b][i] : i \in DOMAIN buffer'[b]}
            => r \in {buffer[b][i] : i \in DOMAIN buffer[b]}
      BY <1>4, <3>1
    <3>5. MainWrote(b, r) => MainWrote(b, r)'
      BY <3>3, <3>4 DEF MainWrote
    <3>6. HandlerWrote(b) => HandlerWrote(b)'
      BY HandlerWroteNext
    <3> QED
      BY <2>1, <3>2, <3>5, <3>6 DEF Once
  <2> QED
    BY <2>2, <2>3
<1> QED
  BY <1>1, <1>3, <1>4, <1>5, <1>7 DEF LogCounted

LEMMA CountHandedOver ==
  ASSUME BufferInv, LogStep, NEW b \in Buffers, LogCounted(b),
         b \in failed' => b \in failed, failed \subseteq failed',
         NEW c \in Contexts, HandedOver(c, b)
  PROVE  LogCounted(b)'
<1>1. /\ logged'[b] = logged[b] /\ buffer'[b] = buffer[b] /\ file'[b] = file[b]
      /\ stream'[b] = stream[b] \o buffer[b]
      /\ pc[c] = "flush" /\ at[c] = b /\ pc'[c] = "sync" /\ at'[c] = b
  BY DEF HandedOver, FlushWrite
<1>2. stream'[b] \in Seq(1 .. logged[b])
  BY <1>1, ConcatProperties DEF LogCounted
<1>3. ASSUME b \notin failed' PROVE TimesBound(b)'
  <2> SUFFICES ASSUME NEW r \in 1 .. logged[b]
               PROVE  Count(file[b], r) + Count(stream'[b], r)
                        <= Once(MainWrote(b, r)') + Once(HandlerWrote(b)')
    BY <1>1 DEF TimesBound
  <2>1. /\ Count(stream'[b], r) = Count(stream[b], r) + Count(buffer[b], r)
        /\ Count(buffer[b], r) \in Nat /\ Count(buffer[b], r) <= 1
    <3>1. /\ stream[b] \in Seq(1 .. logged[b]) /\ buffer[b] \in Seq(1 .. logged[b])
          /\ \A i, j \in DOMAIN buffer[b] : buffer[b][i] = buffer[b][j] => i = j
      BY DEF LogCounted
    <3>2. Count(stream[b] \o buffer[b], r) = Count(stream[b], r) + Count(buffer[b], r)
      BY <3>1, CountConcat
    <3>3. Count(buffer[b], r) \in Nat
      BY <3>1, CountType
    <3>4. Count(buffer[b], r) <= 1
      BY <3>1, CountDistinct
    <3> QED
      BY <1>1, <3>2, <3>3, <3>4
  <2>2. Count(file[b], r) \in Nat /\ Count(stream[b], r) \in Nat
    BY CountType DEF LogCounted
  <2>3. Count(file[b], r) + Count(stream[b], r)
          <= Once(MainWrote(b, r)) + Once(HandlerWrote(b))
    BY <1>3 DEF LogCounted, TimesBound
  <2>4. Once(MainWrote(b, r)) + Once(HandlerWrote(b))
          <= Once(MainWrote(b, r)') + Once(HandlerWrote(b)')
    BY <1>1, WroteNext
  <2>5. CASE c = Main
    <3>1. MainWrote(b, r)'
      BY <1>1, <2>5 DEF MainWrote, Writing
    <3>2. HandlerWrote(b) => HandlerWrote(b)'
      BY HandlerWroteNext
    <3>3. CASE r \in {buffer[b][i] : i \in DOMAIN buffer[b]}
      <4>1. ~ MainWrote(b, r)
        BY <1>1, <2>5, <3>3 DEF MainWrote, Writing
      <4> QED
        BY <2>1, <2>2, <2>3, <3>1, <3>2, <4>1 DEF Once
    <3>4. CASE r \notin {buffer[b][i] : i \in DOMAIN buffer[b]}
      <4>1. Count(buffer[b], r) = 0
        BY <3>4, CountType DEF LogCounted
      <4> QED
        BY <2>1, <2>2, <2>3, <2>4, <4>1 DEF Once
    <3> QED
      BY <3>3, <3>4
  <2>6. CASE c # Main
    <3>1. c \in Signals /\ mutex = c /\ at[c] \in Nat
      BY <1>1, <2>6 DEF Contexts, BufferInv, TypeOK, PlaceInv, HandlerInv, Buffers
    <3>2. HandlerWrote(b)'
      BY <1>1, <3>1 DEF HandlerWrote
    <3>3. \A s \in Signals : pc[s] \in {"flush", "sync", "clear", "exit"} => s = c
      BY <3>1 DEF BufferInv, PlaceInv, HandlerInv
    <3>4. ~ HandlerWrote(b)
      BY <1>1, <3>1, <3>3 DEF HandlerWrote
    <3>5. MainWrote(b, r) => MainWrote(b, r)'
      BY <1>1, WritingNext DEF MainWrote, HandedOver
    <3> QED
      BY <2>1, <2>2, <2>3, <3>2, <3>4, <3>5 DEF Once
  <2> QED
    BY <2>5, <2>6
<1> QED
  BY <1>1, <1>2, <1>3 DEF LogCounted

LEMMA CountWrittenOut ==
  ASSUME BufferInv, LogStep, NEW b \in Buffers, LogCounted(b),
         b \in failed' => b \in failed, failed \subseteq failed',
         NEW c \in Contexts, WrittenOut(c, b)
  PROVE  LogCounted(b)'
<1>1. /\ logged'[b] = logged[b] /\ buffer'[b] = buffer[b]
      /\ file'[b] = file[b] \o stream[b] /\ stream'[b] = <<>>
  BY DEF WrittenOut
<1>2. file'[b] \in Seq(1 .. logged[b]) /\ stream'[b] \in Seq(1 .. logged[b])
  BY <1>1, ConcatProperties, EmptySeq DEF LogCounted
<1>3. ASSUME b \notin failed' PROVE TimesBound(b)'
  <2> SUFFICES ASSUME NEW r \in 1 .. logged[b]
               PROVE  Count(file'[b], r) + Count(stream'[b], r)
                        <= Once(MainWrote(b, r)') + Once(HandlerWrote(b)')
    BY <1>1 DEF TimesBound
  <2>1. /\ Count(file'[b], r) = Count(file[b], r) + Count(stream[b], r)
        /\ Count(file[b], r) \in Nat /\ Count(stream[b], r) \in Nat
    <3>1. stream[b] \in Seq(1 .. logged[b]) /\ file[b] \in Seq(1 .. logged[b])
      BY DEF LogCounted
    <3>2. Count(file[b] \o stream[b], r) = Count(file[b], r) + Count(stream[b], r)
      BY <3>1, CountConcat
    <3>3. Count(file[b], r) \in Nat /\ Count(stream[b], r) \in Nat
      BY <3>1, CountType
    <3> QED
      BY <1>1, <3>2, <3>3
  <2>2. Count(stream'[b], r) = 0
    <3>1. \A i \in DOMAIN stream'[b] : stream'[b][i] # r
      BY <1>1
    <3> QED
      BY <1>2, <3>1, CountType
  <2>3. Count(file[b], r) + Count(stream[b], r)
          <= Once(MainWrote(b, r)) + Once(HandlerWrote(b))
    BY <1>3 DEF LogCounted, TimesBound
  <2>4. Once(MainWrote(b, r)) + Once(HandlerWrote(b))
          <= Once(MainWrote(b, r)') + Once(HandlerWrote(b)')
    BY <1>1, WroteNext
  <2> QED
    BY <2>1, <2>2, <2>3, <2>4 DEF Once
<1> QED
  BY <1>1, <1>2, <1>3 DEF LogCounted

LEMMA CountCleared ==
  ASSUME BufferInv, LogStep, NEW b \in Buffers, LogCounted(b),
         b \in failed' => b \in failed, failed \subseteq failed',
         NEW c \in Contexts, Cleared(c, b)
  PROVE  LogCounted(b)'
<1>1. /\ logged'[b] = logged[b] /\ buffer'[b] = <<>>
      /\ stream'[b] = stream[b] /\ file'[b] = file[b]
  BY DEF Cleared
<1>2. buffer'[b] \in Seq(1 .. logged[b]) /\ DOMAIN buffer'[b] = {}
  BY <1>1, EmptySeq
<1>3. ASSUME b \notin failed' PROVE TimesBound(b)'
  <2> SUFFICES ASSUME NEW r \in 1 .. logged[b]
               PROVE  Count(file[b], r) + Count(stream[b], r)
                        <= Once(MainWrote(b, r)') + Once(HandlerWrote(b)')
    BY <1>1 DEF TimesBound
  <2>1. Count(file[b], r) + Count(stream[b], r)
          <= Once(MainWrote(b, r)) + Once(HandlerWrote(b))
    BY <1>3 DEF LogCounted, TimesBound
  <2>2. Once(MainWrote(b, r)) + Once(HandlerWrote(b))
          <= Once(MainWrote(b, r)') + Once(HandlerWrote(b)')
    BY <1>1, WroteNext
  <2>3. Count(file[b], r) \in Nat /\ Count(stream[b], r) \in Nat
    BY CountType DEF LogCounted
  <2> QED
    BY <2>1, <2>2, <2>3 DEF Once
<1> QED
  BY <1>1, <1>2, <1>3 DEF LogCounted

LEMMA CountWroteInPart ==
  ASSUME NEW b \in Buffers, LogCounted(b), WroteInPart(b)
  PROVE  LogCounted(b)'
<1>1. /\ logged'[b] = logged[b] /\ buffer'[b] = buffer[b]
      /\ stream'[b] = stream[b] /\ b \in failed'
  BY DEF WroteInPart
<1>2. PICK records \in {stream[b], stream[b] \o buffer[b]} :
        \E n \in 0 .. Len(records) - 1 :
          file'[b] = file[b] \o SubSeq(records, 1, n)
  BY DEF WroteInPart
<1>3. records \in Seq(1 .. logged[b])
  <2>1. stream[b] \in Seq(1 .. logged[b]) /\ buffer[b] \in Seq(1 .. logged[b])
    BY DEF LogCounted
  <2>2. stream[b] \o buffer[b] \in Seq(1 .. logged[b])
    BY <2>1, ConcatProperties
  <2> QED
    BY <1>2, <2>1, <2>2
<1>4. PICK n \in 0 .. Len(records) - 1 :
        file'[b] = file[b] \o SubSeq(records, 1, n)
  BY <1>2
<1>5. Len(records) \in Nat /\ \A i \in 1 .. Len(records) : records[i] \in 1 .. logged[b]
  BY <1>3, LenProperties, ElementOfSeq
<1>6. \A i \in 1 .. n : records[i] \in 1 .. logged[b]
  BY <1>5
<1>7. SubSeq(records, 1, n) \in Seq(1 .. logged[b])
  BY <1>5, <1>6, SubSeqProperties
<1>8. file'[b] \in Seq(1 .. logged[b])
  BY <1>4, <1>7, ConcatProperties DEF LogCounted
<1> QED
  BY <1>1, <1>8 DEF LogCounted

LEMMA CountNext == BufferInv /\ CountInv /\ LogStep => CountInv'
<1> SUFFICES ASSUME BufferInv, CountInv, LogStep, NEW b \in Buffers
             PROVE  LogCounted(b)'
  BY DEF CountInv
<1>1. LogCounted(b)
  BY DEF CountInv
<1>2. failed \subseteq failed'
  BY StepEffect
<1>3. CASE WroteInPart(b)
  BY <1>1, <1>3, CountWroteInPart
<1>4. CASE (b \in failed' => b \in failed) /\ (Untouched(b) \/ Inserted(b))
  BY <1>1, <1>2, <1>4, CountUntouched, CountInserted
<1>5. ASSUME b \in failed' => b \in failed, NEW c \in Contexts,
             HandedOver(c, b) \/ WrittenOut(c, b) \/ Cleared(c, b)
      PROVE  LogCounted(b)'
  BY <1>1, <1>2, <1>5, CountHandedOver, CountWrittenOut, CountCleared
<1> QED
  BY <1>3, <1>4, <1>5, StepEffect

LEMMA CountInit == Init => CountInv
<1> SUFFICES ASSUME Init, NEW b \in Buffers PROVE LogCounted(b)
  BY DEF CountInv
<1>1. /\ logged[b] = 0 /\ buffer[b] = <<>> /\ stream[b] = <<>> /\ file[b] = <<>>
  BY DEF Init
<1>2. TimesBound(b)
  BY <1>1 DEF TimesBound
<1>3. <<>> \in Seq(1 .. logged[b])
  BY EmptySeq
<1> QED
  BY <1>1, <1>2, <1>3 DEF LogCounted

(* Neither the main thread nor the handlers write a record of a log whose   *)
(* disk does not fail more than once each.                                  *)
THEOREM RecordsWrittenAtMostTwice == Spec => []WrittenAtMostTwice
<1>1. Init => BufferInv /\ CountInv
  BY BufferInit, CountInit
<1>2. BufferInv /\ CountInv /\ [Next]_vars => BufferInv' /\ CountInv'
  BY BufferNext, CountNext DEF LogStep
<1>3. BufferInv /\ CountInv => WrittenAtMostTwice
  <2> SUFFICES ASSUME CountInv, NEW b \in Buffers \ failed,
                      NEW r \in 1 .. logged[b]
               PROVE  Count(file[b], r) <= 2
    BY DEF WrittenAtMostTwice, Count
  <2>1. Count(file[b], r) + Count(stream[b], r)
          <= Once(MainWrote(b, r)) + Once(HandlerWrote(b))
    BY DEF CountInv, LogCounted, TimesBound
  <2>2. Count(file[b], r) \in Nat /\ Count(stream[b], r) \in Nat
    BY CountType DEF CountInv, LogCounted
  <2> QED
    BY <2>1, <2>2 DEF Once
<1> QED
  BY <1>1, <1>2, <1>3, PTL DEF Spec

-----------------------------------------------------------------------------
(* What is in a file.                                                      *)

(* What has left the Buffer and what waits in it are the log, in order; in  *)
(* the middle of a flush(), the last records of the log are in both.        *)
InOrder(b) ==
  /\ \E m \in 1 .. logged[b] + 1 :
       /\ buffer[b] = Run(m, logged[b])
       /\ file[b] \o stream[b] = Run(1, IF Writing(b) THEN logged[b] ELSE m - 1)
       /\ Writing(b) => m <= logged[b]
  /\ stream[b] = <<>> \/ (Writing(b) /\ pc[Main] = "sync")
  /\ b \notin DOMAIN instances => buffer[b] = <<>>
  /\ pc[Main] \in {"close", "unregister", "remove"} /\ b = at[Main]
       => buffer[b] = <<>>

(* A handler on the main thread has flushed Buffer b.                       *)
Handled(s, b) ==
  /\ b \in DOMAIN instances
  /\ \/ pc[s] = "exit"
     \/ b < at[s]
     \/ b = at[s] /\ pc[s] \in {"sync", "clear"}

(* Then the log is complete, and a last piece of it may be there twice.     *)
Twice(s, b) ==
  /\ \E m \in 1 .. logged[b] + 1 :
       file[b] \o stream[b] = Run(1, logged[b]) \o Run(m, logged[b])
  /\ stream[b] = <<>> \/ (b = at[s] /\ pc[s] = "sync")

HandledOrInOrder(s, b) == IF Handled(s, b) THEN Twice(s, b) ELSE InOrder(b)

(* A handler holds mutex_, and has Buffers to flush.                        *)
Active == mutex \in Signals /\ instances # <<>>

(* While no handler flushes, the log is in order; when one on the main      *)
(* thread flushes, that thread stands still.  A handler on another thread   *)
(* and the main thread may mix what they write.                             *)
ContentInv ==
  \A b \in Buffers \ failed :
    /\ ~ Active => InOrder(b)
    /\ \A s \in Signals :
         mutex = s /\ instances # <<>> /\ OnMain(s) => HandledOrInOrder(s, b)

LEMMA BufferTypes ==
  ASSUME TypeOK, NEW b \in Buffers
  PROVE  /\ buffer[b] \in Records /\ stream[b] \in Records /\ file[b] \in Records
         /\ logged[b] \in 0 .. MaxRecords /\ logged[b] \in Nat /\ MaxRecords \in Nat
         /\ b \in Nat \ {0} /\ <<>> \in Records
BY BuffersAssumption, EmptySeq DEF TypeOK, Buffers, Records

LEMMA FrozenInOrder ==
  ASSUME NEW b, InOrder(b), Untouched(b), pc'[Main] = pc[Main],
         at'[Main] = at[Main], instances' = instances
  PROVE  InOrder(b)'
BY DEF InOrder, Untouched, Writing

LEMMA QuietInOrder ==
  ASSUME NEW b, InOrder(b), Untouched(b), ~ Writing(b), ~ Writing(b)',
         b \notin DOMAIN instances' => buffer[b] = <<>>,
         pc'[Main] \in {"close", "unregister", "remove"} /\ b = at'[Main]
           => buffer[b] = <<>>
  PROVE  InOrder(b)'
BY DEF InOrder, Untouched

LEMMA InsertInOrder ==
  ASSUME BufferInv, NEW b \in Buffers, InOrder(b), Inserted(b)
  PROVE  InOrder(b)'
<1>1. /\ logged[b] \in 0 .. MaxRecords /\ logged[b] < MaxRecords
      /\ logged[b] \in Nat /\ MaxRecords \in Nat
      /\ at[Main] = b /\ pc[Main] = "insert" /\ at' = at /\ instances' = instances
      /\ pc \in [Contexts -> PCs] /\ Main \in Contexts /\ b \in DOMAIN instances
  BY BufferTypes, ContextsType
     DEF Inserted, Insert, BufferInv, PlaceInv, MainInv, TypeOK
<1>2. pc'[Main] \in {"flush", "ready"}
  BY <1>1 DEF Inserted, Insert, Goto
<1>3. ~ Writing(b) /\ ~ Writing(b)'
  BY <1>1, <1>2 DEF Writing
<1>4. PICK m \in 1 .. logged[b] + 1 :
        buffer[b] = Run(m, logged[b]) /\ file[b] \o stream[b] = Run(1, m - 1)
  BY <1>3 DEF InOrder
<1>5. PICK n \in 0 .. MaxRecords : n = logged[b] /\ n < MaxRecords
  BY <1>1
<1>6. m \in Nat \ {0} /\ m <= n + 1 /\ m \in 1 .. n + 1 + 1
  BY <1>1, <1>5
<1>7. Append(Run(m, n), n + 1) = Run(m, n + 1)
  BY <1>5, <1>6, RunAppend
<1>8. buffer'[b] = Run(m, logged'[b]) /\ logged'[b] = n + 1
  BY <1>4, <1>5, <1>7 DEF Inserted
<1>9. stream[b] = <<>> /\ stream'[b] = stream[b] /\ file'[b] = file[b]
  BY <1>3 DEF InOrder, Inserted
<1> QED
  BY <1>1, <1>2, <1>3, <1>4, <1>6, <1>8, <1>9 DEF InOrder

LEMMA AddBuffer ==
  ASSUME NEW f \in Records, NEW s \in Records, NEW t \in Records
  PROVE  f \o (s \o t) = (f \o s) \o t /\ (f \o s) \o <<>> = f \o s
<1>1. f \o s \in Records
  BY ConcatProperties DEF Records
<1> QED
  BY <1>1, ConcatAssociative, ConcatEmptySeq DEF Records

LEMMA HandOverInOrder ==
  ASSUME BufferInv, NEW b \in Buffers, InOrder(b), HandedOver(Main, b)
  PROVE  InOrder(b)'
<1>1. /\ logged[b] \in 0 .. MaxRecords /\ logged[b] \in Nat /\ MaxRecords \in Nat
      /\ buffer[b] \in Records /\ stream[b] \in Records /\ file[b] \in Records
      /\ at[Main] = b /\ pc[Main] = "flush" /\ pc'[Main] = "sync" /\ at' = at
      /\ instances' = instances
  BY BufferTypes DEF HandedOver, FlushWrite, BufferInv
<1>2. /\ logged'[b] = logged[b] /\ buffer'[b] = buffer[b] /\ file'[b] = file[b]
      /\ stream'[b] = stream[b] \o buffer[b] /\ buffer[b] # <<>>
  BY DEF HandedOver
<1>3. ~ Writing(b) /\ Writing(b)'
  BY <1>1 DEF Writing
<1>4. PICK m \in 1 .. logged[b] + 1 :
        buffer[b] = Run(m, logged[b]) /\ file[b] \o stream[b] = Run(1, m - 1)
  BY <1>3 DEF InOrder
<1>5. PICK n \in 0 .. MaxRecords : n = logged[b]
  BY <1>1
<1>6. m \in Nat \ {0} /\ m <= n + 1 /\ m <= n
  <2>1. m \in Nat \ {0} /\ m <= n + 1
    BY <1>1, <1>5
  <2>2. m # n + 1
    BY <1>2, <1>4, <1>5, <2>1, RunType
  <2> QED
    BY <1>1, <1>5, <2>1, <2>2
<1>7. file'[b] \o stream'[b] = Run(1, n)
  <2>1. file[b] \o (stream[b] \o buffer[b]) = (file[b] \o stream[b]) \o buffer[b]
    BY <1>1, AddBuffer
  <2>2. Run(1, m - 1) \o Run(m, n) = Run(1, n)
    BY <1>6, RunConcat
  <2> QED
    BY <1>2, <1>4, <1>5, <2>1, <2>2
<1>8. b \in DOMAIN instances
  BY <1>1 DEF BufferInv, PlaceInv, MainInv
<1> QED
  BY <1>1, <1>2, <1>3, <1>4, <1>5, <1>6, <1>7, <1>8 DEF InOrder

LEMMA WriteOutInOrder ==
  ASSUME BufferInv, NEW b \in Buffers, InOrder(b), WrittenOut(Main, b),
         Writing(b) => Writing(b)' /\ pc'[Main] = "clear",
         Writing(b)' => Writing(b), instances' = instances
  PROVE  InOrder(b)'
<1>1. /\ buffer[b] \in Records /\ stream[b] \in Records /\ file[b] \in Records
      /\ logged'[b] = logged[b] /\ buffer'[b] = buffer[b]
      /\ file'[b] = file[b] \o stream[b] /\ stream'[b] = <<>>
  BY BufferTypes DEF WrittenOut, BufferInv
<1>2. file'[b] \o stream'[b] = file[b] \o stream[b]
  BY <1>1, AddBuffer
<1>3. pc'[Main] \in {"close", "unregister", "remove"} /\ b = at'[Main]
        => buffer'[b] = <<>>
  <2>1. CASE Close
    <3>1. pc[Main] = "close" /\ at[Main] = b
      BY <2>1 DEF Close, WrittenOut
    <3> QED
      BY <1>1, <3>1 DEF InOrder
  <2>2. CASE FlushSync(Main)
    <3>1. Writing(b)
      BY <2>2 DEF FlushSync, WrittenOut, Writing
    <3> QED
      BY <3>1
  <2> QED
    BY <2>1, <2>2 DEF WrittenOut
<1> QED
  BY <1>1, <1>2, <1>3 DEF InOrder

LEMMA ClearInOrder ==
  ASSUME BufferInv, NEW b \in Buffers, InOrder(b), Cleared(Main, b),
         pc'[Main] \notin {"sync", "clear"}
  PROVE  InOrder(b)'
<1>1. /\ logged'[b] = logged[b] /\ buffer'[b] = <<>> /\ stream'[b] = stream[b]
      /\ file'[b] = file[b] /\ at[Main] = b /\ pc[Main] = "clear"
      /\ logged[b] \in 0 .. MaxRecords /\ logged[b] \in Nat /\ MaxRecords \in Nat
  BY BufferTypes DEF Cleared, FlushClear, BufferInv
<1>2. Writing(b) /\ ~ Writing(b)'
  BY <1>1 DEF Writing
<1>3. file[b] \o stream[b] = Run(1, logged[b]) /\ stream[b] = <<>>
  BY <1>1, <1>2 DEF InOrder
<1>4. PICK n \in 0 .. MaxRecords, m \in Nat \ {0} :
        n = logged[b] /\ m = n + 1 /\ m - 1 = n /\ m \in 1 .. n + 1
  BY <1>1
<1>5. Run(m, n) = <<>>
  BY <1>4, RunType
<1>6. buffer'[b] = Run(m, logged'[b])
  BY <1>1, <1>4, <1>5
<1>7. file'[b] \o stream'[b] = Run(1, m - 1)
  BY <1>1, <1>3, <1>4
<1> QED
  BY <1>1, <1>2, <1>3, <1>4, <1>6, <1>7 DEF InOrder

(* A call of flush() by the main thread.                                    *)
LEMMA MainFlushInOrder ==
  ASSUME BufferInv, FlushStep(Main), NEW b \in Buffers, b \notin failed',
         InOrder(b)
  PROVE  InOrder(b)'
<1>1. /\ TypeOK /\ Main \in Contexts /\ pc \in [Contexts -> PCs]
      /\ pc[Main] \in {"flush", "sync", "clear"}
      /\ at[Main] \in DOMAIN instances /\ at'[Main] = at[Main]
      /\ UNCHANGED <<instances, leaving>>
      /\ \/ pc'[Main] \in {"sync", "clear"}
         \/ pc'[Main] = IF leaving THEN "close" ELSE "ready"
      /\ On(Main) = at[Main] /\ at[Main] \in Buffers
  BY FlushStepMoves, ContextsType, OnType DEF BufferInv, TypeOK
<1>2. b \notin failed /\ ~ WroteInPart(b)
  BY FlushStepEffect, <1>1 DEF WroteInPart
<1>3. CASE b # at[Main]
  <2>1. Untouched(b)
    BY <1>1, <1>2, <1>3, FlushStepEffect DEF HandedOver, WrittenOut, Cleared
  <2>2. ~ Writing(b) /\ ~ Writing(b)'
    BY <1>1, <1>3 DEF Writing
  <2>3. b \notin DOMAIN instances' => buffer[b] = <<>>
    BY <1>1 DEF InOrder
  <2> QED
    BY <1>1, <1>3, <2>1, <2>2, <2>3, QuietInOrder
<1>4. CASE b = at[Main] /\ FlushWrite(Main)
  <2>1. UNCHANGED <<logged, buffer>> /\ ~ Writing(b)
    BY <1>4 DEF FlushWrite, Writing
  <2>2. CASE buffer[b] = <<>>
    <3>1. FlushReturns(Main) /\ UNCHANGED <<stream, file>>
      BY <1>1, <1>4, <2>2 DEF FlushWrite
    <3>2. Untouched(b)
      BY <2>1, <3>1 DEF Untouched
    <3>3. ~ Writing(b)'
      BY <1>1, <3>1 DEF FlushReturns, Goto, Writing
    <3> QED
      BY <2>1, <2>2, <3>2, <3>3, QuietInOrder
  <2>3. CASE buffer[b] # <<>>
    <3>1. /\ Goto(Main, "sync") /\ at' = at
          /\ \/ stream' = [stream EXCEPT ![b] = @ \o buffer[b]] /\ UNCHANGED file
             \/ WriteFails(b, stream[b] \o buffer[b])
      BY <1>1, <1>2, <1>4, <2>3 DEF FlushWrite
    <3>2. ~ WriteFails(b, stream[b] \o buffer[b])
      BY <1>2 DEF WriteFails
    <3>3. HandedOver(Main, b)
      BY <1>1, <1>2, <1>4, <2>1, <2>3, <3>1, <3>2 DEF HandedOver, Goto, TypeOK
    <3> QED
      BY <3>3, HandOverInOrder
  <2> QED
    BY <2>2, <2>3
<1>5. CASE b = at[Main] /\ FlushSync(Main)
  <2>1. WriteOut(Main, "clear") /\ ~ WriteFails(b, stream[b])
    BY <1>1, <1>2, <1>5 DEF FlushSync, WriteFails
  <2>2. /\ file' = [file EXCEPT ![b] = @ \o stream[b]]
        /\ stream' = [stream EXCEPT ![b] = <<>>]
        /\ UNCHANGED <<logged, buffer, at>> /\ Goto(Main, "clear")
    BY <1>1, <1>5, <2>1 DEF WriteOut
  <2>3. WrittenOut(Main, b)
    BY <1>1, <1>5, <2>2 DEF WrittenOut, TypeOK
  <2>4. Writing(b) /\ Writing(b)' /\ pc'[Main] = "clear"
    BY <1>1, <1>5, <2>2 DEF Writing, FlushSync, Goto
  <2> QED
    BY <1>1, <2>3, <2>4, WriteOutInOrder
<1>6. CASE b = at[Main] /\ FlushClear(Main)
  <2>1. /\ buffer' = [buffer EXCEPT ![b] = <<>>]
        /\ UNCHANGED <<logged, stream, file>> /\ FlushReturns(Main)
    BY <1>1, <1>6 DEF FlushClear
  <2>2. Cleared(Main, b) /\ pc'[Main] \notin {"sync", "clear"}
    BY <1>1, <1>6, <2>1 DEF Cleared, FlushReturns, Goto, TypeOK
  <2> QED
    BY <2>2, ClearInOrder
<1> QED
  BY <1>3, <1>4, <1>5, <1>6 DEF FlushStep

(* While no handler flushes, every step keeps the logs in order.            *)
LEMMA IdleInOrder ==
  ASSUME BufferInv, LogStep, ~ Active, NEW b \in Buffers, b \notin failed',
         InOrder(b)
  PROVE  InOrder(b)'
<1>1. /\ TypeOK /\ Main \in Contexts /\ pc \in [Contexts -> PCs]
      /\ at \in [Contexts -> Buffers] /\ instances \in Seq(Buffers)
      /\ pc[Main] \in {"close", "unregister", "remove"} => at[Main] = Len(instances)
      /\ b \notin DOMAIN instances => buffer[b] = <<>>
  BY ContextsType DEF BufferInv, TypeOK, PlaceInv, MainInv, InOrder
<1>2. CASE Insert
  <2>1. Inserted(b) \/ Untouched(b)
    BY <1>2, StepEffect DEF Insert, FlushStep, HandedOver, WrittenOut, Cleared,
       FlushWrite, FlushSync, FlushClear, Close, WroteInPart, Runs, Inserted,
       Untouched, BufferInv, TypeOK
  <2>2. pc[Main] = "insert" /\ pc'[Main] \in {"flush", "ready"} /\ instances' = instances
    BY <1>1, <1>2 DEF Insert, Goto
  <2>3. ~ Writing(b) /\ ~ Writing(b)'
    BY <2>2 DEF Writing
  <2> QED
    BY <1>1, <2>1, <2>2, <2>3, InsertInOrder, QuietInOrder
<1>3. CASE FlushStep(Main)
  BY <1>3, MainFlushInOrder
<1>4. CASE Close
  <2>1. /\ WriteOut(Main, "unregister") /\ pc[Main] = "close"
        /\ On(Main) = at[Main] /\ at[Main] \in Buffers
    BY <1>1, <1>4, OnType DEF Close
  <2>2. instances' = instances /\ at' = at /\ pc'[Main] = "unregister"
    BY <1>1, <2>1 DEF WriteOut, Goto
  <2>3. ~ Writing(b) /\ ~ Writing(b)'
    BY <2>1, <2>2 DEF Writing
  <2>4. Untouched(b) \/ WrittenOut(Main, b)
    BY <1>1, <1>4, <2>1, WriteOutEffect DEF WroteInPart
  <2>5. CASE WrittenOut(Main, b)
    BY <2>2, <2>3, <2>5, WriteOutInOrder
  <2>6. CASE Untouched(b)
    BY <1>1, <2>1, <2>2, <2>3, <2>6, QuietInOrder DEF InOrder
  <2> QED
    BY <2>4, <2>5, <2>6
<1>5. CASE Remove
  <2>1. /\ pc[Main] = "remove" /\ Untouched(b)
        /\ pc'[Main] \in {"flush", "return"}
    BY <1>1, <1>5 DEF Remove, streams, Untouched, Goto
  <2>2. ~ Writing(b) /\ ~ Writing(b)'
    BY <2>1 DEF Writing
  <2>3. b \notin DOMAIN instances' => buffer[b] = <<>>
    <3>1. /\ instances' \in Seq(Buffers) /\ Len(instances) \in Nat
          /\ Len(instances') = Len(instances) - 1
      BY <1>5, RemoveLast DEF Remove
    <3>2. /\ DOMAIN instances = 1 .. Len(instances)
          /\ DOMAIN instances' = 1 .. Len(instances) - 1
      BY <1>1, <3>1
    <3>3. CASE b = at[Main]
      BY <2>1, <3>3 DEF InOrder
    <3>4. CASE b # at[Main]
      BY <1>1, <2>1, <3>1, <3>2, <3>4
    <3> QED
      BY <3>3, <3>4
  <2> QED
    BY <2>1, <2>2, <2>3, QuietInOrder
<1>6. CASE PushBack
  <2>1. /\ pc[Main] = "push_back" /\ Untouched(b)
        /\ pc'[Main] = "register_signals"
        /\ instances' = Append(instances, at[Main])
    BY <1>1, <1>6 DEF PushBack, streams, Untouched, Goto
  <2>2. ~ Writing(b) /\ ~ Writing(b)'
    BY <2>1 DEF Writing
  <2>3. b \notin DOMAIN instances' => buffer[b] = <<>>
    BY <1>1, <2>1
  <2> QED
    BY <2>1, <2>2, <2>3, QuietInOrder
<1>7. CASE LockInstances
  <2>1. /\ pc[Main] \in {"register", "unregister"} /\ Untouched(b)
        /\ pc'[Main] = IF pc[Main] = "register" THEN "push_back" ELSE "remove"
        /\ instances' = instances /\ at' = at
    BY <1>1, <1>7 DEF LockInstances, streams, Untouched, Goto
  <2>2. ~ Writing(b) /\ ~ Writing(b)'
    BY <2>1 DEF Writing
  <2>3. pc'[Main] \in {"close", "unregister", "remove"} /\ b = at'[Main]
          => buffer[b] = <<>>
    BY <2>1 DEF InOrder
  <2> QED
    BY <1>1, <2>1, <2>2, <2>3, QuietInOrder
<1>8. CASE \/ RegisterSignals \/ Return \/ Construct \/ Leave
           \/ \E d \in Buffers : Put(d) \/ Flush(d)
  <2>1. /\ pc[Main] \in {"register_signals", "return", "ready"}
        /\ pc'[Main] \in {"ready", "return", "register", "flush", "insert"}
        /\ UNCHANGED <<logged, streams, instances>>
    BY <1>1, <1>8 DEF RegisterSignals, Return, Construct, Leave, Put, Flush,
       Ready, Goto
  <2>2. Untouched(b) /\ ~ Writing(b) /\ ~ Writing(b)'
    BY <2>1 DEF streams, Untouched, Writing
  <2> QED
    BY <1>1, <2>1, <2>2, QuietInOrder
<1>9. ASSUME UNCHANGED <<logged, streams, instances>>,
             pc'[Main] = pc[Main], at'[Main] = at[Main]
      PROVE  InOrder(b)'
  BY <1>9, FrozenInOrder DEF streams, Untouched
<1>10. ASSUME NEW s \in Signals, FlushStep(s) PROVE FALSE
  <2>1. pc[s] \in {"flush", "sync", "clear"}
    BY <1>10, FlushStepMoves, ContextsType
  <2>2. mutex = s /\ at[s] \in DOMAIN instances
    BY <2>1 DEF BufferInv, PlaceInv, HandlerInv
  <2> QED
    BY <1>1, <2>2 DEF Active
<1>11. ASSUME NEW s \in Signals, LockInHandler(s) \/ Exit(s)
       PROVE  InOrder(b)'
  <2>1. s \in Contexts /\ s # Main
    BY ContextsType
  <2> QED
    BY <1>1, <1>9, <1>11, <2>1 DEF LockInHandler, Exit, Goto
<1>12. ASSUME NEW s \in Signals, NEW t \in Threads, Deliver(s, t)
       PROVE  InOrder(b)'
  BY <1>1, <1>9, <1>12, ContextsType DEF Deliver, Goto
<1>13. CASE EndedByCaller \/ UNCHANGED vars
  BY <1>9, <1>13 DEF EndedByCaller, vars, streams
<1> QED
  BY <1>2, <1>3, <1>4, <1>5, <1>6, <1>7, <1>8, <1>10, <1>11, <1>12, <1>13,
     FailEnds
     DEF LogStep, Next, MainStep, HandlerStep

(* A handler writes what waits in the Buffer to a file that is in order.    *)
LEMMA HandOverTwice ==
  ASSUME BufferInv, NEW s \in Signals, NEW b \in Buffers, InOrder(b),
         HandedOver(s, b)
  PROVE  Twice(s, b)'
<1>1. /\ logged[b] \in 0 .. MaxRecords /\ logged[b] \in Nat /\ MaxRecords \in Nat
      /\ buffer[b] \in Records /\ stream[b] \in Records /\ file[b] \in Records
      /\ at'[s] = b /\ pc'[s] = "sync"
      /\ logged'[b] = logged[b] /\ file'[b] = file[b]
      /\ stream'[b] = stream[b] \o buffer[b]
  BY BufferTypes DEF HandedOver, BufferInv
<1>2. PICK m \in 1 .. logged[b] + 1 :
        /\ buffer[b] = Run(m, logged[b])
        /\ file[b] \o stream[b] = Run(1, IF Writing(b) THEN logged[b] ELSE m - 1)
  BY DEF InOrder
<1>3. PICK n \in 0 .. MaxRecords : n = logged[b]
  BY <1>1
<1>4. m \in Nat \ {0} /\ m <= n + 1 /\ n + 1 \in Nat \ {0} /\ n + 1 \in 1 .. n + 1
  BY <1>1, <1>3
<1>5. file'[b] \o stream'[b] = (file[b] \o stream[b]) \o buffer[b]
  <2>1. file[b] \o (stream[b] \o buffer[b]) = (file[b] \o stream[b]) \o buffer[b]
    BY <1>1, AddBuffer
  <2> QED
    BY <1>1, <2>1
<1>6. CASE Writing(b)
  BY <1>1, <1>2, <1>5, <1>6 DEF Twice
<1>7. CASE ~ Writing(b)
  <2>1. file'[b] \o stream'[b] = Run(1, n)
    BY <1>2, <1>3, <1>4, <1>5, <1>7, RunConcat
  <2>2. PICK k \in Nat \ {0} : k = n + 1 /\ k \in 1 .. n + 1 /\ k <= n + 1
    BY <1>4
  <2>3. Run(k, n) = <<>>
    BY <2>2, RunType
  <2>4. Run(1, n) \o Run(k, n) = Run(1, n)
    <3>1. Run(1, n) \in Records
      BY RunFromFirst
    <3> QED
      BY <2>3, <3>1, ConcatEmptySeq DEF Records
  <2> QED
    BY <1>1, <1>3, <2>1, <2>2, <2>4 DEF Twice
<1> QED
  BY <1>6, <1>7

(* A file that is in order and complete.                                    *)
LEMMA CompleteInOrder ==
  ASSUME BufferInv, NEW b \in Buffers, InOrder(b), buffer[b] = <<>>
  PROVE  /\ file[b] = RecordsFrom(b, 1) /\ stream[b] = <<>>
         /\ \E m \in 1 .. logged[b] + 1 :
              file[b] \o stream[b] = Run(1, logged[b]) \o Run(m, logged[b])
<1>1. /\ logged[b] \in 0 .. MaxRecords /\ logged[b] \in Nat /\ MaxRecords \in Nat
      /\ stream[b] \in Records /\ file[b] \in Records
  BY BufferTypes DEF BufferInv
<1>2. PICK m \in 1 .. logged[b] + 1 :
        /\ buffer[b] = Run(m, logged[b])
        /\ file[b] \o stream[b] = Run(1, IF Writing(b) THEN logged[b] ELSE m - 1)
        /\ Writing(b) => m <= logged[b]
  BY DEF InOrder
<1>3. PICK n \in 0 .. MaxRecords : n = logged[b]
  BY <1>1
<1>4. m \in Nat \ {0} /\ m <= n + 1
  BY <1>1, <1>3
<1>5. m = n + 1
  <2>1. Run(m, n) = <<>>
    BY <1>2, <1>3
  <2> QED
    BY <1>4, <2>1, RunType
<1>6. ~ Writing(b) /\ m - 1 = n
  BY <1>1, <1>2, <1>3, <1>5
<1>7. stream[b] = <<>> /\ file[b] \o stream[b] = Run(1, n)
  BY <1>2, <1>3, <1>6 DEF InOrder
<1>8. file[b] = Run(1, n)
  BY <1>1, <1>7, ConcatEmptySeq DEF Records
<1>9. Run(1, n) = RecordsFrom(b, 1)
  BY <1>3 DEF Run, RecordsFrom
<1>10. Run(1, n) \o Run(m, n) = Run(1, n)
  <2>1. Run(1, n) \in Records
    BY RunFromFirst
  <2>2. Run(m, n) = <<>>
    BY <1>2, <1>3
  <2> QED
    BY <2>1, <2>2, ConcatEmptySeq DEF Records
<1> QED
  BY <1>2, <1>3, <1>7, <1>8, <1>9, <1>10

(* A call of flush() by a handler on the main thread.                       *)
LEMMA HandlerFlushContent ==
  ASSUME BufferInv, NEW s \in Signals, FlushStep(s), NEW b \in Buffers,
         b \notin failed', HandledOrInOrder(s, b)
  PROVE  HandledOrInOrder(s, b)'
<1>1. /\ TypeOK /\ s \in Contexts /\ Main \in Contexts /\ s # Main
      /\ pc \in [Contexts -> PCs] /\ b \in Nat \ {0}
      /\ pc[s] \in {"flush", "sync", "clear"}
      /\ at[s] \in DOMAIN instances /\ at[s] \in Nat /\ On(s) = at[s]
      /\ at[s] \in Buffers
      /\ Len(instances) \in Nat /\ DOMAIN instances = 1 .. Len(instances)
  <2>1. s \in Contexts /\ Main \in Contexts /\ s # Main
    BY ContextsType
  <2>2. pc[s] \in {"flush", "sync", "clear"}
    BY <2>1, FlushStepMoves
  <2>3. On(s) = at[s] /\ at[s] \in DOMAIN instances /\ at[s] \in Buffers
    BY <2>1, <2>2, OnType
  <2>4. /\ TypeOK /\ pc \in [Contexts -> PCs] /\ instances \in Seq(Buffers)
    BY DEF BufferInv, TypeOK
  <2>5. Len(instances) \in Nat /\ DOMAIN instances = 1 .. Len(instances)
    BY <2>4, LenProperties
  <2> QED
    BY <2>1, <2>2, <2>3, <2>4, <2>5 DEF Buffers
<1>2. /\ UNCHANGED <<logged, instances>>
      /\ pc'[Main] = pc[Main] /\ at'[Main] = at[Main]
      /\ \/ pc'[s] \in {"sync", "clear"} /\ at'[s] = at[s]
         \/ pc'[s] = "flush" /\ at[s] < Len(instances) /\ at'[s] = at[s] + 1
         \/ pc'[s] = "exit" /\ at[s] = Len(instances) /\ at'[s] = at[s]
  BY <1>1, FlushStepMoves
<1>3. b \notin failed /\ ~ WroteInPart(b)
  BY <1>1, FlushStepEffect DEF WroteInPart
<1>4. CASE b # at[s]
  <2>1. Untouched(b)
    BY <1>1, <1>3, <1>4, FlushStepEffect DEF HandedOver, WrittenOut, Cleared
  <2>2. Handled(s, b)' <=> Handled(s, b)
    BY <1>1, <1>2, <1>4 DEF Handled
  <2>3. Twice(s, b) => Twice(s, b)'
    BY <1>4, <2>1 DEF Twice, Untouched
  <2>4. InOrder(b) => InOrder(b)'
    BY <1>2, <2>1, FrozenInOrder
  <2> QED
    BY <2>2, <2>3, <2>4 DEF HandledOrInOrder
<1>5. CASE b = at[s] /\ FlushWrite(s)
  <2>1. pc[s] = "flush" /\ UNCHANGED <<logged, buffer>>
    BY <1>5 DEF FlushWrite
  <2>2. InOrder(b)
    BY <1>1, <1>5, <2>1 DEF HandledOrInOrder, Handled
  <2>3. CASE buffer[b] = <<>>
    <3>1. FlushReturns(s) /\ UNCHANGED <<stream, file>>
      BY <1>1, <1>5, <2>3 DEF FlushWrite
    <3>2. pc'[s] \in {"flush", "exit"}
      BY <1>1, <3>1 DEF FlushReturns, Goto
    <3>3. Handled(s, b)'
      BY <1>1, <1>2, <1>5, <3>2 DEF Handled
    <3>4. /\ stream[b] = <<>>
          /\ \E m \in 1 .. logged[b] + 1 :
               file[b] \o stream[b] = Run(1, logged[b]) \o Run(m, logged[b])
      BY <2>2, <2>3, CompleteInOrder
    <3>5. Twice(s, b)'
      BY <2>1, <3>1, <3>4 DEF Twice
    <3> QED
      BY <3>3, <3>5 DEF HandledOrInOrder
  <2>4. CASE buffer[b] # <<>>
    <3>1. /\ Goto(s, "sync") /\ at' = at
          /\ \/ stream' = [stream EXCEPT ![b] = @ \o buffer[b]] /\ UNCHANGED file
             \/ WriteFails(b, stream[b] \o buffer[b])
      BY <1>1, <1>3, <1>5, <2>4 DEF FlushWrite
    <3>2. ~ WriteFails(b, stream[b] \o buffer[b])
      BY <1>3 DEF WriteFails
    <3>3. HandedOver(s, b)
      BY <1>1, <1>3, <1>5, <2>1, <2>4, <3>1, <3>2 DEF HandedOver, Goto, TypeOK
    <3>4. Twice(s, b)'
      BY <2>2, <3>3, HandOverTwice
    <3>5. Handled(s, b)'
      BY <1>1, <1>2, <1>5, <3>3 DEF Handled, HandedOver
    <3> QED
      BY <3>4, <3>5 DEF HandledOrInOrder
  <2> QED
    BY <2>3, <2>4
<1>6. CASE b = at[s] /\ FlushSync(s)
  <2>1. WriteOut(s, "clear") /\ ~ WriteFails(b, stream[b]) /\ pc[s] = "sync"
    BY <1>1, <1>3, <1>6 DEF FlushSync, WriteFails
  <2>2. /\ file' = [file EXCEPT ![b] = @ \o stream[b]]
        /\ stream' = [stream EXCEPT ![b] = <<>>]
        /\ UNCHANGED <<logged, buffer, at>> /\ pc'[s] = "clear"
    BY <1>1, <1>6, <2>1 DEF WriteOut, Goto
  <2>3. Handled(s, b) /\ Handled(s, b)'
    BY <1>1, <1>2, <1>6, <2>1, <2>2 DEF Handled
  <2>4. file'[b] = file[b] \o stream[b] /\ stream'[b] = <<>>
    BY <1>1, <2>2 DEF TypeOK
  <2>5. file'[b] \o stream'[b] = file[b] \o stream[b]
    BY <1>1, <2>4, BufferTypes, AddBuffer
  <2>6. Twice(s, b)'
    BY <2>2, <2>3, <2>4, <2>5 DEF Twice, HandledOrInOrder
  <2> QED
    BY <2>3, <2>6 DEF HandledOrInOrder
<1>7. CASE b = at[s] /\ FlushClear(s)
  <2>1. /\ pc[s] = "clear" /\ FlushReturns(s)
        /\ UNCHANGED <<logged, stream, file>>
    BY <1>7 DEF FlushClear
  <2>2. pc'[s] \in {"flush", "exit"}
    BY <1>1, <2>1 DEF FlushReturns, Goto
  <2>3. Handled(s, b) /\ Handled(s, b)'
    BY <1>1, <1>2, <1>7, <2>1, <2>2 DEF Handled
  <2>4. Twice(s, b)'
    BY <2>1, <2>3 DEF HandledOrInOrder, Twice
  <2> QED
    BY <2>3, <2>4 DEF HandledOrInOrder
<1> QED
  BY <1>4, <1>5, <1>6, <1>7 DEF FlushStep

(* A handler begins to flush when mutex_ is free, and at the first Buffer.  *)
LEMMA HolderBegins ==
  ASSUME BufferInv, LogStep, NEW s \in Signals, mutex # s, mutex' = s
  PROVE  /\ LockInHandler(s) /\ mutex = Nobody
         /\ at'[s] = 1 /\ (instances # <<>> => pc'[s] = "flush")
         /\ pc'[Main] = pc[Main] /\ at'[Main] = at[Main]
         /\ UNCHANGED <<logged, streams, instances, stack>>
<1>1. /\ pc \in [Contexts -> PCs] /\ at \in [Contexts -> Buffers]
      /\ s \in Contexts /\ s # Main /\ s # Nobody
  BY ContextsType DEF BufferInv, TypeOK
<1>2. ASSUME NEW c \in Contexts, FlushStep(c) PROVE mutex' = mutex
  BY <1>2, FlushStepMoves
<1>3. CASE \/ LockInstances \/ PushBack \/ Remove
  BY <1>1, <1>3 DEF LockInstances, PushBack, Remove
<1>4. CASE \/ RegisterSignals \/ Insert \/ Close \/ Return
           \/ Construct \/ Leave \/ \E b \in Buffers : Put(b) \/ Flush(b)
  BY <1>4 DEF RegisterSignals, Insert, Close, WriteOut, Return, Construct,
     Leave, Put, Flush
<1>5. ASSUME NEW q \in Signals, Exit(q) PROVE mutex' = mutex
  BY <1>5 DEF Exit
<1>6. ASSUME NEW q \in Signals, NEW t \in Threads, Deliver(q, t)
      PROVE  mutex' = mutex
  BY <1>6 DEF Deliver
<1>7. ASSUME NEW q \in Signals, LockInHandler(q)
      PROVE  LockInHandler(s) /\ mutex = Nobody
  BY <1>7 DEF LockInHandler
<1>8. CASE EndedByCaller \/ UNCHANGED vars
  BY <1>8 DEF EndedByCaller, vars
<1>9. LockInHandler(s) /\ mutex = Nobody
  BY <1>2, <1>3, <1>4, <1>5, <1>6, <1>7, <1>8, ContextsType, FailEnds
     DEF LogStep, Next, MainStep, HandlerStep
<1> QED
  BY <1>1, <1>9 DEF LockInHandler, Goto

LEMMA ContentNext == BufferInv /\ ContentInv /\ LogStep => ContentInv'
<1> SUFFICES ASSUME BufferInv, ContentInv, LogStep, NEW b \in Buffers,
                    b \notin failed'
             PROVE  /\ ~ Active' => InOrder(b)'
                    /\ \A s \in Signals :
                         mutex' = s /\ instances' # <<>> /\ OnMain(s)'
                           => HandledOrInOrder(s, b)'
  BY DEF ContentInv
<1>1. b \notin failed /\ b \in Nat \ {0}
  BY StepEffect DEF Buffers
<1>2. ASSUME Active PROVE Active'
  <2>1. PICK s \in Signals : mutex = s /\ instances # <<>>
    BY <1>2 DEF Active
  <2> QED
    BY <2>1, HolderNext DEF Active
<1>3. ASSUME ~ Active' PROVE InOrder(b)'
  <2>1. ~ Active
    BY <1>2, <1>3
  <2>2. InOrder(b)
    BY <1>1, <2>1 DEF ContentInv
  <2> QED
    BY <2>1, <2>2, IdleInOrder
<1>4. ASSUME NEW s \in Signals, mutex' = s, instances' # <<>>, OnMain(s)'
      PROVE  HandledOrInOrder(s, b)'
  <2>1. CASE mutex = s
    <3>1. instances' = instances /\ OnMain(s)
      BY <1>4, <2>1, HolderNext
    <3>2. HandledOrInOrder(s, b)
      BY <1>1, <1>4, <2>1, <3>1 DEF ContentInv
    <3>3. CASE FlushStep(s)
      BY <3>2, <3>3, HandlerFlushContent
    <3>4. CASE ~ FlushStep(s)
      <4>1. /\ pc'[s] = pc[s] /\ at'[s] = at[s]
            /\ UNCHANGED <<logged, streams, pc[Main], at[Main]>>
        BY <2>1, <3>1, <3>4, HolderNext
      <4>2. Untouched(b)
        BY <4>1 DEF streams, Untouched
      <4>3. Handled(s, b)' <=> Handled(s, b)
        BY <3>1, <4>1 DEF Handled
      <4>4. Twice(s, b) => Twice(s, b)'
        BY <4>1, <4>2 DEF Twice, Untouched
      <4>5. InOrder(b) => InOrder(b)'
        BY <3>1, <4>1, <4>2, FrozenInOrder
      <4> QED
        BY <3>2, <4>3, <4>4, <4>5 DEF HandledOrInOrder
    <3> QED
      BY <3>3, <3>4
  <2>2. CASE mutex # s
    <3>1. /\ mutex = Nobody /\ at'[s] = 1 /\ instances' = instances
          /\ instances # <<>> => pc'[s] = "flush"
          /\ pc'[Main] = pc[Main] /\ at'[Main] = at[Main]
          /\ UNCHANGED <<logged, streams>>
      BY <1>4, <2>2, HolderBegins
    <3>2. InOrder(b)
      BY <1>1, <3>1, ContextsType DEF ContentInv, Active
    <3>3. InOrder(b)'
      BY <3>1, <3>2, FrozenInOrder DEF streams, Untouched
    <3>4. ~ Handled(s, b)'
      BY <1>1, <1>4, <3>1 DEF Handled
    <3> QED
      BY <3>3, <3>4 DEF HandledOrInOrder
  <2> QED
    BY <2>1, <2>2
<1> QED
  BY <1>3, <1>4

LEMMA ContentInit == Init => ContentInv
<1> SUFFICES ASSUME Init, NEW b \in Buffers
             PROVE  InOrder(b) /\ \A s \in Signals : mutex # s
  BY DEF Init, ContentInv
<1>1. /\ logged[b] = 0 /\ buffer[b] = <<>> /\ stream[b] = <<>> /\ file[b] = <<>>
      /\ mutex = Nobody /\ pc[Main] = "ready"
  BY ContextsType DEF Init
<1>2. PICK n \in 0 .. MaxRecords, m \in Nat \ {0} :
        n = 0 /\ m = 1 /\ m = n + 1 /\ m \in 1 .. n + 1
  BY BuffersAssumption
<1>3. Run(m, n) = <<>>
  BY <1>2, RunType
<1>4. ~ Writing(b)
  BY <1>1 DEF Writing
<1>5. <<>> \o <<>> = Run(1, m - 1)
  <2>1. Run(1, n) = <<>>
    BY <1>2, <1>3
  <2>2. <<>> \o <<>> = <<>>
    BY <1>1, EmptySeq, ConcatEmptySeq
  <2> QED
    BY <1>2, <2>1, <2>2
<1>6. InOrder(b)
  BY <1>1, <1>2, <1>3, <1>4, <1>5 DEF InOrder
<1> QED
  BY <1>1, <1>6, ContextsType

LEMMA ContentInvariant == Spec => [](BufferInv /\ ContentInv)
<1>1. Init => BufferInv /\ ContentInv
  BY BufferInit, ContentInit
<1>2. BufferInv /\ ContentInv /\ [Next]_vars => BufferInv' /\ ContentInv'
  BY BufferNext, ContentNext DEF LogStep
<1> QED
  BY <1>1, <1>2, PTL DEF Spec

LEMMA NothingLost == BufferInv /\ ContentInv => HandlerLosesNothing
<1> SUFFICES ASSUME BufferInv, ContentInv, NEW s \in Signals,
                    ended = s, OnMain(s), NEW b \in Buffers \ failed
             PROVE  \E m \in 1 .. logged[b] + 1 :
                      file[b] = RecordsFrom(b, 1) \o RecordsFrom(b, m)
  BY DEF HandlerLosesNothing, OnMain
<1>1. pc[s] = "exit" /\ mutex = s
  BY DEF BufferInv, PlaceInv, EndInv, HandlerInv
<1>2. b \in Buffers /\ b \notin failed
  OBVIOUS
<1>3. stream[b] \in Records /\ file[b] \in Records
  BY <1>2, BufferTypes DEF BufferInv
<1>4. PICK m \in 1 .. logged[b] + 1 :
        /\ file[b] \o stream[b] = Run(1, logged[b]) \o Run(m, logged[b])
        /\ stream[b] = <<>>
  <2>1. CASE b \in DOMAIN instances
    <3>1. instances # <<>>
      BY <2>1
    <3>2. HandledOrInOrder(s, b)
      BY <1>1, <1>2, <3>1 DEF ContentInv
    <3>3. Twice(s, b)
      BY <1>1, <2>1, <3>2 DEF HandledOrInOrder, Handled
    <3> QED
      BY <1>1, <3>3 DEF Twice
  <2>2. CASE b \notin DOMAIN instances
    <3>1. InOrder(b)
      BY <1>1, <1>2, <2>2 DEF ContentInv, Active, HandledOrInOrder, Handled
    <3>2. buffer[b] = <<>>
      BY <2>2, <3>1 DEF InOrder
    <3> QED
      BY <1>2, <3>1, <3>2, CompleteInOrder
  <2> QED
    BY <2>1, <2>2
<1>5. file[b] = Run(1, logged[b]) \o Run(m, logged[b])
  BY <1>3, <1>4, ConcatEmptySeq DEF Records
<1> QED
  BY <1>5 DEF Run, RecordsFrom

LEMMA ReturnWritten == BufferInv /\ ContentInv => ReturnedMeansWritten
<1> SUFFICES ASSUME BufferInv, ContentInv, ended = "returned",
                    NEW b \in Buffers \ failed
             PROVE  file[b] = RecordsFrom(b, 1)
  BY DEF ReturnedMeansWritten
<1>1. b \in Buffers /\ b \notin failed
  OBVIOUS
<1>2. pc[Main] = "return" /\ leaving
  BY DEF BufferInv, PlaceInv, EndInv, MainInv
<1>3. instances = <<>>
  BY <1>2 DEF BufferInv, PlaceInv, MainInv
<1>4. InOrder(b)
  BY <1>1, <1>3 DEF ContentInv, Active
<1>5. buffer[b] = <<>>
  BY <1>3, <1>4 DEF InOrder
<1> QED
  BY <1>1, <1>4, <1>5, CompleteInOrder

(* A handler on the main thread that ends the program has flushed every     *)
(* Buffer there is, and those that are gone were written when they closed.  *)
THEOREM HandlerOnMainLosesNothing == Spec => []HandlerLosesNothing
BY NothingLost, ContentInvariant, PTL

(* A program that has returned has written every log whose disk did not     *)
(* fail in full and once.                                                   *)
THEOREM ReturnWritesEverything == Spec => []ReturnedMeansWritten
BY ReturnWritten, ContentInvariant, PTL

-----------------------------------------------------------------------------
(* Each log implements DurableLog.                                         *)

Durable(b) ==
  INSTANCE DurableLog WITH
    Limit <- MaxRecords, logged <- logged[b], disk <- file[b],
    trouble <- Trouble(b), closed <- ended = "returned"

(* What waits in the stream may be written, again, at any time.             *)
GapInv == \A b \in Buffers : ~ Raced => Gapless(file[b] \o stream[b])

LEMMA ConcatElements ==
  ASSUME NEW S, NEW f \in Seq(S), NEW s \in Seq(S), NEW g, g = f \o s,
         NEW m \in Nat, NEW n \in Nat, NEW l \in Nat,
         m = Len(f), n = Len(s), l = m + n
  PROVE  /\ g \in Seq(S) /\ Len(g) = l
         /\ DOMAIN g = 1 .. l /\ DOMAIN f = 1 .. m /\ DOMAIN s = 1 .. n
         /\ \A i \in 1 .. m : g[i] = f[i]
         /\ \A i \in 1 .. n : g[m + i] = s[i]
<1>2. /\ g \in Seq(S) /\ Len(g) = l
      /\ \A i \in 1 .. l : g[i] = IF i <= m THEN f[i] ELSE s[i - m]
  BY ConcatProperties
<1>3. DOMAIN g = 1 .. l /\ DOMAIN f = 1 .. m /\ DOMAIN s = 1 .. n
  BY <1>2, LenProperties
<1>4. \A i \in 1 .. m : g[i] = f[i]
  BY <1>2
<1>5. ASSUME NEW i \in 1 .. n PROVE g[m + i] = s[i]
  <2>1. PICK k \in 1 .. l : k = m + i /\ ~ (k <= m) /\ k - m = i
    OBVIOUS
  <2> QED
    BY <1>2, <2>1
<1> QED
  BY <1>2, <1>3, <1>4, <1>5

LEMMA FirstElements ==
  ASSUME NEW S, NEW s \in Seq(S), NEW n \in Nat, n <= Len(s),
         NEW p, p = SubSeq(s, 1, n)
  PROVE  p \in Seq(S) /\ Len(p) = n /\ \A i \in 1 .. n : p[i] = s[i]
<1>1. n \in Int /\ 1 \in Int
  OBVIOUS
<1>2. \A i \in 1 .. n : s[i] \in S
  <2>1. Len(s) \in Nat /\ \A i \in 1 .. Len(s) : s[i] \in S
    BY LenProperties, ElementOfSeq
  <2> QED
    BY <2>1
<1>3. /\ p \in Seq(S)
      /\ Len(p) = IF 1 <= n THEN n - 1 + 1 ELSE 0
      /\ \A i \in 1 .. n - 1 + 1 : p[i] = s[1 + i - 1]
  BY <1>1, <1>2, SubSeqProperties
<1> QED
  BY <1>1, <1>3

LEMMA GaplessPrefix ==
  ASSUME NEW S, NEW f \in Seq(S), NEW s \in Seq(S), Gapless(f \o s)
  PROVE  Gapless(f)
<1>1. PICK m \in Nat, n \in Nat : m = Len(f) /\ n = Len(s)
  BY LenProperties
<1>a. PICK l \in Nat : l = m + n
  OBVIOUS
<1>b. PICK g : g = f \o s
  OBVIOUS
<1>2. /\ DOMAIN f = 1 .. m /\ DOMAIN g = 1 .. l
      /\ \A i \in 1 .. m : g[i] = f[i]
  BY <1>1, <1>a, <1>b, ConcatElements
<1> SUFFICES ASSUME NEW i \in 1 .. m, f[i] # 1
             PROVE  \E j \in 1 .. i - 1 : f[j] = f[i] - 1
  BY <1>2 DEF Gapless
<1>3. i \in DOMAIN g /\ g[i] = f[i]
  BY <1>1, <1>2, <1>a
<1>4. PICK j \in 1 .. i - 1 : g[j] = g[i] - 1
  BY <1>b, <1>2, <1>3 DEF Gapless
<1>5. j \in 1 .. m
  BY <1>1
<1> QED
  BY <1>2, <1>3, <1>4, <1>5

(* A part of what waits is written, and then all of it: nothing comes       *)
(* before what it needs.                                                   *)
LEMMA GaplessAgain ==
  ASSUME NEW S, NEW f \in Seq(S), NEW s \in Seq(S), NEW t \in Seq(S),
         Gapless((f \o s) \o t), NEW n \in 0 .. Len(s \o t) - 1
  PROVE  Gapless((f \o SubSeq(s \o t, 1, n)) \o s)
<1>1. PICK a \in Nat, k \in Nat, l \in Nat :
        a = Len(f) /\ k = Len(s) /\ l = Len(t)
  BY LenProperties
<1>2. PICK kl \in Nat : kl = k + l
  OBVIOUS
<1>u. PICK u : u = s \o t
  OBVIOUS
<1>3. /\ u \in Seq(S) /\ Len(u) = kl /\ DOMAIN s = 1 .. k
      /\ \A i \in 1 .. k : u[i] = s[i]
  BY <1>1, <1>2, <1>u, ConcatElements
<1>l. PICK akl \in Nat : akl = a + kl
  OBVIOUS
<1>g. PICK g : g = f \o u
  OBVIOUS
<1>4. /\ DOMAIN g = 1 .. akl /\ DOMAIN f = 1 .. a
      /\ \A i \in 1 .. a : g[i] = f[i]
      /\ \A i \in 1 .. kl : g[a + i] = u[i]
  BY <1>1, <1>3, <1>l, <1>g, ConcatElements
<1>5. Gapless(g)
  <2>1. (f \o s) \o t = f \o (s \o t)
    BY ConcatAssociative
  <2> QED
    BY <1>u, <1>g, <2>1
<1>6. PICK p : p = SubSeq(u, 1, n)
  OBVIOUS
<1>7. /\ p \in Seq(S) /\ Len(p) = n /\ n \in Nat /\ n <= kl
      /\ \A i \in 1 .. n : p[i] = u[i]
  <2>1. n \in Int /\ n \in Nat /\ n <= kl /\ 1 \in Int
    BY <1>3, <1>u
  <2> QED
    BY <1>3, <1>6, <2>1, FirstElements
<1>8. PICK an \in Nat : an = a + n
  BY <1>7
<1>q. PICK q : q = f \o p
  OBVIOUS
<1>9. /\ q \in Seq(S) /\ Len(q) = an
      /\ \A i \in 1 .. a : q[i] = f[i]
      /\ \A i \in 1 .. n : q[a + i] = p[i]
  <2>1. p \in Seq(S) /\ n \in Nat /\ a = Len(f) /\ n = Len(p)
    BY <1>1, <1>7
  <2> QED
    BY <2>1, <1>8, <1>q, ConcatElements
<1>m. PICK ank \in Nat : ank = an + k
  OBVIOUS
<1>h. PICK h : h = q \o s
  OBVIOUS
<1>10. /\ DOMAIN h = 1 .. ank
       /\ \A i \in 1 .. an : h[i] = q[i]
       /\ \A i \in 1 .. k : h[an + i] = s[i]
  <2>1. q \in Seq(S) /\ an = Len(q) /\ k = Len(s)
    BY <1>1, <1>9
  <2> QED
    BY <2>1, <1>m, <1>h, ConcatElements
<1>11. ASSUME NEW i \in 1 .. an PROVE h[i] = g[i]
  <2>1. CASE i \in 1 .. a
    BY <1>4, <1>9, <1>10, <2>1
  <2>2. CASE i \notin 1 .. a
    <3>1. PICK j \in 1 .. n : i = a + j
      <4>1. i - a \in 1 .. n /\ i = a + (i - a)
        BY <1>7, <1>8, <2>2
      <4> QED
        BY <4>1
    <3>2. j \in 1 .. kl
      BY <1>7
    <3> QED
      BY <1>4, <1>7, <1>9, <1>10, <3>1, <3>2
  <2> QED
    BY <2>1, <2>2
<1>12. ASSUME NEW i \in 1 .. an, h[i] # 1
       PROVE  \E j \in 1 .. i - 1 : h[j] = h[i] - 1
  <2>1. i \in DOMAIN g /\ h[i] = g[i]
    BY <1>4, <1>7, <1>8, <1>11, <1>l
  <2>2. PICK j \in 1 .. i - 1 : g[j] = g[i] - 1
    BY <1>5, <1>12, <2>1 DEF Gapless
  <2>3. j \in 1 .. an
    OBVIOUS
  <2> QED
    BY <1>11, <2>1, <2>2, <2>3
<1>13. ASSUME NEW i \in 1 .. k, s[i] # 1
       PROVE  \E j \in 1 .. an + i - 1 : h[j] = s[i] - 1
  <2>1. PICK e \in DOMAIN g : e = a + i /\ g[e] = s[i]
    <3>1. i \in 1 .. kl /\ a + i \in DOMAIN g
      BY <1>2, <1>4, <1>l
    <3> QED
      BY <1>3, <1>4, <3>1
  <2>2. PICK j \in 1 .. e - 1 : g[j] = s[i] - 1
    BY <1>5, <1>13, <2>1 DEF Gapless
  <2>3. CASE j \in 1 .. a
    <3>1. j \in 1 .. an /\ j \in 1 .. an + i - 1
      BY <1>7, <1>8, <2>3
    <3> QED
      BY <1>11, <2>2, <3>1
  <2>4. CASE j \notin 1 .. a
    <3>1. PICK d \in 1 .. i - 1 : j = a + d
      <4>1. j - a \in 1 .. i - 1 /\ j = a + (j - a)
        BY <2>1, <2>4
      <4> QED
        BY <4>1
    <3>2. d \in 1 .. k /\ d \in 1 .. kl
      BY <1>2
    <3>3. g[j] = s[d]
      BY <1>3, <1>4, <3>1, <3>2
    <3>4. h[an + d] = s[d]
      BY <1>10, <3>2
    <3>5. an + d \in 1 .. an + i - 1
      BY <3>1
    <3> QED
      BY <2>2, <3>3, <3>4, <3>5
  <2> QED
    BY <2>3, <2>4
<1>14. Gapless(h)
  <2> SUFFICES ASSUME NEW i \in 1 .. ank, h[i] # 1
               PROVE  \E j \in 1 .. i - 1 : h[j] = h[i] - 1
    BY <1>10 DEF Gapless
  <2>1. CASE i \in 1 .. an
    BY <1>12, <2>1
  <2>2. CASE i \notin 1 .. an
    <3>1. PICK d \in 1 .. k : i = an + d
      <4>1. i - an \in 1 .. k /\ i = an + (i - an)
        BY <1>m, <2>2
      <4> QED
        BY <4>1
    <3>2. h[i] = s[d]
      BY <1>10, <3>1
    <3>3. PICK j \in 1 .. an + d - 1 : h[j] = s[d] - 1
      BY <1>13, <2>2, <3>2
    <3> QED
      BY <3>1, <3>2, <3>3
  <2> QED
    BY <2>1, <2>2
<1> QED
  BY <1>u, <1>6, <1>q, <1>h, <1>14
(* The first records of a log, and then those from an earlier one on.       *)
LEMMA RunsGapless ==
  ASSUME NEW l \in 0 .. MaxRecords, NEW k \in 0 .. l, NEW m \in 1 .. k + 1
  PROVE  Gapless(Run(1, k) \o Run(m, l))
<1>1. MaxRecords \in Nat /\ k \in 0 .. MaxRecords /\ m \in Nat \ {0} /\ m <= l + 1
      /\ k \in Nat
  BY BuffersAssumption
<1>2. PICK f : f = Run(1, k)
  OBVIOUS
<1>3. f \in Records /\ Len(f) = k /\ \A i \in 1 .. k : f[i] = i
  BY <1>1, <1>2, RunFromFirst
<1>4. PICK s : s = Run(m, l)
  OBVIOUS
<1>5. PICK n \in Nat : n = l - m + 1
  BY <1>1
<1>6. s \in Records /\ Len(s) = n /\ \A i \in 1 .. n : s[i] = m + i - 1
  BY <1>1, <1>4, <1>5, RunType
<1>g. PICK g : g = f \o s
  OBVIOUS
<1>7. PICK kn \in Nat : kn = k + n
  BY <1>1
<1>8. /\ DOMAIN g = 1 .. kn /\ \A i \in 1 .. k : g[i] = f[i]
      /\ \A i \in 1 .. n : g[k + i] = s[i]
  <2>1. /\ f \in Seq(1 .. MaxRecords) /\ s \in Seq(1 .. MaxRecords)
        /\ k \in Nat /\ k = Len(f) /\ n = Len(s)
    BY <1>1, <1>3, <1>6 DEF Records
  <2> QED
    BY <2>1, <1>7, <1>g, ConcatElements
<1> SUFFICES ASSUME NEW i \in 1 .. kn, g[i] # 1
             PROVE  \E j \in 1 .. i - 1 : g[j] = g[i] - 1
  BY <1>2, <1>4, <1>8, <1>g DEF Gapless
<1>9. CASE i \in 1 .. k
  <2>1. g[i] = i /\ i # 1
    BY <1>3, <1>8, <1>9
  <2>2. i - 1 \in 1 .. k /\ i - 1 \in 1 .. i - 1
    BY <1>9, <2>1
  <2>3. g[i - 1] = i - 1
    BY <1>3, <1>8, <2>2
  <2> QED
    BY <2>1, <2>2, <2>3
<1>10. CASE i \notin 1 .. k
  <2>1. PICK d \in 1 .. n : i = k + d
    <3>1. i - k \in 1 .. n /\ i = k + (i - k)
      BY <1>1, <1>7, <1>10
    <3> QED
      BY <3>1
  <2>2. g[i] = m + d - 1
    BY <1>6, <1>8, <2>1
  <2>3. CASE d = 1
    <3>1. g[i] = m /\ m # 1 /\ m \in Nat
      BY <1>1, <2>2, <2>3
    <3>2. m - 1 \in 1 .. k /\ m - 1 \in 1 .. i - 1
      BY <1>1, <2>1, <2>3, <3>1
    <3>3. g[m - 1] = m - 1
      BY <1>3, <1>8, <3>2
    <3> QED
      BY <3>1, <3>2, <3>3
  <2>4. CASE d # 1
    <3>1. PICK e \in 1 .. n : e = d - 1
      <4>1. d - 1 \in 1 .. n
        BY <2>4
      <4> QED
        BY <4>1
    <3>2. g[k + e] = m + e - 1
      BY <1>6, <1>8
    <3>3. k + e \in 1 .. i - 1 /\ g[k + e] = g[i] - 1
      BY <1>1, <2>1, <2>2, <3>1, <3>2
    <3> QED
      BY <3>3
  <2> QED
    BY <2>3, <2>4
<1> QED
  BY <1>9, <1>10

LEMMA BeganSomewhere ==
  ASSUME BufferInv, NEW s \in Signals, pc[s] # "none", ~ Raced
  PROVE  OnMain(s) /\ Begun(Main)
<1>1. PICK t \in Threads : \E i \in DOMAIN stack[t] : stack[t][i] = s
  BY DEF BufferInv, PlaceInv, StackInv
<1>2. t = Main
  BY <1>1 DEF Raced, Begun, Threads
<1> QED
  BY <1>1, <1>2 DEF OnMain, Begun

(* Unless a handler has begun on another thread, what a Buffer writes comes *)
(* after a file in order.                                                  *)
LEMMA WriterInOrder ==
  ASSUME BufferInv, ContentInv, ~ Raced, NEW c \in Contexts, FlushWrite(c),
         NEW b \in Buffers, b = at[c], b \notin failed
  PROVE  InOrder(b)
<1>1. Runs(c) /\ pc[c] = "flush"
  BY DEF FlushWrite
<1>2. CASE c = Main
  <2>1. ASSUME Active PROVE FALSE
    <3>1. PICK s \in Signals : mutex = s
      BY <2>1 DEF Active
    <3>2. pc[s] # "none"
      BY <3>1 DEF BufferInv, PlaceInv, HandlerInv
    <3>3. OnMain(s) /\ s # Main
      BY <3>2, BeganSomewhere, ContextsType
    <3>4. Len(stack[Main]) = 1 /\ stack[Main] \in Seq(Contexts)
      BY <1>1, <1>2, MainRuns, ContextsType DEF BufferInv, TypeOK
    <3>5. stack[Main][1] = Main /\ DOMAIN stack[Main] = 1 .. 1
      BY <3>4, ContextsType DEF BufferInv, PlaceInv, StackInv
    <3> QED
      BY <3>3, <3>5 DEF OnMain
  <2> QED
    BY <2>1 DEF ContentInv
<1>3. CASE c # Main
  <2>1. c \in Signals
    BY <1>3 DEF Contexts
  <2>2. mutex = c /\ at[c] \in DOMAIN instances /\ pc[c] # "none"
    BY <1>1, <2>1 DEF BufferInv, PlaceInv, HandlerInv
  <2>3. instances # <<>> /\ OnMain(c)
    BY <2>1, <2>2, BeganSomewhere
  <2>4. HandledOrInOrder(c, b)
    BY <2>1, <2>2, <2>3 DEF ContentInv
  <2>5. ~ Handled(c, b)
    <3>1. b \in Nat
      BY DEF Buffers
    <3> QED
      BY <1>1, <3>1 DEF Handled
  <2> QED
    BY <2>4, <2>5 DEF HandledOrInOrder
<1> QED
  BY <1>2, <1>3

LEMMA WriterGapless ==
  ASSUME BufferInv, NEW b \in Buffers, InOrder(b)
  PROVE  Gapless((file[b] \o stream[b]) \o buffer[b])
<1>1. PICK m \in 1 .. logged[b] + 1 :
        /\ buffer[b] = Run(m, logged[b])
        /\ file[b] \o stream[b] = Run(1, IF Writing(b) THEN logged[b] ELSE m - 1)
        /\ Writing(b) => m <= logged[b]
  BY DEF InOrder
<1>2. PICK l \in 0 .. MaxRecords : l = logged[b] /\ MaxRecords \in Nat
  BY BufferTypes DEF BufferInv
<1>3. PICK k \in 0 .. l :
        m \in 1 .. k + 1 /\ k = IF Writing(b) THEN l ELSE m - 1
  <2>1. CASE Writing(b)
    <3>1. l \in 0 .. l /\ m \in 1 .. l + 1
      BY <1>1, <1>2
    <3> QED
      BY <2>1, <3>1
  <2>2. CASE ~ Writing(b)
    <3>1. m - 1 \in 0 .. l /\ m \in 1 .. m - 1 + 1
      BY <1>1, <1>2
    <3> QED
      BY <2>2, <3>1
  <2> QED
    BY <2>1, <2>2
<1>4. m \in 1 .. k + 1
  BY <1>3
<1>5. Gapless(Run(1, k) \o Run(m, l))
  BY <1>4, RunsGapless
<1> QED
  BY <1>1, <1>2, <1>3, <1>5

LEMMA BegunStays ==
  ASSUME BufferInv, LogStep, NEW t \in Threads, Begun(t)
  PROVE  Begun(t)'
<1>1. CASE stack' = stack
  BY <1>1 DEF Begun
<1>2. ASSUME NEW s \in Signals, NEW u \in Threads, Deliver(s, u)
      PROVE  Begun(t)'
  <2>1. /\ stack \in [Threads -> Seq(Contexts)] /\ s \in Contexts
        /\ stack' = [stack EXCEPT ![u] = Append(@, s)]
    BY <1>2, ContextsType DEF BufferInv, TypeOK, Deliver
  <2>2. CASE u = t
    <3>1. /\ stack'[t] = Append(stack[t], s) /\ stack[t] \in Seq(Contexts)
      BY <2>1, <2>2
    <3>2. \A i \in DOMAIN stack[t] :
            i \in DOMAIN stack'[t] /\ stack'[t][i] = stack[t][i]
      BY <2>1, <3>1
    <3> QED
      BY <3>2 DEF Begun
  <2>3. CASE u # t
    BY <2>1, <2>3 DEF Begun
  <2> QED
    BY <2>2, <2>3
<1> QED
  BY <1>1, <1>2, StepBegins

LEMMA RaceStays == BufferInv /\ LogStep /\ Raced => Raced'
BY BegunStays DEF Raced, Threads

LEMMA GapNext == BufferInv /\ ContentInv /\ GapInv /\ LogStep => GapInv'
<1> SUFFICES ASSUME BufferInv, ContentInv, GapInv, LogStep, NEW b \in Buffers,
                    ~ Raced'
             PROVE  Gapless(file'[b] \o stream'[b])
  BY DEF GapInv, Gapless
<1>1. ~ Raced /\ Gapless(file[b] \o stream[b])
  BY RaceStays DEF GapInv
<1>2. /\ buffer[b] \in Records /\ stream[b] \in Records /\ file[b] \in Records
      /\ <<>> \in Records
  BY BufferTypes DEF BufferInv
<1>3. CASE file'[b] = file[b] /\ stream'[b] = stream[b]
  BY <1>1, <1>3
<1>4. CASE file'[b] = file[b] \o stream[b] /\ stream'[b] = <<>>
  BY <1>1, <1>2, <1>4, AddBuffer
<1>5. ASSUME NEW c \in Contexts, HandedOver(c, b)
      PROVE  Gapless(file'[b] \o stream'[b])
  <2>1. InOrder(b)
    BY <1>1, <1>5, WriterInOrder DEF HandedOver
  <2>2. Gapless((file[b] \o stream[b]) \o buffer[b])
    BY <2>1, WriterGapless
  <2>3. file'[b] \o stream'[b] = (file[b] \o stream[b]) \o buffer[b]
    <3>1. file[b] \o (stream[b] \o buffer[b]) = (file[b] \o stream[b]) \o buffer[b]
      BY <1>2, AddBuffer
    <3> QED
      BY <1>5, <3>1 DEF HandedOver
  <2> QED
    BY <2>2, <2>3
<1>6. CASE WroteInPart(b)
  <2>1. PICK t \in {<<>>, buffer[b]} :
          /\ t = <<>> \/ (b \notin failed
                            /\ \E c \in Contexts : FlushWrite(c) /\ b = at[c])
          /\ \E n \in 0 .. Len(stream[b] \o t) - 1 :
               file'[b] = file[b] \o SubSeq(stream[b] \o t, 1, n)
    <3>1. stream[b] \o <<>> = stream[b]
      BY <1>2, ConcatEmptySeq DEF Records
    <3>2. PICK records \in {stream[b], stream[b] \o buffer[b]} :
            /\ \/ records = stream[b]
               \/ b \notin failed /\ \E c \in Contexts : FlushWrite(c) /\ b = at[c]
            /\ \E n \in 0 .. Len(records) - 1 :
                 file'[b] = file[b] \o SubSeq(records, 1, n)
      BY <1>6 DEF WroteInPart
    <3>3. CASE records = stream[b]
      BY <3>1, <3>2, <3>3
    <3>4. CASE records # stream[b]
      BY <3>2, <3>4
    <3> QED
      BY <3>3, <3>4
  <2>2. t \in Records
    BY <1>2, <2>1
  <2>3. Gapless((file[b] \o stream[b]) \o t)
    <3>1. CASE t = <<>>
      BY <1>1, <1>2, <3>1, AddBuffer
    <3>2. CASE t # <<>>
      <4>1. InOrder(b)
        BY <1>1, <2>1, <3>2, WriterInOrder
      <4> QED
        BY <2>1, <3>2, <4>1, WriterGapless
    <3> QED
      BY <3>1, <3>2
  <2>4. PICK n \in 0 .. Len(stream[b] \o t) - 1 :
          file'[b] = file[b] \o SubSeq(stream[b] \o t, 1, n)
    BY <2>1
  <2>5. Gapless((file[b] \o SubSeq(stream[b] \o t, 1, n)) \o stream[b])
    <3>1. PICK f \in Seq(1 .. MaxRecords), s \in Seq(1 .. MaxRecords),
               u \in Seq(1 .. MaxRecords) :
            f = file[b] /\ s = stream[b] /\ u = t
      BY <1>2, <2>2 DEF Records
    <3>2. Gapless((f \o s) \o u) /\ n \in 0 .. Len(s \o u) - 1
      BY <2>3, <3>1
    <3>3. Gapless((f \o SubSeq(s \o u, 1, n)) \o s)
      BY <3>2, GaplessAgain
    <3> QED
      BY <3>1, <3>3
  <2>6. stream'[b] = stream[b]
    BY <1>6 DEF WroteInPart
  <2> QED
    BY <2>4, <2>5, <2>6
<1> QED
  BY <1>3, <1>4, <1>5, <1>6, StepEffect
     DEF Untouched, Inserted, WrittenOut, Cleared

LEMMA GapInit == Init => GapInv
<1> SUFFICES ASSUME Init, NEW b \in Buffers PROVE Gapless(file[b] \o stream[b])
  BY DEF GapInv
<1>1. file[b] \o stream[b] = <<>>
  BY ConcatEmptySeq, EmptySeq DEF Init
<1> QED
  BY <1>1 DEF Gapless

DurableInv == BufferInv /\ CountInv /\ ContentInv /\ GapInv

LEMMA DurableNext == DurableInv /\ LogStep => DurableInv'
BY BufferNext, CountNext, ContentNext, GapNext DEF DurableInv

LEMMA DurableInvariant == Spec => []DurableInv
<1>1. Init => DurableInv
  BY BufferInit, CountInit, ContentInit, GapInit DEF DurableInv
<1>2. DurableInv /\ [Next]_vars => DurableInv'
  BY DurableNext DEF LogStep
<1> QED
  BY <1>1, <1>2, PTL DEF Spec

LEMMA NothingSkipped == DurableInv => NoGaps
<1> SUFFICES ASSUME DurableInv, ~ Raced, NEW b \in Buffers
             PROVE  Gapless(file[b])
  BY DEF NoGaps
<1>1. file[b] \in Records /\ stream[b] \in Records
  BY BufferTypes DEF DurableInv, BufferInv
<1>2. Gapless(file[b] \o stream[b])
  BY DEF DurableInv, GapInv
<1> QED
  BY <1>1, <1>2, GaplessPrefix DEF Records

LEMMA TroubleGrows ==
  ASSUME BufferInv, LogStep, NEW b \in Buffers
  PROVE  /\ Trouble(b) \in {"none", "fault", "race"}
         /\ Trouble(b)' \in {"none", "fault", "race"}
         /\ Trouble(b) = "race" => Trouble(b)' = "race"
         /\ Trouble(b) = "fault" => Trouble(b)' # "none"
         /\ b \in failed' => Trouble(b)' # "none"
         /\ Trouble(b) = "race" <=> Raced
         /\ Trouble(b)' = "race" <=> Raced'
<1>1. failed \subseteq failed'
  BY StepEffect
<1>2. Raced => Raced'
  BY RaceStays
<1>3. Begun(Main) => Begun(Main)'
  BY BegunStays, ContextsType
<1> QED
  BY <1>1, <1>2, <1>3 DEF Trouble, Raced

(* The program returns at most once, and does nothing afterwards.           *)
LEMMA ReturnsOnce ==
  ASSUME BufferInv, LogStep
  PROVE  \/ UNCHANGED vars
         \/ ended = "no" /\ (Return \/ ended' # "returned")
<1>1. CASE \/ LockInstances \/ PushBack \/ RegisterSignals \/ Insert \/ Close
           \/ Remove \/ Construct \/ Leave \/ EndedByCaller
  BY <1>1 DEF LockInstances, PushBack, RegisterSignals, Insert, Close,
     WriteOut, Remove, Construct, Leave, Ready, Runs, EndedByCaller
<1>2. ASSUME NEW b \in Buffers, Put(b) \/ Flush(b)
      PROVE  ended = "no" /\ ended' # "returned"
  BY <1>2 DEF Put, Flush, Ready, Runs
<1>3. ASSUME NEW c \in Contexts, FlushStep(c)
      PROVE  ended = "no" /\ ended' # "returned"
  BY <1>3, FlushStepMoves
<1>4. ASSUME NEW s \in Signals, LockInHandler(s) \/ Exit(s)
      PROVE  ended = "no" /\ ended' # "returned"
  BY <1>4, ContextsType DEF LockInHandler, Exit, Runs, Outcomes
<1>5. ASSUME NEW s \in Signals, NEW t \in Threads, Deliver(s, t)
      PROVE  ended = "no" /\ ended' # "returned"
  BY <1>5 DEF Deliver
<1>6. CASE Return
  BY <1>6 DEF Return, Runs
<1> QED
  BY <1>1, <1>2, <1>3, <1>4, <1>5, <1>6, ContextsType, FailEnds
     DEF LogStep, Next, MainStep, HandlerStep

(* What has been left alone is in order when it is written, and when the    *)
(* program returns.                                                        *)
LEMMA UntroubledInOrder ==
  ASSUME BufferInv, ContentInv, NEW b \in Buffers, Trouble(b) = "none"
  PROVE  InOrder(b)
<1>1. ~ Raced /\ ~ Begun(Main) /\ b \notin failed
  BY DEF Trouble, Raced
<1>2. ASSUME NEW s \in Signals, mutex = s PROVE FALSE
  <2>1. pc[s] # "none"
    BY <1>2 DEF BufferInv, PlaceInv, HandlerInv
  <2> QED
    BY <1>1, <2>1, BeganSomewhere
<1> QED
  BY <1>1, <1>2 DEF ContentInv, Active

(* The records in a file in order, and those that follow.                   *)
LEMMA WrittenNext ==
  ASSUME BufferInv, NEW b \in Buffers, InOrder(b), stream[b] # <<>>
  PROVE  \E n \in 1 .. logged[b] - Len(file[b]) :
           stream[b] = [i \in 1 .. n |-> Len(file[b]) + i]
<1>1. /\ logged[b] \in 0 .. MaxRecords /\ logged[b] \in Nat /\ MaxRecords \in Nat
      /\ stream[b] \in Records /\ file[b] \in Records
  BY BufferTypes DEF BufferInv
<1>2. PICK k \in 0 .. logged[b] : file[b] \o stream[b] = Run(1, k)
  <2>1. PICK m \in 1 .. logged[b] + 1 :
          file[b] \o stream[b] = Run(1, IF Writing(b) THEN logged[b] ELSE m - 1)
    BY DEF InOrder
  <2>2. m - 1 \in 0 .. logged[b] /\ logged[b] \in 0 .. logged[b]
    BY <1>1
  <2> QED
    BY <2>1, <2>2
<1>3. PICK m \in Nat, n \in Nat, l \in Nat :
        m = Len(file[b]) /\ n = Len(stream[b]) /\ l = m + n
  <2>1. Len(file[b]) \in Nat /\ Len(stream[b]) \in Nat
    BY <1>1, LenProperties DEF Records
  <2> QED
    BY <2>1
<1>4. PICK f, s : f = file[b] /\ s = stream[b]
  OBVIOUS
<1>g. PICK g : g = f \o s
  OBVIOUS
<1>5. /\ Len(g) = l /\ DOMAIN s = 1 .. n
      /\ \A i \in 1 .. n : g[m + i] = s[i]
  <2>1. f \in Seq(1 .. MaxRecords) /\ s \in Seq(1 .. MaxRecords)
        /\ m = Len(f) /\ n = Len(s) /\ l = m + n
    BY <1>1, <1>3, <1>4 DEF Records
  <2> QED
    BY <1>g, <2>1, ConcatElements
<1>6. k = l /\ \A i \in 1 .. k : g[i] = i
  <2>1. k \in 0 .. MaxRecords
    BY <1>1
  <2>2. Len(Run(1, k)) = k /\ \A i \in 1 .. k : Run(1, k)[i] = i
    BY <2>1, RunFromFirst
  <2>3. g = Run(1, k) /\ Len(g) = l
    BY <1>2, <1>4, <1>5, <1>g
  <2> QED
    BY <2>2, <2>3
<1>7. n # 0
  BY <1>1, <1>3, EmptySeq DEF Records
<1>8. n \in 1 .. logged[b] - m
  <2>1. k = m + n
    BY <1>3, <1>6
  <2>2. PICK total \in Nat : total = logged[b]
    BY <1>1
  <2>3. k <= total
    BY <2>2
  <2> QED
    BY <1>7, <2>1, <2>2, <2>3
<1>9. ASSUME NEW i \in 1 .. n PROVE s[i] = m + i
  <2>1. m + i \in 1 .. m + n /\ k = m + n
    <3>1. k = m + n
      BY <1>3, <1>6
    <3> QED
      BY <3>1
  <2> QED
    BY <1>5, <1>6, <2>1
<1>10. s = [i \in 1 .. n |-> m + i]
  <2>1. s \in Seq(1 .. MaxRecords)
    BY <1>1, <1>4 DEF Records
  <2>2. s = [i \in DOMAIN s |-> s[i]]
    BY <2>1
  <2>3. DOMAIN s = 1 .. n
    BY <1>5
  <2> QED
    BY <1>9, <2>2, <2>3
<1> QED
  BY <1>3, <1>4, <1>8, <1>10

LEMMA PrefixStays ==
  ASSUME NEW S, NEW f \in Seq(S), NEW p \in Seq(S), NEW g, g = f \o p
  PROVE  Len(f) <= Len(g) /\ SubSeq(g, 1, Len(f)) = f
<1>1. PICK m \in Nat, n \in Nat, l \in Nat :
        m = Len(f) /\ n = Len(p) /\ l = m + n
  <2>1. Len(f) \in Nat /\ Len(p) \in Nat
    BY LenProperties
  <2> QED
    BY <2>1
<1>2. /\ g \in Seq(S) /\ Len(g) = l
      /\ \A i \in 1 .. m : g[i] = f[i]
  BY <1>1, ConcatElements
<1>3. PICK h : h = SubSeq(g, 1, m)
  OBVIOUS
<1>4. h \in Seq(S) /\ Len(h) = m /\ \A i \in 1 .. m : h[i] = g[i]
  <2>1. g \in Seq(S) /\ m <= Len(g)
    BY <1>1, <1>2
  <2> QED
    BY <1>3, <2>1, FirstElements
<1>5. h = f
  <2>1. Len(h) = Len(f) /\ \A i \in 1 .. Len(h) : h[i] = f[i]
    BY <1>1, <1>2, <1>4
  <2> QED
    BY <1>4, <2>1, SeqEqual
<1> QED
  BY <1>1, <1>2, <1>3, <1>5

LEMMA GaplessSame == \A d, b : Durable(b)!Gapless(d) <=> Gapless(d)
BY DEF Durable!Gapless, Gapless

(* Steps that leave the log and its file alone.                             *)
LEMMA DurableIdle ==
  ASSUME DurableInv, LogStep, NEW b \in Buffers,
         logged'[b] = logged[b], file'[b] = file[b], ended # "returned",
         ended' # "returned"
  PROVE  [Durable(b)!Next]_(Durable(b)!vars)
<1>1. CASE Trouble(b)' = Trouble(b)
  BY <1>1 DEF Durable!vars
<1>2. CASE Trouble(b)' # Trouble(b)
  <2>1. PICK t \in {"fault", "race"} : Trouble(b)' = t /\ Trouble(b) # "race"
    BY <1>2, TroubleGrows DEF DurableInv
  <2>2. Durable(b)!Meet(t)
    BY <2>1 DEF Durable!Meet
  <2> QED
    BY <2>2 DEF Durable!Next
<1> QED
  BY <1>1, <1>2

LEMMA DurableLogged ==
  ASSUME DurableInv, LogStep, NEW b \in Buffers, Inserted(b)
  PROVE  Durable(b)!Next
<1>1. /\ logged[b] < MaxRecords /\ logged'[b] = logged[b] + 1
      /\ file'[b] = file[b] /\ UNCHANGED <<stack, failed>> /\ ended = "no"
      /\ ended' = ended
  BY DEF Inserted, Insert, Runs, DurableInv, BufferInv, PlaceInv, MainInv
<1>2. Trouble(b)' = Trouble(b)
  BY <1>1 DEF Trouble, Raced, Begun
<1>3. Durable(b)!Log
  BY <1>1, <1>2 DEF Durable!Log
<1> QED
  BY <1>3 DEF Durable!Next

(* Records that come in trouble.                                            *)
LEMMA DurableTrouble ==
  ASSUME DurableInv, LogStep, NEW b \in Buffers, logged'[b] = logged[b],
         NEW p \in Records, file'[b] = file[b] \o p, Trouble(b)' # "none",
         ended # "returned", ended' # "returned"
  PROVE  Durable(b)!Next
<1>1. DurableInv'
  BY DurableNext
<1>2. /\ file[b] \in Seq(1 .. MaxRecords) /\ p \in Seq(1 .. MaxRecords)
      /\ file'[b] \in Records /\ stream'[b] \in Records
  BY <1>1 DEF DurableInv, BufferInv, TypeOK, Records
<1>3. PICK g : g = file'[b]
  OBVIOUS
<1>4. Len(file[b]) <= Len(g) /\ SubSeq(g, 1, Len(file[b])) = file[b]
  <2>1. PICK f \in Seq(1 .. MaxRecords) : f = file[b]
    BY <1>2
  <2>2. g = f \o p
    BY <1>3, <2>1
  <2> QED
    BY <1>2, <2>1, <2>2, PrefixStays
<1>5. \A i \in DOMAIN file'[b] : file'[b][i] \in 1 .. logged[b]
  <2>1. file'[b] \in Seq(1 .. logged[b])
    BY <1>1 DEF DurableInv, CountInv, LogCounted
  <2>2. PICK l : l = logged[b]
    OBVIOUS
  <2>3. PICK d \in Seq(1 .. l) : d = file'[b]
    BY <2>1, <2>2
  <2>4. \A i \in DOMAIN d : d[i] \in 1 .. l
    BY <2>3, ElementOfSeq, LenProperties
  <2> QED
    BY <2>2, <2>3, <2>4
<1>6. ASSUME Trouble(b)' = "fault" PROVE Gapless(file'[b])
  <2>1. ~ Raced'
    BY <1>6, TroubleGrows DEF DurableInv
  <2>2. Gapless(file'[b] \o stream'[b])
    BY <1>1, <2>1 DEF DurableInv, GapInv, Gapless
  <2>3. PICK f \in Seq(1 .. MaxRecords), s \in Seq(1 .. MaxRecords) :
          f = file'[b] /\ s = stream'[b]
    BY <1>2 DEF Records
  <2> QED
    BY <2>2, <2>3, GaplessPrefix
<1>7. /\ Trouble(b)' \in {"fault", "race"}
      /\ Trouble(b) = "race" => Trouble(b)' = "race"
  BY TroubleGrows DEF DurableInv
<1>8. Durable(b)!Grows
  BY <1>3, <1>4 DEF Durable!Grows
<1>9. Durable(b)!WriteInTrouble
  BY <1>5, <1>6, <1>7, <1>8, GaplessSame DEF Durable!WriteInTrouble, Durable!Gapless, Gapless
<1> QED
  BY <1>9 DEF Durable!Next

(* The stream is written out.                                               *)
LEMMA DurableWritten ==
  ASSUME DurableInv, LogStep, NEW b \in Buffers,
         NEW c \in Contexts, WrittenOut(c, b), b \in failed' => b \in failed,
         ended # "returned", ended' # "returned"
  PROVE  [Durable(b)!Next]_(Durable(b)!vars)
<1>1. /\ logged'[b] = logged[b] /\ file'[b] = file[b] \o stream[b]
      /\ stream[b] \in Records /\ file[b] \in Records
  BY BufferTypes DEF WrittenOut, DurableInv, BufferInv
<1>2. CASE stream[b] = <<>>
  <2>1. file'[b] = file[b]
    BY <1>1, <1>2, ConcatEmptySeq DEF Records
  <2> QED
    BY <1>1, <2>1, DurableIdle
<1>3. CASE Trouble(b)' # "none"
  BY <1>1, <1>3, DurableTrouble
<1>4. CASE Trouble(b)' = "none" /\ stream[b] # <<>>
  <2>1. Trouble(b) = "none"
    BY <1>4, TroubleGrows DEF DurableInv
  <2>2. InOrder(b)
    BY <2>1, UntroubledInOrder DEF DurableInv
  <2>3. PICK n \in 1 .. logged[b] - Len(file[b]) :
          stream[b] = [i \in 1 .. n |-> Len(file[b]) + i]
    BY <1>4, <2>2, WrittenNext DEF DurableInv
  <2>4. Durable(b)!Write
    BY <1>1, <1>4, <2>1, <2>3 DEF Durable!Write
  <2> QED
    BY <2>4 DEF Durable!Next
<1> QED
  BY <1>2, <1>3, <1>4

LEMMA DurableInPart ==
  ASSUME DurableInv, LogStep, NEW b \in Buffers, WroteInPart(b),
         ended # "returned", ended' # "returned"
  PROVE  Durable(b)!Next
<1>1. b \in failed' /\ logged'[b] = logged[b]
  BY DEF WroteInPart
<1>2. PICK records \in {stream[b], stream[b] \o buffer[b]} :
        \E n \in 0 .. Len(records) - 1 :
          file'[b] = file[b] \o SubSeq(records, 1, n)
  BY DEF WroteInPart
<1>3. records \in Seq(1 .. MaxRecords)
  <2>1. buffer[b] \in Records /\ stream[b] \in Records
    BY BufferTypes DEF DurableInv, BufferInv
  <2> QED
    BY <1>2, <2>1, ConcatProperties DEF Records
<1>4. PICK n \in 0 .. Len(records) - 1 :
        file'[b] = file[b] \o SubSeq(records, 1, n)
  BY <1>2
<1>5. PICK p \in Seq(1 .. MaxRecords) : p = SubSeq(records, 1, n)
  <2>1. n \in Nat /\ n <= Len(records)
    BY <1>3, LenProperties
  <2> QED
    BY <1>3, <2>1, FirstElements
<1>6. Trouble(b)' # "none"
  BY <1>1, TroubleGrows DEF DurableInv
<1>7. p \in Records /\ file'[b] = file[b] \o p
  BY <1>4, <1>5 DEF Records
<1> QED
  BY <1>1, <1>6, <1>7, DurableTrouble

LEMMA DurableReturned ==
  ASSUME DurableInv, LogStep, NEW b \in Buffers, Return
  PROVE  Durable(b)!Next
<1>1. /\ UNCHANGED <<logged, file, stack, failed>> /\ pc[Main] = "return"
      /\ ended = "no" /\ ended' = "returned"
  BY DEF Return, Runs, streams
<1>2. Trouble(b)' = Trouble(b)
  BY <1>1 DEF Trouble, Raced, Begun
<1>3. ASSUME Trouble(b) = "none" PROVE Len(file[b]) = logged[b]
  <2>1. InOrder(b)
    BY <1>3, UntroubledInOrder DEF DurableInv
  <2>2. leaving /\ instances = <<>>
    BY <1>1 DEF DurableInv, BufferInv, PlaceInv, MainInv
  <2>3. buffer[b] = <<>>
    BY <2>1, <2>2 DEF InOrder
  <2>4. file[b] = RecordsFrom(b, 1)
    BY <2>1, <2>3, CompleteInOrder DEF DurableInv
  <2>5. PICK n \in 0 .. MaxRecords : n = logged[b]
    BY BufferTypes DEF DurableInv, BufferInv
  <2>6. file[b] = Run(1, n)
    BY <2>4, <2>5 DEF RecordsFrom, Run
  <2> QED
    BY <2>5, <2>6, RunFromFirst
<1>4. Durable(b)!Close
  BY <1>1, <1>2, <1>3 DEF Durable!Close
<1> QED
  BY <1>4 DEF Durable!Next

LEMMA DurableStep ==
  ASSUME DurableInv, LogStep, NEW b \in Buffers
  PROVE  [Durable(b)!Next]_(Durable(b)!vars)
<1>1. CASE UNCHANGED vars
  <2>1. UNCHANGED <<logged, file, stack, failed, ended>>
    BY <1>1 DEF vars, streams
  <2>2. Trouble(b)' = Trouble(b)
    BY <2>1 DEF Trouble, Raced, Begun
  <2> QED
    BY <2>1, <2>2 DEF Durable!vars
<1>2. CASE Return
  BY <1>2, DurableReturned
<1>3. CASE ended = "no" /\ ended' # "returned"
  <2>1. BufferInv /\ ended # "returned"
    BY <1>3 DEF DurableInv
  <2>2. CASE WroteInPart(b)
    BY <1>3, <2>1, <2>2, DurableInPart
  <2>3. CASE Inserted(b)
    BY <2>3, DurableLogged
  <2>4. CASE Untouched(b)
    BY <1>3, <2>1, <2>4, DurableIdle DEF Untouched
  <2>5. ASSUME NEW c \in Contexts, HandedOver(c, b) \/ Cleared(c, b)
        PROVE  [Durable(b)!Next]_(Durable(b)!vars)
    BY <1>3, <2>1, <2>5, DurableIdle DEF HandedOver, Cleared
  <2>6. ASSUME NEW c \in Contexts, WrittenOut(c, b), b \in failed' => b \in failed
        PROVE  [Durable(b)!Next]_(Durable(b)!vars)
    BY <1>3, <2>1, <2>6, DurableWritten
  <2> QED
    BY <2>1, <2>2, <2>3, <2>4, <2>5, <2>6, StepEffect
<1> QED
  BY <1>1, <1>2, <1>3, ReturnsOnce DEF DurableInv

LEMMA DurableInit ==
  ASSUME NEW b \in Buffers
  PROVE  Init => Durable(b)!Init
<1> SUFFICES ASSUME Init PROVE Durable(b)!Init
  OBVIOUS
<1>1. logged[b] = 0 /\ file[b] = <<>> /\ ended = "no" /\ failed = {}
  BY DEF Init
<1>2. \A t \in Threads : \A i \in DOMAIN stack[t] : stack[t][i] = Main
  BY DEF Init
<1>3. \A t \in Threads : ~ Begun(t)
  BY <1>2, ContextsType DEF Begun
<1>4. Trouble(b) = "none"
  BY <1>1, <1>3, ContextsType DEF Trouble, Raced, Threads
<1> QED
  BY <1>1, <1>4 DEF Durable!Init

(* Each log keeps what DurableLog promises its writer.                      *)
THEOREM LogIsDurable ==
  ASSUME NEW b \in Buffers
  PROVE  Spec => Durable(b)!Spec
<1>1. Init => Durable(b)!Init
  BY DurableInit
<1>2. DurableInv /\ [Next]_vars => [Durable(b)!Next]_(Durable(b)!vars)
  BY DurableStep DEF LogStep
<1> QED
  BY <1>1, <1>2, DurableInvariant, PTL DEF Spec, Durable!Spec

(* The two logs that MCLogBuffer follows.                                   *)
THEOREM LogsImplementDurableLog ==
  ASSUME NumBuffers >= 2
  PROVE  Spec => LogsAreDurable
<1>1. 1 \in Buffers /\ 2 \in Buffers
  BY BuffersAssumption DEF Buffers
<1>2. (Durable(1)!Init => First!Init) /\ (Durable(2)!Init => Second!Init)
  BY DEF Durable!Init, First!Init, Second!Init
<1>3. [Durable(1)!Next]_(Durable(1)!vars) => [First!Next]_(First!vars)
  BY DEF Durable!Next, Durable!Log, Durable!Write, Durable!WriteInTrouble,
     Durable!Close, Durable!Meet, Durable!Grows, Durable!Gapless, Durable!vars,
     First!Next, First!Log, First!Write, First!WriteInTrouble, First!Close,
     First!Meet, First!Grows, First!Gapless, First!vars
<1>4. [Durable(2)!Next]_(Durable(2)!vars) => [Second!Next]_(Second!vars)
  BY DEF Durable!Next, Durable!Log, Durable!Write, Durable!WriteInTrouble,
     Durable!Close, Durable!Meet, Durable!Grows, Durable!Gapless, Durable!vars,
     Second!Next, Second!Log, Second!Write, Second!WriteInTrouble, Second!Close,
     Second!Meet, Second!Grows, Second!Gapless, Second!vars
<1>5. Spec => Durable(1)!Spec
  BY <1>1, LogIsDurable
<1>6. Spec => Durable(2)!Spec
  BY <1>1, LogIsDurable
<1>7. Durable(1)!Spec => First!Spec
  BY <1>2, <1>3, PTL DEF Durable!Spec, First!Spec
<1>8. Durable(2)!Spec => Second!Spec
  BY <1>2, <1>4, PTL DEF Durable!Spec, Second!Spec
<1> QED
  BY <1>5, <1>6, <1>7, <1>8 DEF LogsAreDurable

=============================================================================
