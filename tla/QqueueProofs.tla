---------------------------- MODULE QqueueProofs ----------------------------
(***************************************************************************)
(* Theorems about Qqueue, for every set of values, every size of the ring  *)
(* that its counters can count twice, and every size readAll is called     *)
(* with: the invariant, and that the ring implements a bounded FIFO.       *)
(***************************************************************************)
EXTENDS Qqueue, SequenceTheorems, TLAPS

N == QQ_MEM_SIZE

LEMMA Sizes == N \in Nat /\ N > 0 /\ Word \in Nat /\ 2 * N <= Word /\ MaxSize \in Nat
BY QqueueAssumption DEF N

-----------------------------------------------------------------------------
(* The arithmetic of the counters and of the slots.                        *)

\* The counters count modulo Word: what is between them is never lost by a wrap.
LEMMA Counters ==
  ASSUME NEW p \in 0..Word - 1, NEW c \in 0..Word - 1
  PROVE  /\ Minus(p, c) \in 0..Word - 1
         /\ Minus(p, c) < Word - 1
              => Plus(p, 1) \in 0..Word - 1 /\ Minus(Plus(p, 1), c) = Minus(p, c) + 1
         /\ \A k \in 0..Minus(p, c) :
              Plus(c, k) \in 0..Word - 1 /\ Minus(p, Plus(c, k)) = Minus(p, c) - k
BY Sizes DEF Minus, Plus

LEMMA Slots ==
  ASSUME NEW i \in 0..N - 1, NEW k \in 0..N
  PROVE  /\ Slot(i, k) \in 0..N - 1
         /\ \A m \in 0..N - k : Slot(Slot(i, k), m) = Slot(i, k + m)
BY Sizes DEF Slot, N

\* Fewer than N slots in a row are all different.
LEMMA SlotsDiffer ==
  ASSUME NEW i \in 0..N - 1, NEW k \in 0..N - 1, NEW j \in 0..N - 1, j # k
  PROVE  Slot(i, j) # Slot(i, k)
BY Sizes DEF Slot, N

LEMMA Queued == TypeOK => queued \in 0..Word - 1
BY Counters DEF TypeOK, FieldsTypeOK, queued

LEMMA FirstIsASlot == TypeOK /\ RingInv => First \in 0..N - 1
<1> SUFFICES ASSUME TypeOK, RingInv PROVE First \in 0..N - 1
  OBVIOUS
<1>1. readIndex \in 0..2 * N - 1 /\ len \in 0..N
  BY DEF TypeOK, FieldsTypeOK, LocalsTypeOK, N
<1>2. cpc = "count" => readIndex \in 1..N
  BY DEF RingInv, ConsumerInv, N
<1>3. cpc = "advance" => readIndex \in 0..N - 1
  BY <1>1, Sizes DEF RingInv, ConsumerInv, N
<1> QED BY <1>1, <1>2, <1>3, Sizes DEF First, Slot, N

-----------------------------------------------------------------------------
(* The invariant: one lemma per action.                                    *)

IInv == TypeOK /\ RingInv

LEMMA InitHolds == Init => IInv
<1> SUFFICES ASSUME Init PROVE IInv
  OBVIOUS
<1>1. queued = 0 /\ First = 0
  BY Sizes DEF Init, queued, Minus, First, Slot, N
<1>2. TypeOK
  BY Sizes DEF Init, TypeOK, FieldsTypeOK, LocalsTypeOK, N
<1>3. IndexInv
  BY <1>1, Sizes DEF Init, IndexInv, Slot, N
<1>4. ProducerInv /\ ConsumerInv
  BY Sizes DEF Init, ProducerInv, ConsumerInv, N
<1> QED BY <1>2, <1>3, <1>4 DEF IInv, RingInv

\* What TypeOK and RingInv say, in the words the steps below use.
LEMMA Known ==
  ASSUME IInv
  PROVE  /\ readIndex \in 0..2 * N - 1 /\ writeIndex \in 0..N /\ len \in 0..N
         /\ produced \in 0..Word - 1 /\ consumed \in 0..Word - 1 /\ queued \in 0..N
         /\ data \in [0..N - 1 -> Values] /\ val \in Values
         /\ First \in 0..N - 1
<1>1. queued \in 0..N
  BY Queued, Sizes DEF IInv, RingInv, IndexInv, N
<1>2. First \in 0..N - 1
  BY FirstIsASlot DEF IInv
<1> QED BY <1>1, <1>2 DEF IInv, TypeOK, FieldsTypeOK, LocalsTypeOK, N

\* What is in the ring stays when the slots, the counters and the first slot do.
LEMMA ContentsStay ==
  ASSUME data' = data, queued' = queued, First' = First
  PROVE  Contents' = Contents
BY DEF Contents

-----------------------------------------------------------------------------
(* The producer's steps.                                                   *)

\* The parts of the invariant about the consumer stand when its variables, the
\* counters and what is in the ring stay.
LEMMA ConsumerStays ==
  ASSUME IInv, UNCHANGED <<readIndex, cpc, len, size, mem, got>>,
         queued' \in Nat, queued' >= queued,
         \A i \in 1..queued : Contents'[i] = Contents[i]
  PROVE  ConsumerInv'
<1>1. ConsumerInv /\ queued \in 0..N /\ len \in 0..N /\ mem \in Seq(Values)
  BY Known DEF IInv, RingInv, TypeOK, LocalsTypeOK
<1>2. cpc \in {"idle", "take", "read", "advance"} => readIndex' < N
  BY <1>1 DEF ConsumerInv, N
<1>3. cpc \in {"count", "wrap"} => readIndex' \in 1..N
  BY <1>1 DEF ConsumerInv, N
<1>4. cpc \in {"take", "count"} => queued' > 0
  BY <1>1, Sizes DEF ConsumerInv
<1>5. cpc = "read" => len <= queued' /\ Len(mem) <= len /\ Len(mem) <= size
  BY <1>1, Sizes DEF ConsumerInv
<1>6. cpc = "count" => mem = <<Contents'[1]>>
  <2> SUFFICES ASSUME cpc = "count" PROVE mem = <<Contents'[1]>>
    OBVIOUS
  <2>1. mem = <<Contents[1]>> /\ 1 \in 1..queued
    BY <1>1, Sizes DEF ConsumerInv
  <2> QED BY <2>1
<1>7. cpc = "read" => \A i \in 1..Len(mem) : mem[i] = Contents'[i]
  <2> SUFFICES ASSUME cpc = "read", NEW i \in 1..Len(mem) PROVE mem[i] = Contents'[i]
    OBVIOUS
  <2>1. mem[i] = Contents[i]
    BY <1>1 DEF ConsumerInv
  <2>2. i \in 1..queued
    BY <1>1, Sizes DEF ConsumerInv
  <2> QED BY <2>1, <2>2
<1> QED BY <1>2, <1>3, <1>4, <1>5, <1>6, <1>7 DEF ConsumerInv, N

LEMMA EnqueueStep ==
  ASSUME IInv, NEW v \in Values, Enqueue(v)
  PROVE  IInv' /\ Contents' = Contents
<1>1. queued' = queued /\ First' = First /\ Contents' = Contents
  BY ContentsStay DEF Enqueue, fields, consumer, queued, First
<1>2. TypeOK'
  BY DEF IInv, TypeOK, FieldsTypeOK, LocalsTypeOK, Enqueue, fields, consumer
<1>3. IndexInv'
  BY <1>1 DEF IInv, RingInv, IndexInv, Enqueue, fields
<1>4. ProducerInv'
  BY <1>1, Known, Sizes DEF IInv, RingInv, ProducerInv, Enqueue, fields
<1>5. ConsumerInv'
  BY <1>1, Known, ConsumerStays DEF Enqueue, fields, consumer
<1> QED BY <1>1, <1>2, <1>3, <1>4, <1>5 DEF IInv, RingInv

\* The slot that is stored into is not counted.
LEMMA StoreStep ==
  ASSUME IInv, Store
  PROVE  IInv' /\ Contents' = Contents
<1>1. queued' = queued /\ First' = First
  BY DEF Store, consumer, queued, First
<1>2. /\ queued < N /\ writeIndex \in 0..N - 1 /\ val \in Values
      /\ Slot(First, queued) = writeIndex
  BY Known, Sizes DEF IInv, RingInv, IndexInv, ProducerInv, Store, Slot, N
<1>3. \A k \in 0..queued - 1 : data'[Slot(First, k)] = data[Slot(First, k)]
  <2> SUFFICES ASSUME NEW k \in 0..queued - 1
               PROVE  data'[Slot(First, k)] = data[Slot(First, k)]
    OBVIOUS
  <2>1. Slot(First, k) # writeIndex /\ Slot(First, k) \in 0..N - 1
    <3>1. k \in 0..N - 1 /\ queued \in 0..N - 1 /\ k # queued /\ k \in 0..N
      BY <1>2, Known, Sizes
    <3>2. Slot(First, k) # Slot(First, queued)
      BY <3>1, Known, SlotsDiffer
    <3> QED BY <1>2, <3>1, <3>2, Known, Slots
  <2> QED BY <2>1, Known DEF Store
<1>4. Contents' = Contents
  BY <1>1, <1>3, Known DEF Contents
<1>5. TypeOK'
  <2>1. writeIndex' \in 0..N
    BY <1>2, Sizes DEF Store
  <2>2. data' \in [0..N - 1 -> Values]
    BY <1>2, Known DEF Store
  <2> QED BY <1>2, <2>1, <2>2
          DEF IInv, TypeOK, FieldsTypeOK, LocalsTypeOK, Store, consumer, N
<1>6. IndexInv'
  BY <1>1, <1>2, Known, Sizes DEF IInv, RingInv, IndexInv, Store, N
<1>7. ProducerInv'
  <2>1. writeIndex' > 0 /\ writeIndex' - 1 = writeIndex /\ val' = val /\ ppc' = "publish"
    BY <1>2 DEF Store
  <2>2. data'[writeIndex] = val
    BY <1>2, Known DEF Store
  <2> QED BY <1>1, <1>2, <2>1, <2>2 DEF ProducerInv, N
<1>8. ConsumerInv'
  BY <1>1, <1>4, Known, ConsumerStays DEF Store, consumer
<1> QED BY <1>4, <1>5, <1>6, <1>7, <1>8 DEF IInv, RingInv

\* The slot that was stored into is counted.
LEMMA PublishStep ==
  ASSUME IInv, Publish
  PROVE  IInv' /\ queued < N /\ Contents' = Append(Contents, val)
<1>1. /\ queued < N /\ queued \in Nat /\ writeIndex \in 1..N /\ val \in Values
      /\ Slot(First, queued) = writeIndex - 1 /\ data[writeIndex - 1] = val
  BY Known, Sizes DEF IInv, RingInv, IndexInv, ProducerInv, Publish, N
<1>2. produced' \in 0..Word - 1 /\ queued' = queued + 1 /\ First' = First
  <2>1. Minus(produced, consumed) < Word - 1
    BY <1>1, Sizes DEF queued
  <2>2. /\ Plus(produced, 1) \in 0..Word - 1
        /\ Minus(Plus(produced, 1), consumed) = Minus(produced, consumed) + 1
    BY <2>1, Known, Counters
  <2> QED BY <2>2 DEF Publish, consumer, queued, First
<1>3. Contents' = Append(Contents, val)
  <2>1. Contents' = [i \in 1..queued + 1 |-> data[Slot(First, i - 1)]]
    BY <1>2 DEF Contents, Publish
  <2>2. Contents \in Seq(Values) /\ Len(Contents) = queued
    <3>1. \A i \in 1..queued : data[Slot(First, i - 1)] \in Values
      <4> SUFFICES ASSUME NEW i \in 1..queued PROVE data[Slot(First, i - 1)] \in Values
        OBVIOUS
      <4>1. i - 1 \in 0..N
        BY <1>1, Sizes
      <4> QED BY <4>1, Known, Slots
    <3> QED BY <1>1, <3>1 DEF Contents
  <2>3. \A i \in 1..queued + 1 : data[Slot(First, i - 1)] = Append(Contents, val)[i]
    <3> SUFFICES ASSUME NEW i \in 1..queued + 1
                 PROVE  data[Slot(First, i - 1)] = Append(Contents, val)[i]
      OBVIOUS
    <3>1. CASE i = queued + 1
      BY <1>1, <2>2, <3>1
    <3>2. CASE i \in 1..queued
      BY <1>1, <2>2, <3>2 DEF Contents
    <3>3. i = queued + 1 \/ i \in 1..queued
      BY <1>1
    <3> QED BY <3>1, <3>2, <3>3
  <2>4. /\ Append(Contents, val) \in Seq(Values)
        /\ Len(Append(Contents, val)) = queued + 1
    BY <1>1, <2>2
  <2>5. Append(Contents, val) = [i \in 1..queued + 1 |-> Append(Contents, val)[i]]
    <3>1. Append(Contents, val) \in [1..queued + 1 -> Values]
      BY <2>4, LenProperties
    <3> QED BY <3>1
  <2> QED BY <2>1, <2>3, <2>5
<1>4. TypeOK'
  BY <1>2 DEF IInv, TypeOK, FieldsTypeOK, LocalsTypeOK, Publish, consumer
<1>5. IndexInv'
  <2>1. Slot(First, queued + 1) = Slot(Slot(First, queued), 1)
    <3>1. queued \in 0..N /\ 1 \in 0..N - queued
      BY <1>1, Known, Sizes
    <3> QED BY <3>1, Known, Slots
  <2>2. Slot(writeIndex - 1, 1) = Slot(writeIndex, 0)
    BY <1>1, Sizes DEF Slot, N
  <2>3. Slot(First, queued + 1) = Slot(writeIndex, 0)
    BY <1>1, <2>1, <2>2
  <2> QED BY <1>1, <1>2, <2>3, Sizes DEF IndexInv, Publish, N
<1>6. ProducerInv'
  BY <1>1 DEF ProducerInv, Publish
<1>7. ConsumerInv'
  <2>1. \A i \in 1..queued : Contents'[i] = Contents[i]
    BY <1>1, <1>2 DEF Contents, Publish
  <2> QED BY <1>1, <1>2, <2>1, ConsumerStays DEF Publish, consumer
<1> QED BY <1>1, <1>3, <1>4, <1>5, <1>6, <1>7 DEF IInv, RingInv

LEMMA WrapStep ==
  ASSUME IInv, Wrap
  PROVE  IInv' /\ Contents' = Contents
<1>1. queued' = queued /\ First' = First /\ Contents' = Contents
  BY ContentsStay DEF Wrap, consumer, queued, First
<1>2. writeIndex' = Slot(writeIndex, 0) /\ writeIndex' \in 0..N - 1
  <2>1. writeIndex \in 0..N /\ writeIndex' = IF writeIndex = N THEN 0 ELSE writeIndex
    BY Known DEF Wrap, N
  <2> QED BY <2>1, Sizes DEF Slot, N
<1>3. TypeOK'
  BY <1>2 DEF IInv, TypeOK, FieldsTypeOK, LocalsTypeOK, Wrap, consumer, N
<1>4. IndexInv'
  <2>1. Slot(writeIndex', 0) = writeIndex'
    BY <1>2, Sizes DEF Slot, N
  <2> QED BY <1>1, <1>2, <2>1, Known, Sizes DEF IInv, RingInv, IndexInv, Wrap
<1>5. ProducerInv'
  <2>1. ppc' = "idle"
    BY DEF Wrap
  <2>2. writeIndex' < N
    BY <1>2, Sizes
  <2> QED BY <2>1, <2>2 DEF ProducerInv, N
<1>6. ConsumerInv'
  BY <1>1, Known, ConsumerStays DEF Wrap, consumer
<1> QED BY <1>1, <1>3, <1>4, <1>5, <1>6 DEF IInv, RingInv

-----------------------------------------------------------------------------
(* The consumer's steps.                                                   *)

LEMMA Folded ==
  ASSUME NEW i \in 0..2 * N - 1
  PROVE  /\ Slot(i, 0) \in 0..N - 1
         /\ Slot(i, 0) = IF i >= N THEN i - N ELSE i
         /\ Slot(Slot(i, 0), 0) = Slot(i, 0)
BY Sizes DEF Slot, N

\* The producer's part stands when its variables stay and no more is counted.
LEMMA ProducerStays ==
  ASSUME IInv, UNCHANGED <<writeIndex, ppc, val, data>>, queued' \in Nat, queued' <= queued
  PROVE  ProducerInv'
<1>1. ProducerInv /\ queued \in 0..N
  BY Known DEF IInv, RingInv
<1>2. ppc \in {"store", "publish"} => queued' < N
  <2> SUFFICES ASSUME ppc \in {"store", "publish"} PROVE queued' < N
    OBVIOUS
  <2>1. queued < N
    BY <1>1 DEF ProducerInv, N
  <2> QED BY <1>1, <2>1, Sizes
<1> QED BY <1>1, <1>2 DEF ProducerInv, N

\* A consumer's step that counts nothing and moves to a state of the same first slot.
LEMMA QuietStep ==
  ASSUME IInv, UNCHANGED <<writeIndex, produced, consumed, data, producer>>, First' = First,
         TypeOK', ConsumerInv'
  PROVE  IInv' /\ Contents' = Contents
<1>1. queued' = queued /\ Contents' = Contents
  BY ContentsStay DEF queued
<1>2. IndexInv'
  BY <1>1 DEF IInv, RingInv, IndexInv, producer
<1>3. ProducerInv'
  BY <1>1, Known, ProducerStays, Sizes DEF producer
<1> QED BY <1>1, <1>2, <1>3 DEF IInv, RingInv

LEMMA DequeueStep ==
  ASSUME IInv, Dequeue
  PROVE  IInv' /\ Contents' = Contents
<1>1. First' = First /\ queued' = queued
  BY DEF Dequeue, fields, First, queued
<1>2. TypeOK'
  BY DEF IInv, TypeOK, FieldsTypeOK, LocalsTypeOK, Dequeue, fields, producer
<1>3. ConsumerInv'
  <2>1. readIndex' < N /\ queued' > 0 /\ cpc' = "take"
    BY <1>1, Known, Sizes DEF IInv, RingInv, ConsumerInv, Dequeue, fields, N
  <2> QED BY <2>1 DEF ConsumerInv, N
<1> QED BY <1>1, <1>2, <1>3, QuietStep DEF Dequeue, fields

LEMMA TakeOneStep ==
  ASSUME IInv, TakeOne
  PROVE  IInv' /\ Contents' = Contents
<1>1. cpc = "take" /\ cpc' = "count" /\ readIndex \in 0..N - 1 /\ readIndex' = readIndex + 1
  BY Known, Sizes DEF IInv, RingInv, ConsumerInv, TakeOne, N
<1>2. First = readIndex /\ First' = readIndex
  <2>1. First = Slot(readIndex, 0)
    BY <1>1 DEF First
  <2>2. First' = readIndex' - 1
    BY <1>1 DEF First
  <2> QED BY <1>1, <2>1, <2>2, Folded, Sizes
<1>3. queued' = queued /\ queued > 0 /\ queued \in Nat
  BY <1>1, Known DEF TakeOne, queued, IInv, RingInv, ConsumerInv
<1>4. Contents' = Contents
  BY <1>2, <1>3, ContentsStay DEF TakeOne
<1>5. mem' = <<Contents[1]>> /\ Contents[1] \in Values
  <2>1. Contents[1] = data[Slot(First, 0)]
    BY <1>3 DEF Contents
  <2>2. Slot(First, 0) = readIndex
    BY <1>1, <1>2, Folded, Sizes
  <2> QED BY <1>1, <2>1, <2>2, Known DEF TakeOne
<1>6. TypeOK'
  <2>1. readIndex' \in 0..2 * N - 1
    BY <1>1, Sizes
  <2>2. mem' \in Seq(Values)
    BY <1>5
  <2> QED BY <1>1, <2>1, <2>2
          DEF IInv, TypeOK, FieldsTypeOK, LocalsTypeOK, TakeOne, producer, N
<1>7. ConsumerInv'
  <2>1. readIndex' \in 1..N
    BY <1>1, Sizes
  <2> QED BY <1>1, <1>3, <1>4, <1>5, <2>1 DEF ConsumerInv, N
<1> QED BY <1>2, <1>6, <1>7, QuietStep DEF TakeOne

LEMMA WrapOneStep ==
  ASSUME IInv, WrapOne
  PROVE  IInv' /\ Contents' = Contents
<1>1. cpc = "wrap" /\ cpc' = "idle" /\ readIndex \in 1..N
      /\ readIndex' = IF readIndex = N THEN 0 ELSE readIndex
  BY DEF IInv, RingInv, ConsumerInv, WrapOne, N
<1>2. readIndex' = Slot(readIndex, 0) /\ readIndex' \in 0..N - 1
  BY <1>1, Known, Folded, Sizes
<1>3. First' = First
  BY <1>1, <1>2, Known, Folded DEF First
<1>4. TypeOK'
  <2>1. readIndex' \in 0..2 * N - 1
    BY <1>2, Sizes
  <2> QED BY <1>1, <2>1 DEF IInv, TypeOK, FieldsTypeOK, LocalsTypeOK, WrapOne, producer, N
<1>5. ConsumerInv'
  <2>1. readIndex' < N
    BY <1>2, Sizes
  <2> QED BY <1>1, <2>1 DEF ConsumerInv, N
<1> QED BY <1>3, <1>4, <1>5, QuietStep DEF WrapOne

LEMMA ReadAllStep ==
  ASSUME IInv, NEW s \in 0..MaxSize, ReadAll(s)
  PROVE  IInv' /\ Contents' = Contents
<1>1. First' = First /\ queued' = queued
  BY DEF ReadAll, fields, First, queued
<1>2. TypeOK'
  BY Known DEF IInv, TypeOK, FieldsTypeOK, LocalsTypeOK, ReadAll, fields, producer, N
<1>3. ConsumerInv'
  <2>1. cpc' = "read" /\ mem' = <<>> /\ len' = queued /\ size' = s
    BY DEF ReadAll
  <2>2. readIndex' < N
    BY Sizes DEF IInv, RingInv, ConsumerInv, ReadAll, fields, N
  <2>3. len' <= queued' /\ Len(mem') <= len' /\ Len(mem') <= size'
    BY <1>1, <2>1, Known
  <2> QED BY <2>1, <2>2, <2>3 DEF ConsumerInv, N
<1> QED BY <1>1, <1>2, <1>3, QuietStep DEF ReadAll, fields

LEMMA ReadNextStep ==
  ASSUME IInv, ReadNext
  PROVE  IInv' /\ Contents' = Contents
<1>1. First' = First /\ queued' = queued /\ Contents' = Contents
  BY ContentsStay DEF ReadNext, fields, First, queued
<1>2. /\ cpc = "read" /\ cpc' = "read" /\ mem \in Seq(Values)
      /\ Len(mem) < len /\ Len(mem) < size /\ len' = len /\ size' = size
      /\ len \in 0..N /\ size \in Nat /\ len <= queued /\ readIndex \in 0..N - 1
      /\ \A i \in 1..Len(mem) : mem[i] = Contents[i]
  <2>1. ConsumerInv /\ cpc = "read" /\ cpc' = "read" /\ Len(mem) < len /\ Len(mem) < size
        /\ len' = len /\ size' = size
    BY DEF IInv, RingInv, ReadNext
  <2>2. mem \in Seq(Values) /\ size \in Nat
    BY Sizes DEF IInv, TypeOK, LocalsTypeOK
  <2>3. readIndex \in 0..N - 1
    BY <2>1, Known, Sizes DEF ConsumerInv, N
  <2>4. len <= queued /\ \A i \in 1..Len(mem) : mem[i] = Contents[i]
    BY <2>1 DEF ConsumerInv
  <2> QED BY <2>1, <2>2, <2>3, <2>4, Known
<1>3. /\ Len(mem) + 1 \in 1..queued /\ Contents[Len(mem) + 1] \in Values
      /\ mem' = Append(mem, Contents[Len(mem) + 1])
  <2>1. Len(mem) + 1 \in 1..queued /\ Len(mem) \in 0..N
    BY <1>2, Known, Sizes
  <2>2. First = readIndex
    BY <1>2, Folded, Sizes DEF First
  <2>3. Contents[Len(mem) + 1] = data[Slot(readIndex, Len(mem))]
    BY <2>1, <2>2 DEF Contents
  <2>4. Slot(readIndex, Len(mem)) \in 0..N - 1
    BY <1>2, <2>1, Slots
  <2> QED BY <2>1, <2>3, <2>4, Known DEF ReadNext
<1>4. mem' \in Seq(Values) /\ Len(mem') = Len(mem) + 1
      /\ \A i \in 1..Len(mem') : mem'[i] = Contents[i]
  <2>1. mem' \in Seq(Values) /\ Len(mem') = Len(mem) + 1
    BY <1>2, <1>3
  <2>2. ASSUME NEW i \in 1..Len(mem')
        PROVE  mem'[i] = Contents[i]
    <3>1. CASE i = Len(mem) + 1
      BY <1>2, <1>3, <3>1
    <3>2. CASE i \in 1..Len(mem)
      BY <1>2, <1>3, <3>2
    <3> QED BY <1>2, <2>1, <3>1, <3>2
  <2> QED BY <2>1, <2>2
<1>5. TypeOK'
  BY <1>4 DEF IInv, TypeOK, FieldsTypeOK, LocalsTypeOK, ReadNext, fields, producer
<1>6. ConsumerInv'
  <2>1. readIndex' < N
    BY <1>2, Sizes DEF ReadNext, fields
  <2>2. len' <= queued' /\ Len(mem') <= len' /\ Len(mem') <= size'
    BY <1>1, <1>2, <1>4, Known
  <2> QED BY <1>1, <1>2, <1>4, <2>1, <2>2 DEF ConsumerInv, N
<1> QED BY <1>1, <1>5, <1>6, QuietStep DEF ReadNext, fields

LEMMA AdvanceStep ==
  ASSUME IInv, Advance
  PROVE  IInv' /\ Contents' = Contents
<1>1. /\ cpc = "advance" /\ cpc' = "fold" /\ readIndex \in 0..N - 1 /\ len \in 0..N
      /\ readIndex' = readIndex + len
  BY Known, Sizes DEF IInv, RingInv, ConsumerInv, Advance, N
<1>2. First' = First
  <2>1. First = Slot(readIndex, len) /\ First' = Slot(readIndex + len, 0)
    BY <1>1 DEF First
  <2> QED BY <1>1, <2>1, Sizes DEF Slot, N
<1>3. TypeOK'
  <2>1. readIndex' \in 0..2 * N - 1
    BY <1>1, Sizes
  <2> QED BY <1>1, <2>1 DEF IInv, TypeOK, FieldsTypeOK, LocalsTypeOK, Advance, producer, N
<1>4. ConsumerInv'
  BY <1>1 DEF ConsumerInv
<1> QED BY <1>2, <1>3, <1>4, QuietStep DEF Advance

LEMMA FoldStep ==
  ASSUME IInv, Fold
  PROVE  IInv' /\ Contents' = Contents
<1>1. /\ cpc = "fold" /\ cpc' = "idle"
      /\ readIndex' = Slot(readIndex, 0) /\ readIndex' \in 0..N - 1
  BY Known, Folded DEF Fold, N
<1>2. First' = First
  BY <1>1, Known, Folded DEF First
<1>3. TypeOK'
  <2>1. readIndex' \in 0..2 * N - 1
    BY <1>1, Sizes
  <2> QED BY <1>1, <2>1 DEF IInv, TypeOK, FieldsTypeOK, LocalsTypeOK, Fold, producer, N
<1>4. ConsumerInv'
  <2>1. readIndex' < N
    BY <1>1, Sizes
  <2> QED BY <1>1, <2>1 DEF ConsumerInv, N
<1> QED BY <1>2, <1>3, <1>4, QuietStep DEF Fold

\* The consumer counts k values: they are the oldest, the others stay.
LEMMA CountStep ==
  ASSUME IInv, NEW k \in 0..queued, UNCHANGED <<produced, data, writeIndex, producer>>,
         consumed' = Plus(consumed, k), First' = Slot(First, k), ConsumerInv',
         UNCHANGED <<readIndex, len, size, mem>>, got' = mem,
         cpc' \in {"wrap", "advance"}
  PROVE  IInv' /\ Contents' = [i \in 1..queued - k |-> Contents[i + k]]
<1>1. queued \in 0..N /\ k \in 0..N
  BY Known, Sizes
<1>2. consumed' \in 0..Word - 1 /\ queued' = queued - k
  BY Known, Counters DEF queued
<1>3. Contents' = [i \in 1..queued - k |-> Contents[i + k]]
  <2>1. Contents' = [i \in 1..queued - k |-> data[Slot(Slot(First, k), i - 1)]]
    BY <1>2 DEF Contents
  <2>2. ASSUME NEW i \in 1..queued - k
        PROVE  data[Slot(Slot(First, k), i - 1)] = Contents[i + k]
    <3>1. i - 1 \in 0..N - k /\ i + k \in 1..queued /\ k + (i - 1) = (i + k) - 1
      BY <1>1, Sizes
    <3>2. Slot(Slot(First, k), i - 1) = Slot(First, k + (i - 1))
      BY <1>1, <3>1, Known, Slots
    <3>3. Contents[i + k] = data[Slot(First, (i + k) - 1)]
      BY <3>1 DEF Contents
    <3> QED BY <3>1, <3>2, <3>3
  <2> QED BY <2>1, <2>2
<1>4. TypeOK'
  BY <1>2 DEF IInv, TypeOK, FieldsTypeOK, LocalsTypeOK, producer
<1>5. IndexInv'
  <2>1. queued - k \in 0..N - k /\ k + (queued - k) = queued
    BY <1>1, Sizes
  <2>2. Slot(Slot(First, k), queued - k) = Slot(First, queued)
    BY <1>1, <2>1, Known, Slots
  <2>3. queued' <= N
    BY <1>1, <1>2, Sizes
  <2> QED BY <1>2, <2>2, <2>3 DEF IInv, RingInv, IndexInv, producer, N
<1>6. ProducerInv'
  <2>1. queued' \in Nat /\ queued' <= queued
    BY <1>1, <1>2
  <2> QED BY <2>1, ProducerStays DEF producer
<1> QED BY <1>3, <1>4, <1>5, <1>6 DEF IInv, RingInv

\* What the steps that count deliver.
Delivers == \E k \in 0..queued : \E n \in 0..k :
              /\ got' = [i \in 1..n |-> Contents[i]]
              /\ Contents' = [i \in 1..queued - k |-> Contents[i + k]]

LEMMA CountOneStep ==
  ASSUME IInv, CountOne
  PROVE  IInv' /\ Delivers
<1>1. /\ cpc = "count" /\ cpc' = "wrap" /\ readIndex \in 1..N /\ readIndex' = readIndex
      /\ queued \in 0..N /\ queued > 0 /\ mem = <<Contents[1]>>
  BY Known DEF IInv, RingInv, ConsumerInv, CountOne, N
<1>2. First' = Slot(First, 1)
  <2>1. First = readIndex - 1 /\ First' = Slot(readIndex, 0)
    BY <1>1 DEF First
  <2> QED BY <1>1, <2>1, Sizes DEF Slot, N
<1>3. ConsumerInv'
  BY <1>1 DEF ConsumerInv, N
<1>4. 1 \in 0..queued
  BY <1>1, Sizes
<1>5. IInv' /\ Contents' = [i \in 1..queued - 1 |-> Contents[i + 1]]
  BY <1>1, <1>2, <1>3, <1>4, CountStep DEF CountOne
<1>6. got' = [i \in 1..1 |-> Contents[i]]
  BY <1>1 DEF CountOne
<1> QED BY <1>4, <1>5, <1>6 DEF Delivers

LEMMA DropStep ==
  ASSUME IInv, Drop
  PROVE  IInv' /\ Delivers
<1>1. /\ cpc = "read" /\ cpc' = "advance" /\ readIndex \in 0..N - 1 /\ readIndex' = readIndex
      /\ len \in 0..queued /\ len \in 0..N /\ Len(mem) \in 0..len /\ mem \in Seq(Values)
      /\ \A i \in 1..Len(mem) : mem[i] = Contents[i]
  <2>1. ConsumerInv /\ cpc = "read" /\ cpc' = "advance" /\ readIndex' = readIndex
    BY DEF IInv, RingInv, Drop
  <2>2. mem \in Seq(Values)
    BY DEF IInv, TypeOK, LocalsTypeOK
  <2>3. readIndex \in 0..N - 1
    BY <2>1, Known, Sizes DEF ConsumerInv, N
  <2>4. len <= queued /\ Len(mem) <= len /\ \A i \in 1..Len(mem) : mem[i] = Contents[i]
    BY <2>1 DEF ConsumerInv
  <2>5. len \in 0..queued /\ Len(mem) \in 0..len
    BY <2>2, <2>4, Known
  <2> QED BY <2>1, <2>2, <2>3, <2>4, <2>5, Known
<1>2. First' = Slot(First, len)
  <2>1. First = Slot(readIndex, 0) /\ First' = Slot(readIndex, len)
    BY <1>1 DEF First, Drop
  <2> QED BY <1>1, <2>1, Folded, Sizes
<1>3. ConsumerInv'
  <2>1. readIndex' < N
    BY <1>1, Sizes
  <2> QED BY <1>1, <2>1 DEF ConsumerInv, N
<1>4. IInv' /\ Contents' = [i \in 1..queued - len |-> Contents[i + len]]
  BY <1>1, <1>2, <1>3, CountStep DEF Drop
<1>5. got' = [i \in 1..Len(mem) |-> Contents[i]]
  <2>1. mem = [i \in 1..Len(mem) |-> mem[i]]
    BY <1>1
  <2> QED BY <1>1, <2>1 DEF Drop
<1> QED BY <1>1, <1>4, <1>5 DEF Delivers

-----------------------------------------------------------------------------
(* The theorems.                                                           *)

LEMMA StepKeepsInv ==
  ASSUME IInv, [Next]_vars
  PROVE  IInv'
<1>1. ASSUME NEW v \in Values, Enqueue(v) PROVE IInv'
  BY <1>1, EnqueueStep
<1>2. ASSUME NEW s \in 0..MaxSize, ReadAll(s) PROVE IInv'
  BY <1>2, ReadAllStep
<1>3. CASE UNCHANGED vars
  <2>1. queued' = queued /\ First' = First /\ Contents' = Contents
    BY <1>3 DEF vars, fields, consumer, queued, First, Contents
  <2>2. TypeOK'
    BY <1>3 DEF vars, fields, producer, consumer, IInv, TypeOK, FieldsTypeOK, LocalsTypeOK
  <2>3. IndexInv' /\ ProducerInv'
    BY <1>3, <2>1 DEF vars, fields, producer, IInv, RingInv, IndexInv, ProducerInv
  <2>4. ConsumerInv'
    BY <1>3, <2>1 DEF vars, fields, consumer, IInv, RingInv, ConsumerInv
  <2> QED BY <2>2, <2>3, <2>4 DEF IInv, RingInv
<1> QED BY <1>1, <1>2, <1>3, StoreStep, PublishStep, WrapStep, DequeueStep, TakeOneStep,
           CountOneStep, WrapOneStep, ReadNextStep, DropStep, AdvanceStep, FoldStep
        DEF Next, Producer, Consumer

THEOREM Inductive == Spec => []IInv
<1>1. Init => IInv
  BY InitHolds
<1>2. IInv /\ [Next]_vars => IInv'
  BY StepKeepsInv
<1> QED BY <1>1, <1>2, PTL DEF Spec

\* Every index is a slot of the ring when it is used as one, and every counter and
\* local keeps its width: qqueue.cpp never reads or writes outside data.
THEOREM TypeCorrect == Spec => []TypeOK
<1>1. IInv => TypeOK
  BY DEF IInv
<1> QED BY <1>1, Inductive, PTL

\* What the counters count lies between the two indices, whatever the other core does.
THEOREM RingCorrect == Spec => []RingInv
<1>1. IInv => RingInv
  BY DEF IInv
<1> QED BY <1>1, Inductive, PTL

LEMMA LengthOfContents == IInv => Len(Contents) = queued
<1> SUFFICES ASSUME IInv PROVE Len(Contents) = queued
  OBVIOUS
<1>1. queued \in Nat
  BY Known
<1> QED BY <1>1 DEF Contents

LEMMA StepIsFifoStep ==
  ASSUME IInv, [Next]_vars
  PROVE  [Fifo!FifoNext]_(Fifo!fifoVars)
<1>1. Len(Contents) = queued /\ queued \in Nat
  BY LengthOfContents, Known
<1>2. ASSUME Contents' = Contents, got' = got
      PROVE  UNCHANGED Fifo!fifoVars
  BY <1>2 DEF Fifo!fifoVars
<1>3. ASSUME Delivers
      PROVE  Fifo!FifoNext
  BY <1>1, <1>3 DEF Delivers, Fifo!FifoNext, Fifo!Take
<1>4. ASSUME Publish
      PROVE  Fifo!FifoNext
  <2>1. val \in Values /\ queued < N /\ Contents' = Append(Contents, val)
    BY <1>4, PublishStep, Known
  <2> QED BY <1>1, <1>4, <2>1 DEF Fifo!FifoNext, Fifo!Put, Publish, consumer, N
<1>5. CASE UNCHANGED vars
  BY <1>2, <1>5 DEF vars, fields, consumer, Contents, First, queued
<1>6. ASSUME NEW v \in Values, Enqueue(v) PROVE UNCHANGED Fifo!fifoVars
  BY <1>2, <1>6, EnqueueStep DEF Enqueue, consumer
<1>7. CASE Store \/ Wrap
  BY <1>2, <1>7, StoreStep, WrapStep DEF Store, Wrap, consumer
<1>8. ASSUME NEW s \in 0..MaxSize, ReadAll(s) PROVE UNCHANGED Fifo!fifoVars
  BY <1>2, <1>8, ReadAllStep DEF ReadAll
<1>9. CASE Dequeue \/ TakeOne \/ WrapOne \/ ReadNext
  BY <1>2, <1>9, DequeueStep, TakeOneStep, WrapOneStep, ReadNextStep
     DEF Dequeue, TakeOne, WrapOne, ReadNext
<1>10. CASE Advance \/ Fold
  BY <1>2, <1>10, AdvanceStep, FoldStep DEF Advance, Fold
<1>11. CASE CountOne \/ Drop
  BY <1>3, <1>11, CountOneStep, DropStep
<1> QED BY <1>4, <1>5, <1>6, <1>7, <1>8, <1>9, <1>10, <1>11 DEF Next, Producer, Consumer

\* Qqueue is a bounded FIFO: two cores that enqueue and dequeue, read all or flush at
\* the same time lose, repeat, reorder or tear nothing, across every wrap of the
\* uint16_t counters, for every ring the counters can count twice.
THEOREM Refinement == Spec => IsFifo
<1>1. Init => Fifo!FifoInit
  <2> SUFFICES ASSUME Init PROVE Fifo!FifoInit
    OBVIOUS
  <2>1. Len(Contents) = 0 /\ Contents \in Seq(Values)
    <3>1. queued = 0
      BY Sizes DEF Init, queued, Minus
    <3> QED BY <3>1 DEF Contents
  <2> QED BY <2>1, EmptySeq DEF Init, Fifo!FifoInit
<1>2. IInv /\ [Next]_vars => [Fifo!FifoNext]_(Fifo!fifoVars)
  BY StepIsFifoStep
<1> QED BY <1>1, <1>2, Inductive, PTL DEF Spec, IsFifo, Fifo!FifoSpec
=============================================================================
