------------------------------- MODULE Qqueue -------------------------------
(***************************************************************************)
(* The ring buffer in memory that two cores share: one enqueues, one       *)
(* dequeues, reads all or flushes, and nothing locks it.  Every access to  *)
(* a field the other core accesses is a step of its own (readIndex is the  *)
(* consumer's, writeIndex the producer's); the steps of a core take effect *)
(* in program order, which the code relies on: data is not volatile.       *)
(***************************************************************************)
EXTENDS Integers, Sequences

CONSTANTS
  Values,       \* the Qvals in use
  QQ_MEM_SIZE,  \* slots of the ring
  Word,         \* 2^16 in the code: produced and consumed are uint16_t
  MaxSize       \* bound: the size readAll is called with

\* The indices are uint16_t too: readIndex + len must fit.
ASSUME QqueueAssumption ==
  /\ QQ_MEM_SIZE \in Nat \ {0} /\ Word \in Nat /\ 2 * QQ_MEM_SIZE <= Word
  /\ MaxSize \in Nat

VARIABLES
  readIndex, writeIndex, produced, consumed, data,   \* QqueueFields
  ppc, val,              \* the producer: where it is, what it enqueues
  cpc, len, size, mem,   \* the consumer: where it is, its locals, its result so far
  got                    \* history: what its last operation delivered

fields == <<readIndex, writeIndex, produced, consumed, data>>
producer == <<ppc, val>>
consumer == <<cpc, len, size, mem, got>>
vars == <<fields, producer, consumer>>

\* uint16_t arithmetic.
Plus(a, b) == IF a + b < Word THEN a + b ELSE a + b - Word
Minus(a, b) == IF a >= b THEN a - b ELSE a - b + Word

\* Slot k after slot i of the ring.
Slot(i, k) == IF i + k < QQ_MEM_SIZE THEN i + k ELSE i + k - QQ_MEM_SIZE

queued == Minus(produced, consumed)

\* The fields are zeroed, the slots hold what the memory held.
Init ==
  /\ readIndex = 0 /\ writeIndex = 0 /\ produced = 0 /\ consumed = 0
  /\ data \in [0..QQ_MEM_SIZE - 1 -> Values]
  /\ ppc = "idle" /\ val \in Values
  /\ cpc = "idle" /\ len = 0 /\ size = 0 /\ mem = <<>>
  /\ got = <<>>

-----------------------------------------------------------------------------
(* enqueue.                                                                *)

\* Mutant: one value too many.
Enqueue_Overruns(v) ==
  /\ ppc = "idle" /\ queued <= QQ_MEM_SIZE
  /\ ppc' = "store" /\ val' = v
  /\ UNCHANGED <<fields, consumer>>

\* It returns 0 when the ring is full.
Enqueue(v) ==
  /\ ppc = "idle" /\ queued < QQ_MEM_SIZE
  /\ ppc' = "store" /\ val' = v
  /\ UNCHANGED <<fields, consumer>>

Store ==
  /\ ppc = "store" /\ ppc' = "publish"
  /\ data' = [data EXCEPT ![writeIndex] = val]
  /\ writeIndex' = writeIndex + 1
  /\ UNCHANGED <<val, readIndex, produced, consumed, consumer>>

Publish ==
  /\ ppc = "publish" /\ ppc' = "wrap"
  /\ produced' = Plus(produced, 1)
  /\ UNCHANGED <<val, readIndex, writeIndex, consumed, data, consumer>>

Wrap ==
  /\ ppc = "wrap" /\ ppc' = "idle"
  /\ writeIndex' = IF writeIndex = QQ_MEM_SIZE THEN 0 ELSE writeIndex
  /\ UNCHANGED <<val, readIndex, produced, consumed, data, consumer>>

-----------------------------------------------------------------------------
(* dequeue, readAll and flush.                                             *)

\* It returns 0 when the ring is empty.
Dequeue ==
  /\ cpc = "idle" /\ queued # 0
  /\ cpc' = "take"
  /\ UNCHANGED <<fields, producer, len, size, mem, got>>

TakeOne ==
  /\ cpc = "take" /\ cpc' = "count"
  /\ mem' = <<data[readIndex]>>
  /\ readIndex' = readIndex + 1
  /\ UNCHANGED <<writeIndex, produced, consumed, data, producer, len, size, got>>

CountOne ==
  /\ cpc = "count" /\ cpc' = "wrap"
  /\ consumed' = Plus(consumed, 1) /\ got' = mem
  /\ UNCHANGED <<readIndex, writeIndex, produced, data, producer, len, size, mem>>

WrapOne ==
  /\ cpc = "wrap" /\ cpc' = "idle"
  /\ readIndex' = IF readIndex = QQ_MEM_SIZE THEN 0 ELSE readIndex
  /\ UNCHANGED <<writeIndex, produced, consumed, data, producer, len, size, mem, got>>

\* flush is readAll without a buffer.
ReadAll(s) ==
  /\ cpc = "idle" /\ cpc' = "read"
  /\ len' = queued /\ size' = s /\ mem' = <<>>
  /\ UNCHANGED <<fields, producer, got>>

\* One round of the loop.
ReadNext ==
  /\ cpc = "read" /\ Len(mem) < len /\ Len(mem) < size
  /\ mem' = Append(mem, data[Slot(readIndex, Len(mem))])
  /\ UNCHANGED <<fields, producer, cpc, len, size, got>>

\* Mutant: the producer's counter is read again.
Drop_Again ==
  /\ cpc = "read" /\ (Len(mem) = len \/ Len(mem) = size)
  /\ cpc' = "advance"
  /\ consumed' = produced /\ got' = mem
  /\ UNCHANGED <<readIndex, writeIndex, produced, data, producer, len, size, mem>>

\* "flush the rest": what was counted at the start, not what came since.
Drop ==
  /\ cpc = "read" /\ (Len(mem) = len \/ Len(mem) = size)
  /\ cpc' = "advance"
  /\ consumed' = Plus(consumed, len) /\ got' = mem
  /\ UNCHANGED <<readIndex, writeIndex, produced, data, producer, len, size, mem>>

Advance ==
  /\ cpc = "advance" /\ cpc' = "fold"
  /\ readIndex' = readIndex + len
  /\ UNCHANGED <<writeIndex, produced, consumed, data, producer, len, size, mem, got>>

\* Mutant: > for >=.
Fold_OffByOne ==
  /\ cpc = "fold" /\ cpc' = "idle"
  /\ readIndex' = IF readIndex > QQ_MEM_SIZE THEN readIndex - QQ_MEM_SIZE ELSE readIndex
  /\ UNCHANGED <<writeIndex, produced, consumed, data, producer, len, size, mem, got>>

Fold ==
  /\ cpc = "fold" /\ cpc' = "idle"
  /\ readIndex' = IF readIndex >= QQ_MEM_SIZE THEN readIndex - QQ_MEM_SIZE ELSE readIndex
  /\ UNCHANGED <<writeIndex, produced, consumed, data, producer, len, size, mem, got>>

-----------------------------------------------------------------------------
Producer == (\E v \in Values : Enqueue(v)) \/ Store \/ Publish \/ Wrap
Consumer == Dequeue \/ TakeOne \/ CountOne \/ WrapOne
              \/ (\E s \in 0..MaxSize : ReadAll(s)) \/ ReadNext \/ Drop \/ Advance \/ Fold

Next == Producer \/ Consumer

Spec == Init /\ [][Next]_vars

-----------------------------------------------------------------------------
(* Properties.                                                             *)

FieldsTypeOK ==
  /\ readIndex \in 0..2 * QQ_MEM_SIZE - 1 /\ writeIndex \in 0..QQ_MEM_SIZE
  /\ produced \in 0..Word - 1 /\ consumed \in 0..Word - 1
  /\ data \in [0..QQ_MEM_SIZE - 1 -> Values]

LocalsTypeOK ==
  /\ ppc \in {"idle", "store", "publish", "wrap"} /\ val \in Values
  /\ cpc \in {"idle", "take", "count", "wrap", "read", "advance", "fold"}
  /\ len \in 0..QQ_MEM_SIZE /\ size \in 0..MaxSize
  /\ mem \in Seq(Values) /\ got \in Seq(Values)

\* Every field and local has its type: readIndex + len fits, every slot that is read
\* or written exists.
TypeOK == FieldsTypeOK /\ LocalsTypeOK

\* The oldest slot that still counts as full: readIndex, but for the step between
\* moving readIndex and counting.
First ==
  IF cpc = "count" THEN readIndex - 1
  ELSE Slot(readIndex, IF cpc = "advance" THEN len ELSE 0)

\* The values in the ring, oldest first.
Contents == [i \in 1..queued |-> data[Slot(First, i - 1)]]

Fifo == INSTANCE QqueueFifo WITH queue <- Contents, got <- got, Capacity <- QQ_MEM_SIZE

\* The two cores see a bounded FIFO: nothing is lost, repeated, reordered or torn,
\* however their steps interleave and however often the counters wrap around.
IsFifo == Fifo!FifoSpec

-----------------------------------------------------------------------------
(* The invariant IsFifo rests on, in three parts.                          *)

\* The next slot to store into is the one after the last full slot.
IndexInv ==
  /\ queued <= QQ_MEM_SIZE
  /\ Slot(First, queued) = IF ppc = "publish" THEN writeIndex - 1 ELSE Slot(writeIndex, 0)

ProducerInv ==
  /\ ppc \in {"idle", "store"} => writeIndex < QQ_MEM_SIZE
  /\ ppc \in {"store", "publish"} => val \in Values /\ queued < QQ_MEM_SIZE
  /\ ppc \in {"publish", "wrap"} => writeIndex > 0
  /\ ppc = "publish" => data[writeIndex - 1] = val

ConsumerInv ==
  /\ cpc \in {"idle", "take", "read", "advance"} => readIndex < QQ_MEM_SIZE
  /\ cpc \in {"count", "wrap"} => readIndex \in 1..QQ_MEM_SIZE
  /\ cpc \in {"take", "count"} => queued > 0
  /\ cpc = "read" => len <= queued /\ Len(mem) <= len /\ Len(mem) <= size
  /\ cpc = "count" => mem = <<Contents[1]>>
  /\ cpc = "read" => \A i \in 1..Len(mem) : mem[i] = Contents[i]

\* The two indices and the two counters agree: what is counted lies between the
\* indices, and what a core is about to publish or deliver is what the ring holds.
RingInv == IndexInv /\ ProducerInv /\ ConsumerInv
=============================================================================
