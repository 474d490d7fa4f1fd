------------------------------ MODULE ChirpCodec ------------------------------
(***************************************************************************)
(* How Chirp writes a list of arguments into its buffer (vserialize) and   *)
(* finds them again (deserializeParse, loadArgs).  An argument has a kind, *)
(* the size of its scalar or of an element, the number of its elements,    *)
(* and may be a hint.  A byte is a record that says what it is: a type, a  *)
(* part of a length, the start code, a field of the header, padding, the   *)
(* null that ends a string, or the k-th byte of the data of argument a of  *)
(* message m.                                                              *)
(***************************************************************************)
EXTENDS Integers, SequencesExt, Loops

CONSTANTS
  CRP_BUFSIZE,    \* the buffer's first size, and what it grows by
  CRP_MAX_ARGS

m_headerLen == 12    \* on an error-corrected link
CRP_BUFPAD == 8

\* An argument and its type byte.
Arg(kind, size, n, hint) == [kind |-> kind, size |-> size, n |-> n, hint |-> hint]
TypeByte(arg) == [is |-> "type", kind |-> arg.kind, size |-> arg.size, hint |-> arg.hint]
RespInt == Arg("scalar", 4, 1, FALSE)

\* What vserialize has a branch for: there is none for a number of 8 bytes.  No string is
\* a hint: nothing sends an HSTRING, which loadArgs would take for an array.
IsArg(arg) ==
  /\ arg = Arg(arg.kind, arg.size, arg.n, arg.hint) /\ arg.n \in Nat /\ arg.hint \in BOOLEAN
  /\ \/ arg.kind = "scalar" /\ arg.size \in {1, 2, 4} /\ arg.n = 1
     \/ arg.kind = "string" /\ arg.size = 1 /\ ~arg.hint
     \/ arg.kind = "array" /\ arg.size \in {1, 2, 4, 8}

PadByte == [is |-> "pad"]
NullByte == [is |-> "null"]
Padding(n) == [k \in 1..n |-> PadByte]
Length(n) == [k \in 1..4 |-> [is |-> "length", n |-> n, k |-> k]]
DataBytes(m, a, n) == [k \in 1..n |-> [is |-> "data", m |-> m, a |-> a, k |-> k]]

\* ALIGN.
Align(i, n) == ((i + n - 1) \div n) * n

-----------------------------------------------------------------------------
(* Out.  A state is the bytes written and the size of the buffer.          *)

\* Mutant: the type stays before the padding.
Aligned_TypeBefore(bytes, n) == bytes \o Padding(Align(Len(bytes), n) - Len(bytes))

\* Padding up to a multiple of n; the byte before the data is the type again.
Aligned(bytes, n) ==
  LET padded == bytes \o Padding(Align(Len(bytes), n) - Len(bytes))
  IN [padded EXCEPT ![Len(padded)] = bytes[Len(bytes)]]

\* RESIZE_BUF: room is what vserialize believes it has, which is less than the buffer
\* by the header until the buffer first grows.
Resize(st, size) ==
  IF size > st.room - CRP_BUFPAD
    THEN [st EXCEPT !.room = size + CRP_BUFSIZE, !.bufSize = size + CRP_BUFSIZE]
    ELSE st

\* What is appended before the buffer is next looked at, and whether it was held.
Put(st, bytes) == [st EXCEPT !.bytes = bytes, !.held = @ /\ Len(bytes) <= st.bufSize]

\* Mutant: the buffer grows only when the argument has been written.
Write_ThenResize(st, more) ==
  Resize(Put(st, st.bytes \o more), Len(st.bytes) + Len(more))

\* What is appended after the buffer is grown for it.
Write(st, more) ==
  Put(Resize(st, Len(st.bytes) + Len(more)), st.bytes \o more)

\* Argument a of message m.
WriteArg(st, m, a, arg) ==
  LET typed == Append(st.bytes, TypeByte(arg))
      data == DataBytes(m, a, arg.size * arg.n)
  IN CASE arg.kind = "scalar" -> Put(st, Aligned(typed, arg.size) \o data)
       [] arg.kind = "string" -> Write(Put(st, typed), Append(data, NullByte))
       [] arg.kind = "array" ->
            LET counted == Aligned(typed, 4) \o Length(arg.n)
            IN Write(Put(st, counted), Padding(Align(Len(counted), arg.size) - Len(counted)) \o data)

\* One turn: a hint is written, and taken back where the other side does not ask for it.
WriteNext(list, st, a) ==
  LET arg == list.args[a]
      written == WriteArg(st, list.m, a, arg)
      kept == IF arg.hint /\ ~list.hinformer THEN [written EXCEPT !.bytes = st.bytes] ELSE written
  IN Resize(kept, Len(kept.bytes))

vserialize(list, header, bufSize) ==
  Loop(WriteNext, list, [bytes |-> header, room |-> bufSize - Len(header), bufSize |-> bufSize, held |-> TRUE],
       0, Len(list.args))

-----------------------------------------------------------------------------
(* In.                                                                     *)

Garbage == [is |-> "garbage"]
TooMany == [is |-> "too many"]
Found(type, data) == [is |-> "found", type |-> type, data |-> data]

\* One turn of deserializeParse, and loadArgs: the type of an argument is the byte before
\* its data or its length.  i counts the bytes before, a the pointers stored.  Where the
\* bytes are no arguments, what they would be taken for is garbage.  The count of pointers
\* is compared with CRP_MAX_ARGS for equality: see IsMessage for what never steps over it.
ParseNext(bytes, st, turn) ==
  LET type == bytes[st.i + 1]
      size == type.size
      at == CASE type.kind = "scalar" -> Align(st.i + 1, size)
              [] type.kind = "string" -> st.i + 1
              [] type.kind = "array" -> Align(st.i + 1, 4)
      first == IF type.kind = "array" THEN Align(at + 4, size) ELSE at
      nulls == {k \in first + 1..Len(bytes) : bytes[k] = NullByte}
      known == CASE type.kind = "scalar" -> first + size <= Len(bytes)
                 [] type.kind = "string" -> nulls # {}
                 [] type.kind = "array" -> at + 4 <= Len(bytes) /\ bytes[at + 1].is = "length"
      count == CASE type.kind = "scalar" -> size
                 [] type.kind = "string" -> Min(nulls) - first - 1
                 [] type.kind = "array" -> bytes[at + 1].n * size
      after == IF type.kind = "string" THEN first + count + 1 ELSE first + count
      stop(with) == [st EXCEPT !.i = Len(bytes), !.found = Append(@, with)]
  IN IF st.i >= Len(bytes) THEN st
     ELSE IF st.a = CRP_MAX_ARGS THEN stop(TooMany)
     ELSE IF type.is # "type" THEN stop(Garbage)
     ELSE IF ~known THEN stop(Garbage)
     ELSE IF after > Len(bytes) THEN stop(Garbage)
     ELSE [i |-> after, a |-> st.a + (IF type.kind = "array" THEN 2 ELSE 1),
           found |-> Append(st.found, Found(bytes[at], SubSeq(bytes, first + 1, first + count)))]

\* Each turn takes at least a byte.
Parse(bytes) == Loop(ParseNext, bytes, [i |-> 0, a |-> 0, found |-> <<>>], 0, Len(bytes)).found
=============================================================================
