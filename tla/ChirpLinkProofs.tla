--------------------------- MODULE ChirpLinkProofs ---------------------------
(***************************************************************************)
(* What is proved of messages between two Chirps: that what the receiver   *)
(* finds in an assembled message are the arguments put in, for any list of *)
(* them, and that messages arrive as they were sent and in their order,    *)
(* for any messages, number of attempts and size of transfers.             *)
(***************************************************************************)
EXTENDS ChirpLink, FiniteSetTheorems, TLAPS

Writing == INSTANCE Recursion WITH Step <- WriteNext
Parsing == INSTANCE Recursion WITH Step <- ParseNext
Telling == INSTANCE Recursion WITH Step <- Tell

LEMMA Sizes ==
  /\ CRP_BUFSIZE \in Nat /\ CRP_BUFPAD <= CRP_BUFSIZE /\ m_headerLen + 4 + CRP_BUFPAD <= CRP_BUFSIZE
  /\ CRP_MAX_HEADER_LEN \in Nat /\ m_headerLen < CRP_MAX_HEADER_LEN /\ CRP_MAX_ARGS \in Nat \ {0}
  /\ m_retries \in Nat \ {0} /\ MaxMessages \in Nat \ {0}
BY LinkAssumption DEF m_headerLen, CRP_BUFPAD

-----------------------------------------------------------------------------
(* Bytes and lists of them.                                                *)

StartByte == [is |-> "start"]

Types == {"call", "response", "xdata"}

\* Every byte but the start code, and every byte.
Plain == {PadByte, NullByte}
         \cup [is : {"header"}, message : Types, length : Int]
         \cup [is : {"type"}, kind : {"scalar", "string", "array"}, size : {1, 2, 4, 8}, hint : BOOLEAN]
         \cup [is : {"length"}, n : Nat, k : Nat]
         \cup [is : {"data"}, m : Nat, a : Nat, k : Nat]
Byte == Plain \cup {StartByte}

LEMMA PlainBytes ==
  /\ PadByte \in Plain /\ NullByte \in Plain
  /\ \A arg : IsArg(arg) => TypeByte(arg) \in Plain
  /\ \A n \in Nat : \A k \in Nat : [is |-> "length", n |-> n, k |-> k] \in Plain
  /\ \A m \in Nat : \A a \in Nat : \A k \in Nat : [is |-> "data", m |-> m, a |-> a, k |-> k] \in Plain
  /\ \A t \in Types : \A n \in Int : [is |-> "header", message |-> t, length |-> n] \in Plain
<1>1. ASSUME NEW arg, IsArg(arg) PROVE TypeByte(arg) \in Plain
  <2>1. arg.kind \in {"scalar", "string", "array"} /\ arg.size \in {1, 2, 4, 8} /\ arg.hint \in BOOLEAN
    BY <1>1 DEF IsArg
  <2> QED BY <2>1 DEF TypeByte, Plain
<1> QED BY <1>1 DEF Plain

LEMMA StartIsNotPlain == StartByte \notin Plain
<1>1. ASSUME NEW b \in Plain PROVE b.is \in {"pad", "null", "header", "type", "length", "data"}
  BY DEF Plain, PadByte, NullByte
<1>2. StartByte.is = "start"
  BY DEF StartByte
<1> QED BY <1>1, <1>2

LEMMA ByteKinds ==
  ASSUME NEW b \in Plain
  PROVE  /\ b.is = "pad" => b = PadByte
         /\ b.is = "null" <=> b = NullByte
BY DEF Plain, PadByte, NullByte

LEMMA PlainList == ASSUME NEW s \in Seq(Plain) PROVE s \in Seq(Byte)
BY DEF Byte

LEMMA Concat ==
  ASSUME NEW S, NEW s \in Seq(S), NEW t \in Seq(S)
  PROVE  /\ s \o t \in Seq(S) /\ Len(s \o t) = Len(s) + Len(t)
         /\ \A k \in 1..Len(s) : (s \o t)[k] = s[k]
         /\ \A k \in 1..Len(t) : (s \o t)[Len(s) + k] = t[k]
OBVIOUS

LEMMA Appended ==
  ASSUME NEW S, NEW s \in Seq(S), NEW e \in S
  PROVE  /\ Append(s, e) \in Seq(S) /\ Len(Append(s, e)) = Len(s) + 1
         /\ \A k \in 1..Len(s) : Append(s, e)[k] = s[k]
         /\ Append(s, e)[Len(s) + 1] = e
OBVIOUS

LEMMA ListOf ==
  ASSUME NEW S, NEW n \in Nat, NEW f \in [1..n -> S]
  PROVE  f \in Seq(S) /\ Len(f) = n
OBVIOUS

LEMMA Slice ==
  ASSUME NEW S, NEW s \in Seq(S), NEW i \in Nat, NEW j \in Nat, i <= j, j <= Len(s)
  PROVE  /\ SubSeq(s, i + 1, j) \in Seq(S) /\ Len(SubSeq(s, i + 1, j)) = j - i
         /\ \A k \in 1..j - i : SubSeq(s, i + 1, j)[k] = s[i + k]
OBVIOUS

LEMMA SameList ==
  ASSUME NEW S, NEW s \in Seq(S), NEW t \in Seq(S), Len(s) = Len(t), \A k \in 1..Len(s) : s[k] = t[k]
  PROVE  s = t
OBVIOUS

\* What is written behind the bytes already there.
Extends(b, c) ==
  /\ c \in Seq(Byte) /\ Len(b) <= Len(c)
  /\ \A k \in 1..Len(b) : c[k] = b[k]
  /\ \A k \in Len(b) + 1..Len(c) : c[k] \in Plain

LEMMA ExtendsItself == ASSUME NEW b \in Seq(Byte) PROVE Extends(b, b)
BY DEF Extends

LEMMA ExtendsTwice ==
  ASSUME NEW b \in Seq(Byte), NEW c, NEW d, Extends(b, c), Extends(c, d)
  PROVE  Extends(b, d)
<1>1. c \in Seq(Byte) /\ Len(b) <= Len(c) /\ d \in Seq(Byte) /\ Len(c) <= Len(d)
  BY DEF Extends
<1>2. Len(b) \in Nat /\ Len(c) \in Nat /\ Len(d) \in Nat
  BY <1>1
<1>3. \A k \in 1..Len(b) : d[k] = b[k]
  BY <1>1, <1>2 DEF Extends
<1>4. \A k \in Len(b) + 1..Len(d) : d[k] \in Plain
  <2> SUFFICES ASSUME NEW k \in Len(b) + 1..Len(d) PROVE d[k] \in Plain
    OBVIOUS
  <2>1. CASE k <= Len(c)
    <3>1. k \in 1..Len(c) /\ k \in Len(b) + 1..Len(c)
      BY <1>2, <2>1
    <3> QED BY <3>1 DEF Extends
  <2>2. CASE ~(k <= Len(c))
    <3>1. k \in Len(c) + 1..Len(d)
      BY <1>2, <2>2
    <3> QED BY <3>1 DEF Extends
  <2> QED BY <2>1, <2>2
<1> QED BY <1>1, <1>2, <1>3, <1>4 DEF Extends

LEMMA ExtendsBy ==
  ASSUME NEW b \in Seq(Byte), NEW t \in Seq(Plain)
  PROVE  Extends(b, b \o t) /\ Len(b \o t) = Len(b) + Len(t)
<1>1. t \in Seq(Byte)
  BY DEF Byte
<1>2. /\ b \o t \in Seq(Byte) /\ Len(b \o t) = Len(b) + Len(t)
      /\ \A k \in 1..Len(b) : (b \o t)[k] = b[k]
      /\ \A k \in 1..Len(t) : (b \o t)[Len(b) + k] = t[k]
  BY <1>1, Concat
<1>3. \A k \in Len(b) + 1..Len(b \o t) : (b \o t)[k] \in Plain
  <2> SUFFICES ASSUME NEW k \in Len(b) + 1..Len(b \o t) PROVE (b \o t)[k] \in Plain
    OBVIOUS
  <2>1. k - Len(b) \in 1..Len(t) /\ Len(b) + (k - Len(b)) = k
    BY <1>2
  <2>2. t[k - Len(b)] \in Plain
    BY <2>1
  <2> QED BY <1>2, <2>1, <2>2
<1> QED BY <1>2, <1>3 DEF Extends

LEMMA BytesOfData ==
  ASSUME NEW m \in Nat, NEW a \in Nat, NEW n \in Nat
  PROVE  /\ DataBytes(m, a, n) \in Seq(Plain) /\ Len(DataBytes(m, a, n)) = n
         /\ \A k \in 1..n : DataBytes(m, a, n)[k] = [is |-> "data", m |-> m, a |-> a, k |-> k]
<1>1. \A k \in 1..n : [is |-> "data", m |-> m, a |-> a, k |-> k] \in Plain
  BY PlainBytes
<1>2. DataBytes(m, a, n) \in [1..n -> Plain]
  BY <1>1 DEF DataBytes
<1>3. \A k \in 1..n : DataBytes(m, a, n)[k] = [is |-> "data", m |-> m, a |-> a, k |-> k]
  BY DEF DataBytes
<1> QED BY <1>2, <1>3, ListOf

LEMMA ListsOfBytes ==
  /\ \A n \in Nat : Padding(n) \in Seq(Plain) /\ Len(Padding(n)) = n /\ \A k \in 1..n : Padding(n)[k] = PadByte
  /\ \A n \in Nat : /\ Length(n) \in Seq(Plain) /\ Len(Length(n)) = 4
                    /\ Length(n)[1] = [is |-> "length", n |-> n, k |-> 1]
  /\ \A m \in Nat : \A a \in Nat : \A n \in Nat :
       /\ DataBytes(m, a, n) \in Seq(Plain) /\ Len(DataBytes(m, a, n)) = n
       /\ \A k \in 1..n : DataBytes(m, a, n)[k] = [is |-> "data", m |-> m, a |-> a, k |-> k]
<1>1. ASSUME NEW n \in Nat
      PROVE  Padding(n) \in Seq(Plain) /\ Len(Padding(n)) = n /\ \A k \in 1..n : Padding(n)[k] = PadByte
  <2>1. Padding(n) \in [1..n -> Plain] /\ \A k \in 1..n : Padding(n)[k] = PadByte
    BY PlainBytes DEF Padding
  <2> QED BY <2>1, ListOf
<1>2. ASSUME NEW n \in Nat
      PROVE  /\ Length(n) \in Seq(Plain) /\ Len(Length(n)) = 4
             /\ Length(n)[1] = [is |-> "length", n |-> n, k |-> 1]
  <2>1. \A k \in 1..4 : [is |-> "length", n |-> n, k |-> k] \in Plain
    BY PlainBytes
  <2>2. Length(n) \in [1..4 -> Plain]
    BY <2>1 DEF Length
  <2>3. Length(n)[1] = [is |-> "length", n |-> n, k |-> 1]
    BY DEF Length
  <2> QED BY <2>2, <2>3, ListOf
<1>3. ASSUME NEW m \in Nat, NEW a \in Nat, NEW n \in Nat
      PROVE  /\ DataBytes(m, a, n) \in Seq(Plain) /\ Len(DataBytes(m, a, n)) = n
             /\ \A k \in 1..n : DataBytes(m, a, n)[k] = [is |-> "data", m |-> m, a |-> a, k |-> k]
  BY BytesOfData
<1> QED BY <1>1, <1>2, <1>3

\* Padding goes to the next multiple, and commutes with what is a multiple already.
LEMMA Alignment ==
  ASSUME NEW i \in Nat, NEW n \in {1, 2, 4, 8}
  PROVE  /\ Align(i, n) \in Nat /\ i <= Align(i, n) /\ Align(i, n) < i + n
         /\ n # 8 => Align(i + 12, n) = Align(i, n) + 12
         /\ Align(i + 8, n) = Align(i, n) + 8
<1>1. CASE n = 1
  BY <1>1 DEF Align
<1>2. CASE n = 2
  BY <1>2 DEF Align
<1>4. CASE n = 4
  BY <1>4 DEF Align
<1>8. CASE n = 8
  BY <1>8 DEF Align
<1> QED BY <1>1, <1>2, <1>4, <1>8

LEMMA AlignedBytes ==
  ASSUME NEW b \in Seq(Byte), Len(b) > 0, b[Len(b)] \in Plain, NEW n \in {1, 2, 4, 8}
  PROVE  /\ Extends(b, Aligned(b, n)) /\ Len(Aligned(b, n)) = Align(Len(b), n)
         /\ Aligned(b, n)[Align(Len(b), n)] = b[Len(b)]
<1> DEFINE l == Len(b)
           e == Align(l, n)
           padded == b \o Padding(e - l)
<1>1. l \in Nat /\ l > 0 /\ e \in Nat /\ l <= e
  <2>1. l \in Nat /\ l > 0
    OBVIOUS
  <2> HIDE DEF l
  <2> QED BY <2>1, Alignment
<1>2. e - l \in Nat
  BY <1>1
<1> HIDE DEF e
<1>3. Padding(e - l) \in Seq(Plain) /\ Len(Padding(e - l)) = e - l
  BY <1>2, ListsOfBytes
<1>4. Extends(b, padded) /\ Len(padded) = l + (e - l)
  BY <1>3, ExtendsBy
<1>5. Len(padded) = e
  BY <1>1, <1>4
<1> HIDE DEF padded
<1>6. Aligned(b, n) = [padded EXCEPT ![e] = b[l]]
  BY <1>5 DEF Aligned, padded, e
<1> DEFINE c == [padded EXCEPT ![e] = b[l]]
<1>7. padded \in Seq(Byte) /\ e \in 1..Len(padded) /\ b[l] \in Byte
  BY <1>1, <1>4, <1>5 DEF Extends, Byte
<1>8. /\ c \in Seq(Byte) /\ Len(c) = e /\ c[e] = b[l]
      /\ \A k \in 1..e : k # e => c[k] = padded[k]
  BY <1>5, <1>7
<1> HIDE DEF c
<1>9. \A k \in 1..l : c[k] = b[k]
  BY <1>1, <1>4, <1>5, <1>8 DEF Extends
<1>10. \A k \in l + 1..e : c[k] \in Plain
  BY <1>1, <1>4, <1>5, <1>8 DEF Extends
<1>11. Extends(b, c)
  BY <1>1, <1>8, <1>9, <1>10 DEF Extends
<1> QED BY <1>6, <1>8, <1>11 DEF c, e

-----------------------------------------------------------------------------
(* Where an argument is in a list of bytes, as vserialize writes it.       *)

\* Behind i bytes: the byte before the data or the length, the byte before the data, and
\* the byte with which the argument ends.
TypeAt(arg, i) ==
  IF arg.kind = "scalar" THEN Align(i + 1, arg.size)
  ELSE IF arg.kind = "string" THEN i + 1 ELSE Align(i + 1, 4)
First(arg, i) == IF arg.kind = "array" THEN Align(TypeAt(arg, i) + 4, arg.size) ELSE TypeAt(arg, i)
Count(arg) == arg.size * arg.n
After(arg, i) == IF arg.kind = "string" THEN First(arg, i) + Count(arg) + 1 ELSE First(arg, i) + Count(arg)

HoldsArg(b, i, m, a, arg) ==
  /\ b[i + 1] = TypeByte(arg) /\ b[TypeAt(arg, i)] = TypeByte(arg)
  /\ \A k \in 1..Count(arg) : b[First(arg, i) + k] = [is |-> "data", m |-> m, a |-> a, k |-> k]
  /\ arg.kind = "array" => b[TypeAt(arg, i) + 1] = [is |-> "length", n |-> arg.n, k |-> 1]
  /\ arg.kind = "string" => b[After(arg, i)] = NullByte

LEMMA ArgKinds ==
  ASSUME NEW arg, IsArg(arg)
  PROVE  /\ arg.kind \in {"scalar", "string", "array"} /\ arg.n \in Nat /\ arg.size \in {1, 2, 4, 8}
         /\ arg.kind = "scalar" => arg.size \in {1, 2, 4} /\ arg.n = 1
         /\ arg.kind = "string" => arg.size = 1
         /\ Count(arg) \in Nat /\ (arg.kind = "scalar" => Count(arg) = arg.size)
<1>1. /\ arg.kind \in {"scalar", "string", "array"} /\ arg.n \in Nat /\ arg.size \in {1, 2, 4, 8}
      /\ arg.kind = "scalar" => arg.size \in {1, 2, 4} /\ arg.n = 1
      /\ arg.kind = "string" => arg.size = 1
  BY DEF IsArg
<1> DEFINE s == arg.size
           n == arg.n
<1>2. s \in {1, 2, 4, 8} /\ n \in Nat
  BY <1>1
<1> HIDE DEF s, n
<1>3. s * n \in Nat /\ (n = 1 => s * n = s)
  BY <1>2
<1>4. Count(arg) = s * n
  BY DEF Count, s, n
<1> QED BY <1>1, <1>3, <1>4 DEF s, n

LEMMA Places ==
  ASSUME NEW arg, IsArg(arg), NEW i \in Nat
  PROVE  /\ TypeAt(arg, i) \in Nat /\ First(arg, i) \in Nat /\ After(arg, i) \in Nat
         /\ i + 1 <= TypeAt(arg, i) /\ TypeAt(arg, i) <= i + 4
         /\ TypeAt(arg, i) <= First(arg, i)
         /\ arg.kind = "array" => TypeAt(arg, i) + 4 <= First(arg, i)
         /\ arg.kind = "scalar" => TypeAt(arg, i) < i + 1 + arg.size
         /\ First(arg, i) + Count(arg) <= After(arg, i)
<1>1. /\ arg.kind \in {"scalar", "string", "array"} /\ arg.n \in Nat /\ arg.size \in {1, 2, 4, 8}
      /\ arg.kind = "scalar" => arg.size \in {1, 2, 4} /\ arg.n = 1
      /\ Count(arg) \in Nat
  BY ArgKinds
<1> DEFINE s == arg.size
           c == Count(arg)
           t == TypeAt(arg, i)
           f == First(arg, i)
<1>2. c \in Nat /\ i + 1 \in Nat /\ s \in {1, 2, 4, 8}
  BY <1>1
<1>3. t \in Nat /\ i + 1 <= t /\ t <= i + 4 /\ (arg.kind = "scalar" => t < i + 1 + s)
  <2>1. CASE arg.kind = "scalar"
    <3>1. t = Align(i + 1, s) /\ s \in {1, 2, 4}
      BY <1>1, <2>1 DEF TypeAt
    <3>2. Align(i + 1, s) \in Nat /\ i + 1 <= Align(i + 1, s) /\ Align(i + 1, s) < i + 1 + s
      BY <1>2, Alignment
    <3> HIDE DEF t, s
    <3> QED BY <3>1, <3>2
  <2>2. CASE arg.kind = "string"
    BY <2>2 DEF TypeAt
  <2>3. CASE arg.kind = "array"
    <3>1. t = Align(i + 1, 4)
      BY <2>3 DEF TypeAt
    <3>2. Align(i + 1, 4) \in Nat /\ i + 1 <= Align(i + 1, 4) /\ Align(i + 1, 4) < i + 1 + 4
      BY <1>2, Alignment
    <3> HIDE DEF t
    <3> QED BY <2>3, <3>1, <3>2
  <2> HIDE DEF t, s
  <2> QED BY <1>1, <2>1, <2>2, <2>3
<1>4. f \in Nat /\ t <= f /\ (arg.kind = "array" => t + 4 <= f)
  <2>1. CASE arg.kind = "array"
    <3>1. f = Align(t + 4, s)
      BY <2>1 DEF First
    <3>2. t + 4 \in Nat
      BY <1>3
    <3> HIDE DEF t, s, f
    <3>3. Align(t + 4, s) \in Nat /\ t + 4 <= Align(t + 4, s)
      BY <1>2, <3>2, Alignment
    <3> QED BY <1>3, <3>1, <3>3
  <2>2. CASE arg.kind # "array"
    <3>1. f = t
      BY <2>2 DEF First
    <3> QED BY <1>3, <2>2, <3>1
  <2> QED BY <2>1, <2>2
<1>5. After(arg, i) \in {f + c, f + c + 1}
  BY DEF After
<1> HIDE DEF t, s, f, c
<1>6. After(arg, i) \in Nat /\ f + c <= After(arg, i)
  BY <1>2, <1>4, <1>5
<1> QED BY <1>3, <1>4, <1>6 DEF t, s, f, c

\* A byte behind those that c keeps of b is where it was.
LEMMA Kept ==
  ASSUME NEW b, NEW c, Extends(b, c), NEW k \in 1..Len(b)
  PROVE  c[k] = b[k]
BY DEF Extends

LEMMA TypedBytes ==
  ASSUME NEW b \in Seq(Byte), NEW arg, IsArg(arg)
  PROVE  LET typed == Append(b, TypeByte(arg))
         IN /\ typed \in Seq(Byte) /\ Extends(b, typed) /\ Len(typed) = Len(b) + 1
            /\ typed[Len(b) + 1] = TypeByte(arg) /\ TypeByte(arg) \in Plain
<1> DEFINE t == TypeByte(arg)
           c == Append(b, t)
<1>1. t \in Plain /\ t \in Byte
  BY PlainBytes DEF Byte
<1> HIDE DEF t
<1>2. /\ c \in Seq(Byte) /\ Len(c) = Len(b) + 1 /\ c[Len(b) + 1] = t
      /\ \A k \in 1..Len(b) : c[k] = b[k]
  BY <1>1, Appended
<1> HIDE DEF c
<1>3. \A k \in Len(b) + 1..Len(c) : c[k] \in Plain
  <2> SUFFICES ASSUME NEW k \in Len(b) + 1..Len(c) PROVE c[k] \in Plain
    OBVIOUS
  <2>1. k = Len(b) + 1
    BY <1>2
  <2> QED BY <1>1, <1>2, <2>1
<1>4. Extends(b, c)
  BY <1>2, <1>3 DEF Extends
<1> QED BY <1>1, <1>2, <1>4 DEF c, t

\* What vserialize writes of an argument behind b.
LEMMA ScalarBytes ==
  ASSUME NEW b \in Seq(Byte), NEW arg, IsArg(arg), arg.kind = "scalar", NEW m \in Nat, NEW a \in Nat
  PROVE  LET c == Aligned(Append(b, TypeByte(arg)), arg.size) \o DataBytes(m, a, Count(arg))
         IN Extends(b, c) /\ Len(c) = After(arg, Len(b)) /\ HoldsArg(c, Len(b), m, a, arg)
<1> DEFINE l == Len(b)
           n == Count(arg)
           typed == Append(b, TypeByte(arg))
           d == Aligned(typed, arg.size)
           data == DataBytes(m, a, n)
           c == d \o data
           t == TypeAt(arg, l)
<1>1. n \in Nat /\ arg.size \in {1, 2, 4, 8} /\ l \in Nat
  BY ArgKinds
<1>2. /\ typed \in Seq(Byte) /\ Extends(b, typed) /\ Len(typed) = l + 1 /\ typed[l + 1] = TypeByte(arg)
      /\ TypeByte(arg) \in Plain
  BY TypedBytes
<1> HIDE DEF typed
<1>3. t = Align(l + 1, arg.size) /\ First(arg, l) = t /\ After(arg, l) = t + n
  BY DEF TypeAt, First, After
<1>4. Extends(typed, d) /\ Len(d) = t /\ d[t] = typed[l + 1]
  <2>1. Len(typed) > 0 /\ typed[Len(typed)] \in Plain
    BY <1>1, <1>2
  <2>2. /\ Extends(typed, Aligned(typed, arg.size)) /\ Len(Aligned(typed, arg.size)) = Align(Len(typed), arg.size)
        /\ Aligned(typed, arg.size)[Align(Len(typed), arg.size)] = typed[Len(typed)]
    BY <1>1, <1>2, <2>1, AlignedBytes
  <2> QED BY <1>2, <1>3, <2>2
<1>5. t \in Nat /\ l + 1 <= t
  BY <1>1, Places
<1> HIDE DEF d, t
<1>6. data \in Seq(Plain) /\ Len(data) = n /\ \A k \in 1..n : data[k] = [is |-> "data", m |-> m, a |-> a, k |-> k]
  <2> HIDE DEF n
  <2> QED BY <1>1, BytesOfData
<1> HIDE DEF data, n
<1>7. d \in Seq(Byte)
  BY <1>4 DEF Extends
<1>8. Extends(d, c) /\ Len(c) = t + n
  BY <1>4, <1>6, <1>7, ExtendsBy
<1>9. \A k \in 1..n : c[t + k] = [is |-> "data", m |-> m, a |-> a, k |-> k]
  <2>1. data \in Seq(Byte)
    BY <1>6 DEF Byte
  <2>2. \A k \in 1..Len(data) : (d \o data)[Len(d) + k] = data[k]
    BY <1>7, <2>1, Concat
  <2> QED BY <1>4, <1>6, <2>2
<1> HIDE DEF c
<1>10. Extends(typed, c) /\ Extends(b, c)
  BY <1>2, <1>4, <1>8, ExtendsTwice
<1>11. c[l + 1] = TypeByte(arg)
  BY <1>1, <1>2, <1>10, Kept
<1>12. c[t] = TypeByte(arg)
  <2>1. t \in 1..Len(d)
    BY <1>1, <1>4, <1>5
  <2>2. c[t] = d[t]
    BY <1>8, <2>1, Kept
  <2> QED BY <1>2, <1>4, <2>2
<1>13. HoldsArg(c, l, m, a, arg)
  BY <1>3, <1>9, <1>11, <1>12 DEF HoldsArg, n, t
<1> QED BY <1>3, <1>8, <1>10, <1>13 DEF c, d, data, n, t, typed

LEMMA StringBytes ==
  ASSUME NEW b \in Seq(Byte), NEW arg, IsArg(arg), arg.kind = "string", NEW m \in Nat, NEW a \in Nat
  PROVE  LET c == Append(b, TypeByte(arg)) \o Append(DataBytes(m, a, Count(arg)), NullByte)
         IN Extends(b, c) /\ Len(c) = After(arg, Len(b)) /\ HoldsArg(c, Len(b), m, a, arg)
<1> DEFINE l == Len(b)
           n == Count(arg)
           typed == Append(b, TypeByte(arg))
           data == DataBytes(m, a, n)
           more == Append(data, NullByte)
           c == typed \o more
<1>1. n \in Nat /\ l \in Nat
  BY ArgKinds
<1>2. /\ typed \in Seq(Byte) /\ Extends(b, typed) /\ Len(typed) = l + 1 /\ typed[l + 1] = TypeByte(arg)
  BY TypedBytes
<1> HIDE DEF typed
<1>3. TypeAt(arg, l) = l + 1 /\ First(arg, l) = l + 1 /\ After(arg, l) = l + 1 + n + 1
  BY DEF TypeAt, First, After
<1>4. data \in Seq(Plain) /\ Len(data) = n /\ \A k \in 1..n : data[k] = [is |-> "data", m |-> m, a |-> a, k |-> k]
  <2> HIDE DEF n
  <2> QED BY <1>1, BytesOfData
<1> HIDE DEF data, n
<1>5. /\ more \in Seq(Plain) /\ Len(more) = n + 1 /\ more[n + 1] = NullByte
      /\ \A k \in 1..n : more[k] = data[k]
  <2>1. NullByte \in Plain
    BY PlainBytes
  <2> QED BY <1>4, <2>1, Appended
<1> HIDE DEF more
<1>6. Extends(typed, c) /\ Len(c) = l + 1 + (n + 1)
  BY <1>2, <1>5, ExtendsBy
<1>7. \A k \in 1..n + 1 : c[l + 1 + k] = more[k]
  <2>1. more \in Seq(Byte)
    BY <1>5 DEF Byte
  <2>2. \A k \in 1..Len(more) : (typed \o more)[Len(typed) + k] = more[k]
    BY <1>2, <2>1, Concat
  <2> QED BY <1>2, <1>5, <2>2
<1> HIDE DEF c
<1>8. Extends(b, c)
  BY <1>2, <1>6, ExtendsTwice
<1>9. c[l + 1] = TypeByte(arg)
  BY <1>1, <1>2, <1>6, Kept
<1>10. \A k \in 1..n : c[l + 1 + k] = [is |-> "data", m |-> m, a |-> a, k |-> k]
  BY <1>1, <1>4, <1>5, <1>7
<1>11. c[l + 1 + n + 1] = NullByte
  <2>1. n + 1 \in 1..n + 1 /\ l + 1 + n + 1 = l + 1 + (n + 1)
    BY <1>1
  <2> QED BY <1>5, <1>7, <2>1
<1>12. HoldsArg(c, l, m, a, arg)
  BY <1>3, <1>9, <1>10, <1>11 DEF HoldsArg, n
<1>13. Len(c) = l + 1 + n + 1
  BY <1>1, <1>6
<1> QED BY <1>3, <1>8, <1>12, <1>13 DEF c, more, data, n, typed

LEMMA ArrayBytes ==
  ASSUME NEW b \in Seq(Byte), NEW arg, IsArg(arg), arg.kind = "array", NEW m \in Nat, NEW a \in Nat
  PROVE  LET counted == Aligned(Append(b, TypeByte(arg)), 4) \o Length(arg.n)
             more == Padding(Align(Len(counted), arg.size) - Len(counted)) \o DataBytes(m, a, Count(arg))
             c == counted \o more
         IN /\ counted \in Seq(Byte) /\ Len(counted) <= Len(b) + 8
            /\ more \in Seq(Plain)
            /\ Extends(b, c) /\ Len(c) = After(arg, Len(b)) /\ HoldsArg(c, Len(b), m, a, arg)
<1> DEFINE l == Len(b)
           n == Count(arg)
           typed == Append(b, TypeByte(arg))
           d == Aligned(typed, 4)
           counted == d \o Length(arg.n)
           data == DataBytes(m, a, n)
           pad == Padding(Align(Len(counted), arg.size) - Len(counted))
           more == pad \o data
           c == counted \o more
           t == TypeAt(arg, l)
           f == First(arg, l)
<1>1. n \in Nat /\ l \in Nat /\ arg.n \in Nat /\ arg.size \in {1, 2, 4, 8}
  BY ArgKinds
<1>2. /\ typed \in Seq(Byte) /\ Extends(b, typed) /\ Len(typed) = l + 1 /\ typed[l + 1] = TypeByte(arg)
      /\ TypeByte(arg) \in Plain
  BY TypedBytes
<1> HIDE DEF typed
<1>3. t = Align(l + 1, 4) /\ f = Align(t + 4, arg.size) /\ After(arg, l) = f + n
  BY DEF TypeAt, First, After
<1>4. Extends(typed, d) /\ Len(d) = t /\ d[t] = typed[l + 1]
  <2>1. Len(typed) > 0 /\ typed[Len(typed)] \in Plain
    BY <1>1, <1>2
  <2>2. /\ Extends(typed, Aligned(typed, 4)) /\ Len(Aligned(typed, 4)) = Align(Len(typed), 4)
        /\ Aligned(typed, 4)[Align(Len(typed), 4)] = typed[Len(typed)]
    BY <1>2, <2>1, AlignedBytes
  <2> QED BY <1>2, <1>3, <2>2
<1>5. t \in Nat /\ l + 1 <= t /\ t <= l + 4 /\ f \in Nat /\ t + 4 <= f
  BY <1>1, Places
<1> HIDE DEF d, t, f
<1>6. d \in Seq(Byte)
  BY <1>4 DEF Extends
<1>7. /\ Length(arg.n) \in Seq(Plain) /\ Len(Length(arg.n)) = 4
      /\ Length(arg.n)[1] = [is |-> "length", n |-> arg.n, k |-> 1]
  BY <1>1, ListsOfBytes
<1>8. Extends(d, counted) /\ Len(counted) = t + 4
  BY <1>4, <1>6, <1>7, ExtendsBy
<1>9. counted[t + 1] = [is |-> "length", n |-> arg.n, k |-> 1]
  <2>1. Length(arg.n) \in Seq(Byte)
    BY <1>7 DEF Byte
  <2>2. \A k \in 1..Len(Length(arg.n)) : (d \o Length(arg.n))[Len(d) + k] = Length(arg.n)[k]
    BY <1>6, <2>1, Concat
  <2>3. 1 \in 1..4
    OBVIOUS
  <2> QED BY <1>4, <1>7, <2>2, <2>3
<1> HIDE DEF counted
<1>10. counted \in Seq(Byte) /\ Len(counted) <= l + 8
  BY <1>1, <1>5, <1>8 DEF Extends
<1>11. pad \in Seq(Plain) /\ Len(pad) = f - (t + 4)
  <2>1. f - (t + 4) \in Nat
    BY <1>5
  <2>2. pad = Padding(f - (t + 4))
    BY <1>3, <1>8
  <2> QED BY <2>1, <2>2, ListsOfBytes
<1> HIDE DEF pad
<1>12. data \in Seq(Plain) /\ Len(data) = n /\ \A k \in 1..n : data[k] = [is |-> "data", m |-> m, a |-> a, k |-> k]
  <2> HIDE DEF n
  <2> QED BY <1>1, BytesOfData
<1> HIDE DEF data, n
<1>13. /\ more \in Seq(Plain) /\ Len(more) = f - (t + 4) + n
       /\ \A k \in 1..n : more[f - (t + 4) + k] = data[k]
  <2>1. /\ pad \o data \in Seq(Plain) /\ Len(pad \o data) = Len(pad) + Len(data)
        /\ \A k \in 1..Len(data) : (pad \o data)[Len(pad) + k] = data[k]
    <3>1. pad \in Seq(Plain) /\ data \in Seq(Plain)
      BY <1>11, <1>12
    <3> QED BY <3>1, Concat
  <2> QED BY <1>11, <1>12, <2>1
<1> HIDE DEF more
<1>14. Extends(counted, c) /\ Len(c) = t + 4 + (f - (t + 4) + n)
  BY <1>8, <1>10, <1>13, ExtendsBy
<1>15. Len(c) = f + n
  BY <1>1, <1>5, <1>14 DEF n
<1>16. \A k \in 1..n : c[f + k] = [is |-> "data", m |-> m, a |-> a, k |-> k]
  <2> SUFFICES ASSUME NEW k \in 1..n PROVE c[f + k] = [is |-> "data", m |-> m, a |-> a, k |-> k]
    OBVIOUS
  <2>1. more \in Seq(Byte)
    BY <1>13 DEF Byte
  <2>2. \A j \in 1..Len(more) : (counted \o more)[Len(counted) + j] = more[j]
    BY <1>10, <2>1, Concat
  <2>3. n \in Nat
    BY <1>1
  <2>4. f - (t + 4) + k \in 1..Len(more) /\ t + 4 + (f - (t + 4) + k) = f + k
    BY <1>5, <1>13, <2>3
  <2>5. c[f + k] = more[f - (t + 4) + k]
    BY <1>8, <2>2, <2>4
  <2> QED BY <1>12, <1>13, <2>5
<1> HIDE DEF c
<1>17. Extends(typed, c) /\ Extends(b, c) /\ Extends(d, c)
  BY <1>2, <1>4, <1>6, <1>8, <1>14, ExtendsTwice
<1>18. c[l + 1] = TypeByte(arg)
  BY <1>1, <1>2, <1>17, Kept
<1>19. c[t] = TypeByte(arg)
  <2>1. t \in 1..Len(d)
    BY <1>1, <1>4, <1>5
  <2>2. c[t] = d[t]
    BY <1>17, <2>1, Kept
  <2> QED BY <1>2, <1>4, <2>2
<1>20. c[t + 1] = [is |-> "length", n |-> arg.n, k |-> 1]
  <2>1. t + 1 \in 1..Len(counted)
    BY <1>1, <1>5, <1>8
  <2>2. c[t + 1] = counted[t + 1]
    BY <1>14, <2>1, Kept
  <2> QED BY <1>9, <2>2
<1>21. HoldsArg(c, l, m, a, arg)
  BY <1>16, <1>18, <1>19, <1>20 DEF HoldsArg, n, t, f
<1> QED BY <1>3, <1>10, <1>13, <1>15, <1>17, <1>21 DEF c, more, data, pad, counted, d, n, typed, f, t

-----------------------------------------------------------------------------
(* The buffer of vserialize.                                               *)

Writer == [bytes : Seq(Byte), room : Int, bufSize : Int, held : BOOLEAN]

Sized(st) == st.held /\ st.room <= st.bufSize /\ CRP_BUFSIZE <= st.bufSize

\* Between two arguments CRP_BUFPAD bytes are free.
Roomy(st) == Sized(st) /\ Len(st.bytes) + CRP_BUFPAD <= st.bufSize

LEMMA PutEffect ==
  ASSUME NEW st \in Writer, NEW b \in Seq(Byte)
  PROVE  /\ Put(st, b) \in Writer /\ Put(st, b).bytes = b
         /\ Sized(st) /\ Len(b) <= st.bufSize => Sized(Put(st, b))
         /\ Put(st, b).bufSize = st.bufSize
<1> DEFINE h == st.held /\ Len(b) <= st.bufSize
           w == [bytes |-> b, room |-> st.room, bufSize |-> st.bufSize, held |-> h]
<1>1. st.room \in Int /\ st.bufSize \in Int /\ h \in BOOLEAN
  BY DEF Writer
<1>2. Put(st, b) = [st EXCEPT !.bytes = b, !.held = h]
  BY Zenon DEF Put
<1>3. Sized(st) /\ Len(b) <= st.bufSize => h
  BY DEF Sized
<1> HIDE DEF h
<1>4. Put(st, b) = w
  BY <1>2 DEF Writer
<1>5. w \in Writer
  BY <1>1 DEF Writer
<1>6. Sized(st) /\ h => Sized(w)
  BY DEF Sized
<1>7. w.bytes = b /\ w.bufSize = st.bufSize
  OBVIOUS
<1> HIDE DEF w
<1> QED BY <1>3, <1>4, <1>5, <1>6, <1>7

LEMMA ResizeEffect ==
  ASSUME CRP_BUFSIZE \in Nat, CRP_BUFPAD <= CRP_BUFSIZE, NEW st \in Writer, NEW size \in Nat
  PROVE  /\ Resize(st, size) \in Writer /\ Resize(st, size).bytes = st.bytes
         /\ Sized(st) => Sized(Resize(st, size)) /\ size + CRP_BUFPAD <= Resize(st, size).bufSize
<1> DEFINE big == size + CRP_BUFSIZE
           grown == [bytes |-> st.bytes, room |-> big, bufSize |-> big, held |-> st.held]
           r == Resize(st, size)
<1>1. st.bytes \in Seq(Byte) /\ st.room \in Int /\ st.bufSize \in Int /\ st.held \in BOOLEAN
  BY DEF Writer
<1>2. big \in Int /\ size + CRP_BUFPAD <= big /\ CRP_BUFSIZE <= big
  BY DEF CRP_BUFPAD
<1>3. CASE size > st.room - CRP_BUFPAD
  <2>1. r = grown
    BY <1>3 DEF Resize, Writer
  <2> HIDE DEF r, big
  <2>2. /\ grown \in Writer /\ grown.bytes = st.bytes /\ grown.bufSize = big
        /\ (Sized(st) => Sized(grown))
    BY <1>1, <1>2 DEF Writer, Sized
  <2> QED BY <1>2, <2>1, <2>2 DEF r
<1>4. CASE ~(size > st.room - CRP_BUFPAD)
  <2>1. r = st
    BY <1>4 DEF Resize
  <2>2. Sized(st) => size + CRP_BUFPAD <= st.bufSize
    BY <1>1, <1>4 DEF Sized, CRP_BUFPAD
  <2> QED BY <2>1, <2>2
<1> QED BY <1>3, <1>4

LEMMA WriteEffect ==
  ASSUME CRP_BUFSIZE \in Nat, CRP_BUFPAD <= CRP_BUFSIZE, NEW st \in Writer, NEW more \in Seq(Byte)
  PROVE  /\ Write(st, more) \in Writer /\ Write(st, more).bytes = st.bytes \o more
         /\ Sized(st) => Sized(Write(st, more))
<1> DEFINE size == Len(st.bytes) + Len(more)
           r == Resize(st, size)
           b == st.bytes \o more
<1>1. st.bytes \in Seq(Byte)
  BY DEF Writer
<1>2. size \in Nat /\ b \in Seq(Byte) /\ Len(b) = size
  BY <1>1, Concat
<1>3. Write(st, more) = Put(r, b)
  BY DEF Write
<1> HIDE DEF size, b
<1>4. r \in Writer /\ r.bytes = st.bytes /\ (Sized(st) => Sized(r) /\ size + CRP_BUFPAD <= r.bufSize)
  BY <1>2, ResizeEffect
<1> HIDE DEF r
<1>5. Put(r, b) \in Writer /\ Put(r, b).bytes = b /\ (Sized(r) /\ Len(b) <= r.bufSize => Sized(Put(r, b)))
  BY <1>2, <1>4, PutEffect
<1>6. Sized(st) => Len(b) <= r.bufSize
  <2>1. r.bufSize \in Int
    BY <1>4 DEF Writer
  <2> QED BY <1>2, <1>4, <2>1 DEF CRP_BUFPAD
<1> QED BY <1>3, <1>4, <1>5, <1>6 DEF b

\* An argument is written where HoldsArg says, and within the buffer.
LEMMA WriteArgEffect ==
  ASSUME CRP_BUFSIZE \in Nat, CRP_BUFPAD <= CRP_BUFSIZE,
         NEW st \in Writer, NEW arg, IsArg(arg), NEW m \in Nat, NEW a \in Nat
  PROVE  LET w == WriteArg(st, m, a, arg)
         IN /\ w \in Writer /\ Extends(st.bytes, w.bytes) /\ Len(w.bytes) = After(arg, Len(st.bytes))
            /\ HoldsArg(w.bytes, Len(st.bytes), m, a, arg)
            /\ Roomy(st) => Sized(w)
<1> DEFINE b == st.bytes
           l == Len(b)
           typed == Append(b, TypeByte(arg))
           data == DataBytes(m, a, Count(arg))
           w == WriteArg(st, m, a, arg)
<1>1. b \in Seq(Byte) /\ l \in Nat /\ st.bufSize \in Int
  BY DEF Writer
<1>2. typed \in Seq(Byte) /\ Len(typed) = l + 1
  <2> HIDE DEF b
  <2> QED BY <1>1, TypedBytes DEF l
<1>3. Count(arg) \in Nat /\ data \in Seq(Plain) /\ arg.kind \in {"scalar", "string", "array"}
  <2>1. Count(arg) \in Nat /\ arg.kind \in {"scalar", "string", "array"}
    BY ArgKinds
  <2> QED BY <2>1, ListsOfBytes
<1>4. CASE arg.kind = "scalar"
  <2> DEFINE c == Aligned(typed, arg.size) \o data
  <2>1. w = Put(st, c)
    BY <1>4 DEF WriteArg, Count
  <2>2. Extends(b, c) /\ Len(c) = After(arg, l) /\ HoldsArg(c, l, m, a, arg)
    <3> HIDE DEF b
    <3> QED BY <1>1, <1>4, ScalarBytes DEF l
  <2>3. c \in Seq(Byte)
    BY <2>2 DEF Extends
  <2> HIDE DEF c
  <2>4. After(arg, l) <= l + 8
    <3>1. TypeAt(arg, l) = Align(l + 1, arg.size) /\ After(arg, l) = Align(l + 1, arg.size) + arg.size
      <4>1. Count(arg) = arg.size
        BY <1>4, ArgKinds
      <4> QED BY <1>4, <4>1 DEF After, First, TypeAt
    <3>2. arg.size \in {1, 2, 4}
      BY <1>4, ArgKinds
    <3> HIDE DEF l
    <3>3. CASE arg.size = 1
      BY <1>1, <3>1, <3>3 DEF Align
    <3>4. CASE arg.size = 2
      BY <1>1, <3>1, <3>4 DEF Align
    <3>5. CASE arg.size = 4
      BY <1>1, <3>1, <3>5 DEF Align
    <3> QED BY <3>2, <3>3, <3>4, <3>5
  <2>5. /\ Put(st, c) \in Writer /\ Put(st, c).bytes = c
        /\ Sized(st) /\ Len(c) <= st.bufSize => Sized(Put(st, c))
    BY <2>3, PutEffect
  <2>6. Roomy(st) => Sized(st) /\ Len(c) <= st.bufSize
    <3>1. Len(c) \in Nat
      BY <2>3
    <3> QED BY <1>1, <2>2, <2>4, <3>1 DEF Roomy, CRP_BUFPAD
  <2> QED BY <2>1, <2>2, <2>5, <2>6
<1>5. CASE arg.kind = "string"
  <2> DEFINE more == Append(data, NullByte)
             c == typed \o more
             p == Put(st, typed)
  <2>1. w = Write(p, more)
    BY <1>5 DEF WriteArg, Count
  <2>2. Extends(b, c) /\ Len(c) = After(arg, l) /\ HoldsArg(c, l, m, a, arg)
    <3> HIDE DEF b
    <3> QED BY <1>1, <1>5, StringBytes DEF l
  <2>3. more \in Seq(Byte)
    <3>1. NullByte \in Plain
      BY PlainBytes
    <3>2. more \in Seq(Plain)
      BY <1>3, <3>1, Appended
    <3> QED BY <3>2 DEF Byte
  <2> HIDE DEF c, more, typed
  <2>4. p \in Writer /\ p.bytes = typed /\ (Sized(st) /\ Len(typed) <= st.bufSize => Sized(p))
    BY <1>2, PutEffect
  <2> HIDE DEF p
  <2>5. Write(p, more) \in Writer /\ Write(p, more).bytes = p.bytes \o more /\ (Sized(p) => Sized(Write(p, more)))
    BY <2>3, <2>4, WriteEffect
  <2>6. Roomy(st) => Sized(st) /\ Len(typed) <= st.bufSize
    BY <1>1, <1>2 DEF Roomy, CRP_BUFPAD
  <2>7. p.bytes \o more = c
    BY <2>4 DEF c
  <2> QED BY <2>1, <2>2, <2>4, <2>5, <2>6, <2>7
<1>6. CASE arg.kind = "array"
  <2> DEFINE counted == Aligned(typed, 4) \o Length(arg.n)
             more == Padding(Align(Len(counted), arg.size) - Len(counted)) \o data
             c == counted \o more
             p == Put(st, counted)
  <2>1. w = Write(p, more)
    BY <1>6 DEF WriteArg, Count
  <2>2. /\ counted \in Seq(Byte) /\ Len(counted) <= l + 8 /\ more \in Seq(Plain)
        /\ Extends(b, c) /\ Len(c) = After(arg, l) /\ HoldsArg(c, l, m, a, arg)
    <3> HIDE DEF b
    <3> QED BY <1>1, <1>6, ArrayBytes DEF l
  <2>3. more \in Seq(Byte)
    BY <2>2 DEF Byte
  <2> HIDE DEF c, more, counted
  <2>4. p \in Writer /\ p.bytes = counted /\ (Sized(st) /\ Len(counted) <= st.bufSize => Sized(p))
    BY <2>2, PutEffect
  <2> HIDE DEF p
  <2>5. Write(p, more) \in Writer /\ Write(p, more).bytes = p.bytes \o more /\ (Sized(p) => Sized(Write(p, more)))
    BY <2>3, <2>4, WriteEffect
  <2>6. Roomy(st) => Sized(st) /\ Len(counted) <= st.bufSize
    <3>1. Len(counted) \in Nat
      BY <2>2
    <3> QED BY <1>1, <2>2, <3>1 DEF Roomy, CRP_BUFPAD
  <2>7. p.bytes \o more = c
    BY <2>4 DEF c
  <2> QED BY <2>1, <2>2, <2>4, <2>5, <2>6, <2>7
<1> QED BY <1>3, <1>4, <1>5, <1>6

\* What WriteNext keeps: an argument is written, or, a hint that nobody asked for, not.
IsList(list) ==
  /\ list = [m |-> list.m, args |-> list.args, hinformer |-> list.hinformer] /\ list.m \in Nat
  /\ list.hinformer \in BOOLEAN /\ Len(list.args) \in Nat
  /\ \A a \in 1..Len(list.args) : IsArg(list.args[a])

Told(list, a) == ~(list.args[a].hint /\ ~list.hinformer)

LEMMA WriteNextEffect ==
  ASSUME CRP_BUFSIZE \in Nat, CRP_BUFPAD <= CRP_BUFSIZE,
         NEW list, IsList(list), NEW st \in Writer, NEW a \in 1..Len(list.args)
  PROVE  LET w == WriteNext(list, st, a)
         IN /\ w \in Writer /\ Extends(st.bytes, w.bytes) /\ (Roomy(st) => Roomy(w))
            /\ ~Told(list, a) => w.bytes = st.bytes
            /\ Told(list, a) => /\ Len(w.bytes) = After(list.args[a], Len(st.bytes))
                                /\ HoldsArg(w.bytes, Len(st.bytes), list.m, a, list.args[a])
<1> DEFINE arg == list.args[a]
           written == WriteArg(st, list.m, a, arg)
           kept == IF arg.hint /\ ~list.hinformer THEN [written EXCEPT !.bytes = st.bytes] ELSE written
           w == WriteNext(list, st, a)
<1>1. IsArg(arg) /\ list.m \in Nat /\ a \in Nat /\ st.bytes \in Seq(Byte)
  BY DEF IsList, Writer
<1> HIDE DEF arg
<1>2. /\ written \in Writer /\ Extends(st.bytes, written.bytes)
      /\ Len(written.bytes) = After(arg, Len(st.bytes))
      /\ HoldsArg(written.bytes, Len(st.bytes), list.m, a, arg)
      /\ Roomy(st) => Sized(written)
  BY <1>1, WriteArgEffect
<1> HIDE DEF written
<1>3. /\ kept \in Writer /\ kept.bytes = (IF Told(list, a) THEN written.bytes ELSE st.bytes)
      /\ Sized(written) => Sized(kept)
  <2>1. CASE Told(list, a)
    <3>1. kept = written
      BY <2>1 DEF Told, arg
    <3> QED BY <1>2, <2>1, <3>1
  <2>2. CASE ~Told(list, a)
    <3>1. kept = [written EXCEPT !.bytes = st.bytes]
      BY <2>2 DEF Told, arg
    <3>2. kept = [bytes |-> st.bytes, room |-> written.room, bufSize |-> written.bufSize, held |-> written.held]
      BY <1>2, <3>1 DEF Writer
    <3> HIDE DEF kept
    <3> QED BY <1>1, <1>2, <2>2, <3>2 DEF Writer, Sized
  <2> QED BY <2>1, <2>2
<1>4. w = Resize(kept, Len(kept.bytes))
  BY DEF WriteNext, kept, written, arg
<1> HIDE DEF kept, w
<1>5. Len(kept.bytes) \in Nat
  BY <1>3 DEF Writer
<1>6. /\ w \in Writer /\ w.bytes = kept.bytes
      /\ Sized(kept) => Sized(w) /\ Len(kept.bytes) + CRP_BUFPAD <= w.bufSize
  BY <1>3, <1>4, <1>5, ResizeEffect
<1>7. Roomy(st) => Roomy(w)
  BY <1>2, <1>3, <1>6 DEF Roomy
<1>8. Extends(st.bytes, st.bytes)
  BY <1>1, ExtendsItself
<1> QED BY <1>2, <1>3, <1>6, <1>7, <1>8 DEF w, arg

\* The buffers before and after each turn of vserialize.
Buffers(f, list, header) ==
  LET n == Len(list.args)
  IN /\ f[0] \in Writer /\ f[0].bytes = header
     /\ \A k \in 0..n : f[k] \in Writer /\ Roomy(f[k])
     /\ \A k \in 1..n : f[k] = WriteNext(list, f[k - 1], k)
     /\ \A j \in 0..n : \A k \in j..n : Extends(f[j].bytes, f[k].bytes)

LEMMA Serialized ==
  ASSUME CRP_BUFSIZE \in Nat, CRP_BUFPAD <= CRP_BUFSIZE,
         NEW list, IsList(list), NEW header \in Seq(Byte), NEW bufSize \in Int,
         CRP_BUFSIZE <= bufSize, Len(header) + CRP_BUFPAD <= bufSize
  PROVE  \E f : Buffers(f, list, header) /\ vserialize(list, header, bufSize) = f[Len(list.args)]
<1> DEFINE n == Len(list.args)
           first == [bytes |-> header, room |-> bufSize - Len(header), bufSize |-> bufSize, held |-> TRUE]
           r == Writing!Iterate(list, first, 0, n)
<1>1. n \in Nat
  BY DEF IsList
<1>2. first \in Writer /\ Roomy(first)
  <2>1. Len(header) \in Nat /\ bufSize - Len(header) \in Int /\ bufSize - Len(header) <= bufSize
    OBVIOUS
  <2>2. first \in Writer
    BY <2>1 DEF Writer
  <2> QED BY <2>1, <2>2 DEF Roomy, Sized
<1>3. vserialize(list, header, bufSize) = r
  BY Zenon DEF vserialize, Loop, Writing!Iterate
<1> HIDE DEF first, r
<1>4. PICK f : Writing!IsIteration(f, list, first, 0, n) /\ Writing!Iterate(list, first, 0, n) = f[n]
  <2>1. n \in Int /\ 0 \in Int
    BY <1>1
  <2> QED BY <2>1, Writing!LoopValues
<1>5. f = [k \in 0..n |-> IF k = 0 THEN first ELSE WriteNext(list, f[k - 1], k)]
  BY <1>4, Zenon DEF Writing!IsIteration
<1>6. f[0] = first /\ \A k \in 1..n : f[k] = WriteNext(list, f[k - 1], k)
  <2>1. 0 \in 0..n
    BY <1>1
  <2>2. \A k \in 1..n : k \in 0..n /\ k # 0
    BY <1>1
  <2> HIDE DEF n
  <2>3. \A k \in 0..n : f[k] = IF k = 0 THEN first ELSE WriteNext(list, f[k - 1], k)
    BY <1>5
  <2> QED BY <2>1, <2>2, <2>3, Zenon
<1>7. ASSUME NEW k \in 1..n, f[k - 1] \in Writer
      PROVE  f[k] \in Writer /\ Extends(f[k - 1].bytes, f[k].bytes) /\ (Roomy(f[k - 1]) => Roomy(f[k]))
  BY <1>6, <1>7, WriteNextEffect
<1>8. \A k \in 0..n : f[k] \in Writer /\ Roomy(f[k])
  <2> DEFINE S == {k \in 0..n : f[k] \in Writer /\ Roomy(f[k])}
  <2>1. 0 \in S
    BY <1>1, <1>2, <1>6
  <2>2. ASSUME NEW k \in 1..n, k - 1 \in S PROVE k \in S
    <3>1. f[k - 1] \in Writer /\ Roomy(f[k - 1]) /\ k \in 0..n
      BY <2>2
    <3> QED BY <1>7, <3>1
  <2> HIDE DEF S
  <2>3. \A k \in 0..n : k \in S
    <3>1. 0 \in Int /\ n \in Int /\ \A k \in 0 + 1..n : k - 1 \in S => k \in S
      BY <1>1, <2>2
    <3> HIDE DEF n
    <3> QED BY <2>1, <3>1, Writing!RangeInduction
  <2> QED BY <2>3 DEF S
<1>9. ASSUME NEW j \in 0..n PROVE \A k \in j..n : Extends(f[j].bytes, f[k].bytes)
  <2> DEFINE S == {k \in j..n : Extends(f[j].bytes, f[k].bytes)}
  <2>0. f[j].bytes \in Seq(Byte)
    BY <1>8 DEF Writer
  <2>1. j \in S
    BY <1>1, <2>0, ExtendsItself
  <2>2. ASSUME NEW k \in j + 1..n, k - 1 \in S PROVE k \in S
    <3>1. k \in 1..n /\ k - 1 \in 0..n /\ k \in j..n
      BY <1>1
    <3>2. Extends(f[j].bytes, f[k - 1].bytes)
      BY <2>2
    <3>3. Extends(f[k - 1].bytes, f[k].bytes)
      BY <1>7, <1>8, <3>1
    <3>4. Extends(f[j].bytes, f[k].bytes)
      BY <2>0, <3>2, <3>3, ExtendsTwice
    <3> QED BY <3>1, <3>4
  <2> HIDE DEF S
  <2>3. \A k \in j..n : k \in S
    <3>1. j \in Int /\ n \in Int
      BY <1>1
    <3> HIDE DEF n
    <3> QED BY <2>1, <2>2, <3>1, Writing!RangeInduction
  <2> QED BY <2>3 DEF S
<1>10. first.bytes = header
  BY DEF first
<1> HIDE DEF n
<1>11. 0 \in 0..n
  BY <1>1
<1>12. Buffers(f, list, header)
  BY <1>6, <1>8, <1>9, <1>10, <1>11 DEF Buffers, n
<1> QED BY <1>3, <1>4, <1>12 DEF n, r

\* Two lists of bytes hold an argument in the same place.
LEMMA HoldsShifted ==
  ASSUME NEW arg, IsArg(arg), NEW b, NEW c, NEW i \in Nat, NEW o \in {8, 12}, o <= i,
         o = 12 => arg.size # 8, NEW m, NEW a, HoldsArg(b, i, m, a, arg),
         \A k \in i + 1..After(arg, i) : c[k - o] = b[k]
  PROVE  After(arg, i - o) = After(arg, i) - o /\ HoldsArg(c, i - o, m, a, arg)
<1> DEFINE t == TypeAt(arg, i)
           f == First(arg, i)
           e == After(arg, i)
           n == Count(arg)
           j == i - o
<1>1. /\ t \in Nat /\ f \in Nat /\ e \in Nat /\ i + 1 <= t /\ t <= f /\ f + n <= e
      /\ arg.kind = "array" => t + 4 <= f
  BY Places
<1>2. n \in Nat /\ arg.kind \in {"scalar", "string", "array"} /\ arg.size \in {1, 2, 4, 8}
  BY ArgKinds
<1>3. j \in Nat /\ i = j + o
  OBVIOUS
<1>4. ASSUME NEW p \in Nat, NEW s \in {1, 2, 4, 8}, o = 12 => s # 8
      PROVE  Align(p + o, s) = Align(p, s) + o /\ Align(p, s) \in Nat
  <2>1. CASE o = 8
    BY <2>1, Alignment
  <2>2. CASE o = 12
    BY <1>4, <2>2, Alignment
  <2> QED BY <2>1, <2>2
<1> HIDE DEF j
<1>5. TypeAt(arg, j) \in Nat /\ t = TypeAt(arg, j) + o
  <2>0. i + 1 = j + 1 + o /\ j + 1 \in Nat
    BY <1>3
  <2>1. CASE arg.kind = "scalar"
    <3>1. TypeAt(arg, i) = Align(i + 1, arg.size) /\ TypeAt(arg, j) = Align(j + 1, arg.size)
      BY <2>1 DEF TypeAt
    <3>2. Align(j + 1 + o, arg.size) = Align(j + 1, arg.size) + o /\ Align(j + 1, arg.size) \in Nat
      BY <1>2, <1>4, <2>0
    <3> QED BY <2>0, <3>1, <3>2
  <2>2. CASE arg.kind = "string"
    BY <2>0, <2>2 DEF TypeAt
  <2>3. CASE arg.kind = "array"
    <3>1. TypeAt(arg, i) = Align(i + 1, 4) /\ TypeAt(arg, j) = Align(j + 1, 4)
      BY <2>3 DEF TypeAt
    <3>2. Align(j + 1 + o, 4) = Align(j + 1, 4) + o /\ Align(j + 1, 4) \in Nat
      BY <1>4, <2>0
    <3> QED BY <2>0, <3>1, <3>2
  <2> QED BY <1>2, <2>1, <2>2, <2>3
<1> HIDE DEF t
<1>6. First(arg, j) \in Nat /\ f = First(arg, j) + o
  <2>1. CASE arg.kind = "array"
    <3>1. f = Align(t + 4, arg.size) /\ First(arg, j) = Align(TypeAt(arg, j) + 4, arg.size)
      BY <2>1 DEF First, t
    <3>2. t + 4 = TypeAt(arg, j) + 4 + o /\ TypeAt(arg, j) + 4 \in Nat
      BY <1>5
    <3>3. /\ Align(TypeAt(arg, j) + 4 + o, arg.size) = Align(TypeAt(arg, j) + 4, arg.size) + o
          /\ Align(TypeAt(arg, j) + 4, arg.size) \in Nat
      BY <1>2, <1>4, <3>2
    <3> QED BY <3>1, <3>2, <3>3
  <2>2. CASE arg.kind # "array"
    <3>1. f = t /\ First(arg, j) = TypeAt(arg, j)
      BY <2>2 DEF First, t
    <3> QED BY <1>5, <3>1
  <2> QED BY <2>1, <2>2
<1> HIDE DEF f
<1>7. After(arg, j) \in Nat /\ e = After(arg, j) + o
  <2>1. CASE arg.kind = "string"
    <3>1. e = f + n + 1 /\ After(arg, j) = First(arg, j) + n + 1
      BY <2>1 DEF After, f
    <3> HIDE DEF n, e
    <3> QED BY <1>2, <1>6, <3>1
  <2>2. CASE arg.kind # "string"
    <3>1. e = f + n /\ After(arg, j) = First(arg, j) + n
      BY <2>2 DEF After, f
    <3> HIDE DEF n, e
    <3> QED BY <1>2, <1>6, <3>1
  <2> QED BY <2>1, <2>2
<1> HIDE DEF e, n
<1>8. \A k \in i + 1..e : c[k - o] = b[k]
  BY DEF e
<1>9. c[j + 1] = TypeByte(arg)
  <2>1. i + 1 \in i + 1..e /\ i + 1 - o = j + 1
    BY <1>1, <1>2, <1>3
  <2>2. b[i + 1] = TypeByte(arg)
    BY DEF HoldsArg
  <2> QED BY <1>8, <2>1, <2>2
<1>10. c[TypeAt(arg, j)] = TypeByte(arg)
  <2>1. t \in i + 1..e /\ t - o = TypeAt(arg, j)
    BY <1>1, <1>2, <1>5
  <2>2. b[t] = TypeByte(arg)
    BY DEF HoldsArg, t
  <2> QED BY <1>8, <2>1, <2>2
<1>11. \A k \in 1..n : c[First(arg, j) + k] = [is |-> "data", m |-> m, a |-> a, k |-> k]
  <2> SUFFICES ASSUME NEW k \in 1..n PROVE c[First(arg, j) + k] = [is |-> "data", m |-> m, a |-> a, k |-> k]
    OBVIOUS
  <2> DEFINE q == f + k
  <2>1. q \in i + 1..e /\ q - o = First(arg, j) + k
    BY <1>1, <1>2, <1>6
  <2>2. b[q] = [is |-> "data", m |-> m, a |-> a, k |-> k]
    BY DEF HoldsArg, f, n
  <2> HIDE DEF q
  <2>3. c[q - o] = b[q]
    BY <1>8, <2>1
  <2> QED BY <2>1, <2>2, <2>3
<1>12. arg.kind = "array" => c[TypeAt(arg, j) + 1] = [is |-> "length", n |-> arg.n, k |-> 1]
  <2> SUFFICES ASSUME arg.kind = "array" PROVE c[TypeAt(arg, j) + 1] = [is |-> "length", n |-> arg.n, k |-> 1]
    OBVIOUS
  <2> DEFINE q == t + 1
  <2>1. q \in i + 1..e /\ q - o = TypeAt(arg, j) + 1
    BY <1>1, <1>2, <1>5
  <2>2. b[q] = [is |-> "length", n |-> arg.n, k |-> 1]
    BY DEF HoldsArg, t
  <2> HIDE DEF q
  <2>3. c[q - o] = b[q]
    BY <1>8, <2>1
  <2> QED BY <2>1, <2>2, <2>3
<1>13. arg.kind = "string" => c[After(arg, j)] = NullByte
  <2> SUFFICES ASSUME arg.kind = "string" PROVE c[After(arg, j)] = NullByte
    OBVIOUS
  <2>1. e \in i + 1..e /\ e - o = After(arg, j)
    BY <1>1, <1>2, <1>7
  <2>2. b[e] = NullByte
    BY DEF HoldsArg, e
  <2> QED BY <1>8, <2>1, <2>2
<1>14. HoldsArg(c, j, m, a, arg)
  BY <1>9, <1>10, <1>11, <1>12, <1>13 DEF HoldsArg, n
<1>15. After(arg, j) = After(arg, i) - o
  BY <1>7 DEF e
<1> QED BY <1>14, <1>15 DEF j

-----------------------------------------------------------------------------
(* What deserializeParse finds.                                            *)

Item == [is : {"found"}, type : Byte, data : Seq(Byte)] \cup {Garbage, TooMany}
Reader == [i : Nat, a : Nat, found : Seq(Item)]

FoundArg(arg, m, a) == Found(TypeByte(arg), DataBytes(m, a, Count(arg)))

LEMMA FoundIsItem ==
  ASSUME NEW arg, IsArg(arg), NEW m \in Nat, NEW a \in Nat
  PROVE  FoundArg(arg, m, a) \in Item
<1>1. TypeByte(arg) \in Byte /\ Count(arg) \in Nat
  BY PlainBytes, ArgKinds DEF Byte
<1>2. DataBytes(m, a, Count(arg)) \in Seq(Byte)
  BY <1>1, ListsOfBytes, PlainList
<1> QED BY <1>1, <1>2 DEF FoundArg, Found, Item

LEMMA FirstNull ==
  ASSUME NEW S \in SUBSET Int, NEW e \in S, \A k \in S : e <= k
  PROVE  S # {} /\ Min(S) = e
<1>1. \A x \in S : (\A y \in S : x <= y) => x = e
  <2> SUFFICES ASSUME NEW x \in S, \A y \in S : x <= y PROVE x = e
    OBVIOUS
  <2>1. x <= e /\ e <= x /\ x \in Int /\ e \in Int
    OBVIOUS
  <2> QED BY <2>1
<1>2. (CHOOSE x \in S : \A y \in S : x <= y) = e
  BY <1>1
<1> QED BY <1>2 DEF Min

LEMMA DataIsNotNull ==
  ASSUME NEW m, NEW a, NEW k
  PROVE  [is |-> "data", m |-> m, a |-> a, k |-> k] # NullByte
<1>1. [is |-> "data", m |-> m, a |-> a, k |-> k].is = "data" /\ NullByte.is = "null"
  BY DEF NullByte
<1> QED BY <1>1

LEMMA Stops ==
  ASSUME NEW st \in Reader, NEW l, NEW with
  PROVE  [st EXCEPT !.i = l, !.found = Append(@, with)] = [i |-> l, a |-> st.a, found |-> Append(st.found, with)]
<1> DEFINE g == Append(st.found, with)
           x == [st EXCEPT !.i = l, !.found = g]
<1> HIDE DEF g
<1>1. x = [st EXCEPT !.i = l, !.found = g]
  OBVIOUS
<1> HIDE DEF x
<1>2. x = [i |-> l, a |-> st.a, found |-> g]
  BY <1>1 DEF Reader
<1> QED BY <1>1, <1>2 DEF g

\* One turn takes one argument, or finds that there are too many.
ArgTaken(st, arg, m, a) ==
  [i |-> After(arg, st.i), a |-> st.a + (IF arg.kind = "array" THEN 2 ELSE 1),
   found |-> Append(st.found, FoundArg(arg, m, a))]
Stopped(bytes, st, with) == [i |-> Len(bytes), a |-> st.a, found |-> Append(st.found, with)]

LEMMA ParseArg ==
  ASSUME NEW F \in Seq(Byte), NEW arg, IsArg(arg), NEW m \in Nat, NEW a \in Nat, NEW st \in Reader, NEW turn,
         HoldsArg(F, st.i, m, a, arg), After(arg, st.i) <= Len(F)
  PROVE  ParseNext(F, st, turn) =
           IF st.a = CRP_MAX_ARGS THEN Stopped(F, st, TooMany) ELSE ArgTaken(st, arg, m, a)
<1> DEFINE i == st.i
           l == Len(F)
           type == F[st.i + 1]
           size == type.size
           at == CASE type.kind = "scalar" -> Align(st.i + 1, size)
                   [] type.kind = "string" -> st.i + 1
                   [] type.kind = "array" -> Align(st.i + 1, 4)
           first == IF type.kind = "array" THEN Align(at + 4, size) ELSE at
           nulls == {k \in first + 1..Len(F) : F[k] = NullByte}
           known == CASE type.kind = "scalar" -> first + size <= Len(F)
                      [] type.kind = "string" -> nulls # {}
                      [] type.kind = "array" -> at + 4 <= Len(F) /\ F[at + 1].is = "length"
           count == CASE type.kind = "scalar" -> size
                      [] type.kind = "string" -> Min(nulls) - first - 1
                      [] type.kind = "array" -> F[at + 1].n * size
           after == IF type.kind = "string" THEN first + count + 1 ELSE first + count
           stop(with) == [st EXCEPT !.i = Len(F), !.found = Append(@, with)]
           taken == [i |-> after, a |-> st.a + (IF type.kind = "array" THEN 2 ELSE 1),
                     found |-> Append(st.found, Found(F[at], SubSeq(F, first + 1, first + count)))]
           n == Count(arg)
           t == TypeAt(arg, i)
           f == First(arg, i)
           e == After(arg, i)
<1>1. ParseNext(F, st, turn) =
        IF st.i >= Len(F) THEN st
        ELSE IF st.a = CRP_MAX_ARGS THEN stop(TooMany)
        ELSE IF type.is # "type" THEN stop(Garbage)
        ELSE IF ~known THEN stop(Garbage)
        ELSE IF after > Len(F) THEN stop(Garbage)
        ELSE taken
  BY Zenon DEF ParseNext
<1>2. i \in Nat /\ st.a \in Nat /\ st.found \in Seq(Item) /\ l \in Nat /\ e <= l
  BY DEF Reader
<1>3. /\ arg.kind \in {"scalar", "string", "array"} /\ arg.n \in Nat /\ arg.size \in {1, 2, 4, 8} /\ n \in Nat
      /\ arg.kind = "scalar" => n = arg.size
  BY ArgKinds
<1>4. /\ t \in Nat /\ f \in Nat /\ e \in Nat /\ i + 1 <= t /\ t <= f /\ f + n <= e
      /\ arg.kind = "array" => t + 4 <= f
  BY <1>2, Places
<1>5. /\ F[i + 1] = TypeByte(arg) /\ F[t] = TypeByte(arg)
      /\ \A k \in 1..n : F[f + k] = [is |-> "data", m |-> m, a |-> a, k |-> k]
      /\ arg.kind = "array" => F[t + 1] = [is |-> "length", n |-> arg.n, k |-> 1]
      /\ arg.kind = "string" => F[e] = NullByte
  BY DEF HoldsArg
<1>6. type.is = "type" /\ type.kind = arg.kind /\ size = arg.size
  BY <1>5 DEF TypeByte
<1> HIDE DEF type, size
<1>7. at = t
  BY <1>3, <1>6 DEF TypeAt
<1> HIDE DEF at
<1>8. first = f
  BY <1>6, <1>7 DEF First
<1> HIDE DEF first
<1>9. arg.kind = "string" => nulls # {} /\ Min(nulls) = e
  <2> SUFFICES ASSUME arg.kind = "string" PROVE nulls # {} /\ Min(nulls) = e
    OBVIOUS
  <2>1. e = f + n + 1
    BY DEF After
  <2> HIDE DEF e, f, n
  <2>2. nulls \in SUBSET Int
    BY <1>2, <1>4, <1>8
  <2>3. e \in nulls
    BY <1>2, <1>3, <1>4, <1>5, <1>8, <2>1
  <2>4. \A k \in nulls : e <= k
    <3> SUFFICES ASSUME NEW k \in nulls, k < e PROVE FALSE
      BY <1>4, <2>2
    <3>1. k \in Int /\ f + 1 <= k /\ F[k] = NullByte
      BY <1>2, <1>4, <1>8
    <3>2. k - f \in 1..n /\ f + (k - f) = k
      BY <1>3, <1>4, <2>1, <3>1
    <3>3. F[k] = [is |-> "data", m |-> m, a |-> a, k |-> k - f]
      BY <1>5, <3>2
    <3> QED BY <3>1, <3>3, DataIsNotNull
  <2> HIDE DEF nulls
  <2> QED BY <2>2, <2>3, <2>4, FirstNull
<1> HIDE DEF nulls
<1>10. arg.kind = "array" => F[at + 1].is = "length" /\ F[at + 1].n = arg.n
  BY <1>5, <1>7
<1>11. known
  <2>1. CASE arg.kind = "scalar"
    <3>1. f + size <= l
      BY <1>2, <1>3, <1>4, <1>6, <2>1
    <3> QED BY <1>6, <1>8, <2>1, <3>1
  <2>2. CASE arg.kind = "string"
    BY <1>6, <1>9, <2>2
  <2>3. CASE arg.kind = "array"
    <3>1. t + 4 <= l
      BY <1>2, <1>3, <1>4, <2>3
    <3> QED BY <1>6, <1>7, <1>10, <2>3, <3>1
  <2> QED BY <1>3, <2>1, <2>2, <2>3
<1> HIDE DEF known
<1>12. count = n
  <2>1. CASE arg.kind = "scalar"
    BY <1>3, <1>6, <2>1
  <2>2. CASE arg.kind = "string"
    <3>1. count = e - f - 1
      BY <1>6, <1>8, <1>9, <2>2
    <3>2. e = f + n + 1
      BY <2>2 DEF After
    <3> HIDE DEF e, f, n, count
    <3> QED BY <1>3, <1>4, <3>1, <3>2
  <2>3. CASE arg.kind = "array"
    <3>1. count = arg.n * arg.size
      BY <1>6, <1>10, <2>3
    <3>2. n = arg.size * arg.n
      BY DEF Count
    <3>3. arg.n * arg.size = arg.size * arg.n
      BY <1>3
    <3> QED BY <3>1, <3>2, <3>3
  <2> QED BY <1>3, <2>1, <2>2, <2>3
<1> HIDE DEF count
<1>13. after = e
  BY <1>6, <1>8, <1>12 DEF After
<1>14. SubSeq(F, f + 1, f + n) = DataBytes(m, a, n)
  <2> DEFINE s == SubSeq(F, f + 1, f + n)
             d == DataBytes(m, a, n)
  <2> HIDE DEF f, n, e
  <2>1. f \in Nat /\ f + n \in Nat /\ f <= f + n /\ f + n <= Len(F) /\ f + n - f = n
    BY <1>2, <1>3, <1>4
  <2>2. s \in Seq(Byte) /\ Len(s) = n /\ \A k \in 1..n : s[k] = F[f + k]
    <3> DEFINE g == f + n
    <3>0. g \in Nat /\ f <= g /\ g <= Len(F) /\ g - f = n
      BY <1>3, <2>1
    <3> HIDE DEF g
    <3>1. /\ SubSeq(F, f + 1, g) \in Seq(Byte) /\ Len(SubSeq(F, f + 1, g)) = g - f
          /\ \A k \in 1..g - f : SubSeq(F, f + 1, g)[k] = F[f + k]
      BY <2>1, <3>0, Slice
    <3>2. s = SubSeq(F, f + 1, g)
      BY DEF g
    <3> QED BY <3>0, <3>1, <3>2
  <2>3. d \in Seq(Byte) /\ Len(d) = n /\ \A k \in 1..n : d[k] = [is |-> "data", m |-> m, a |-> a, k |-> k]
    <3>1. d \in Seq(Plain) /\ Len(d) = n /\ \A k \in 1..n : d[k] = [is |-> "data", m |-> m, a |-> a, k |-> k]
      BY <1>3, ListsOfBytes
    <3> HIDE DEF d
    <3> QED BY <3>1, PlainList
  <2> HIDE DEF s, d
  <2>4. \A k \in 1..n : s[k] = d[k]
    BY <1>5, <2>2, <2>3
  <2>5. s = d
    BY <2>2, <2>3, <2>4, SameList
  <2> QED BY <2>5 DEF s, d
<1>15. taken = ArgTaken(st, arg, m, a)
  <2>1. F[at] = TypeByte(arg) /\ SubSeq(F, first + 1, first + count) = DataBytes(m, a, n)
    BY <1>5, <1>7, <1>8, <1>12, <1>14
  <2> HIDE DEF after, n
  <2>2. after = After(arg, st.i)
    BY <1>13
  <2> HIDE DEF e
  <2> QED BY <1>6, <2>1, <2>2 DEF ArgTaken, FoundArg, n
<1>16. stop(TooMany) = Stopped(F, st, TooMany)
  BY Stops DEF Stopped
<1>17. ~(st.i >= Len(F))
  BY <1>2, <1>3, <1>4
<1>18. ~(after > Len(F))
  BY <1>2, <1>4, <1>13
<1> HIDE DEF taken, stop, after
<1> QED BY <1>1, <1>6, <1>11, <1>15, <1>16, <1>17, <1>18

LEMMA ParseValues ==
  ASSUME NEW F \in Seq(Byte)
  PROVE  \E g : /\ g[0] = [i |-> 0, a |-> 0, found |-> <<>>]
                /\ \A k \in 1..Len(F) : g[k] = ParseNext(F, g[k - 1], k)
                /\ Parse(F) = g[Len(F)].found
<1> DEFINE n == Len(F)
           first == [i |-> 0, a |-> 0, found |-> <<>>]
           r == Parsing!Iterate(F, first, 0, n)
<1>1. n \in Nat
  OBVIOUS
<1>2. Parse(F) = r.found
  BY Zenon DEF Parse, Loop, Parsing!Iterate
<1> HIDE DEF first, r
<1>3. PICK g : Parsing!IsIteration(g, F, first, 0, n) /\ Parsing!Iterate(F, first, 0, n) = g[n]
  <2>1. n \in Int /\ 0 \in Int
    BY <1>1
  <2> QED BY <2>1, Parsing!LoopValues
<1>4. g = [k \in 0..n |-> IF k = 0 THEN first ELSE ParseNext(F, g[k - 1], k)]
  BY <1>3, Zenon DEF Parsing!IsIteration
<1>5. g[0] = first /\ \A k \in 1..n : g[k] = ParseNext(F, g[k - 1], k)
  <2>1. 0 \in 0..n
    BY <1>1
  <2>2. \A k \in 1..n : k \in 0..n /\ k # 0
    BY <1>1
  <2> HIDE DEF n
  <2>3. \A k \in 0..n : g[k] = IF k = 0 THEN first ELSE ParseNext(F, g[k - 1], k)
    BY <1>4
  <2> QED BY <2>1, <2>2, <2>3, Zenon
<1>6. Parse(F) = g[n].found
  BY <1>2, <1>3 DEF r
<1> QED BY <1>5, <1>6 DEF first

\* At the end of the bytes nothing more is found.
LEMMA ParseEnds ==
  ASSUME NEW F \in Seq(Byte), NEW g, \A k \in 1..Len(F) : g[k] = ParseNext(F, g[k - 1], k),
         NEW t \in 0..Len(F), g[t].i = Len(F)
  PROVE  g[Len(F)] = g[t]
<1> DEFINE n == Len(F)
           S == {k \in t..n : g[k] = g[t]}
<1>1. n \in Nat /\ t \in Nat /\ t <= n
  OBVIOUS
<1>2. t \in S
  BY <1>1
<1>3. ASSUME NEW k \in t + 1..n, k - 1 \in S PROVE k \in S
  <2>1. g[k - 1] = g[t] /\ k \in 1..n /\ k \in t..n
    BY <1>1, <1>3
  <2>2. g[k] = ParseNext(F, g[t], k)
    BY <2>1
  <2>3. g[t].i >= Len(F)
    BY <1>1
  <2>4. ParseNext(F, g[t], k) = g[t]
    BY <2>3, Zenon DEF ParseNext
  <2> QED BY <2>1, <2>2, <2>4
<1>4. \A k \in t..n : k \in S
  <2>1. t \in Int /\ n \in Int
    BY <1>1
  <2> HIDE DEF S, n
  <2> QED BY <1>2, <1>3, <2>1, Parsing!RangeInduction
<1>5. n \in t..n
  BY <1>1
<1> QED BY <1>4, <1>5

LEMMA LastOfList ==
  ASSUME NEW S, NEW s \in Seq(S), NEW e \in S
  PROVE  e \in ToSet(Append(s, e))
<1>1. Append(s, e)[Len(s) + 1] = e /\ Len(s) + 1 \in DOMAIN Append(s, e)
  OBVIOUS
<1> QED BY <1>1 DEF ToSet

\* What the receiver is to find, turn by turn.
LEMMA TellEffect ==
  ASSUME NEW list, IsList(list), NEW found \in Seq(Item), NEW a \in 1..Len(list.args)
  PROVE  /\ Tell(list, found, a) \in Seq(Item)
         /\ Told(list, a) => Tell(list, found, a) = Append(found, FoundArg(list.args[a], list.m, a))
         /\ ~Told(list, a) => Tell(list, found, a) = found
<1>1. IsArg(list.args[a]) /\ list.m \in Nat /\ a \in Nat
  BY DEF IsList
<1>2. FoundArg(list.args[a], list.m, a) \in Item
  BY <1>1, FoundIsItem
<1>3. Told(list, a) => Tell(list, found, a) = Append(found, FoundArg(list.args[a], list.m, a))
  BY Zenon DEF Tell, Told, FoundArg, Count
<1>4. ~Told(list, a) => Tell(list, found, a) = found
  BY Zenon DEF Tell, Told
<1> HIDE DEF FoundArg
<1> QED BY <1>2, <1>3, <1>4

\* The bytes the arguments are taken from are those vserialize wrote behind the header.
Behind(F, bytes, o, len) ==
  /\ F \in Seq(Byte) /\ Len(F) = Len(bytes) - o
  /\ \A k \in len + 1..Len(bytes) : F[k - o] = bytes[k]

\* What deserializeParse counts: an array is two.
Slots(items) == Len(items) + Cardinality({k \in 1..Len(items) : items[k].type.kind = "array"})

LEMMA NoSlots == Slots(<<>>) = 0
<1>1. {k \in 1..Len(<<>>) : <<>>[k].type.kind = "array"} = {}
  OBVIOUS
<1>2. Cardinality({}) = 0
  BY FS_EmptySet
<1> QED BY <1>1, <1>2 DEF Slots

LEMMA SlotsOfMore ==
  ASSUME NEW s \in Seq(Item), NEW x \in Item
  PROVE  /\ Slots(s) \in Nat
         /\ Slots(Append(s, x)) = Slots(s) + (IF x.type.kind = "array" THEN 2 ELSE 1)
<1> DEFINE n == Len(s)
           z == Append(s, x)
           S == {k \in 1..n : s[k].type.kind = "array"}
           T == {k \in 1..n + 1 : z[k].type.kind = "array"}
<1>1. n \in Nat /\ Len(z) = n + 1 /\ z[n + 1] = x /\ \A k \in 1..n : z[k] = s[k]
  OBVIOUS
<1>2. IsFiniteSet(S) /\ Cardinality(S) \in Nat
  <2>1. IsFiniteSet(1..n)
    BY <1>1, FS_Interval
  <2>2. S \subseteq 1..n
    OBVIOUS
  <2> HIDE DEF S, n
  <2> QED BY <2>1, <2>2, FS_Subset, FS_CardinalityType
<1>3. Slots(s) = n + Cardinality(S) /\ Slots(z) = n + 1 + Cardinality(T)
  BY <1>1 DEF Slots
<1> HIDE DEF z, n
<1>4. n + 1 \notin S
  BY <1>1
<1>5. CASE x.type.kind = "array"
  <2>1. T = S \cup {n + 1}
    BY <1>1, <1>5
  <2> HIDE DEF S, T
  <2>2. Cardinality(T) = Cardinality(S) + 1
    BY <1>2, <1>4, <2>1, FS_AddElement
  <2> QED BY <1>1, <1>2, <1>3, <1>5, <2>2 DEF z
<1>6. CASE x.type.kind # "array"
  <2>1. T = S
    BY <1>1, <1>6
  <2> HIDE DEF S, T
  <2> QED BY <1>1, <1>2, <1>3, <1>6, <2>1 DEF z
<1> QED BY <1>5, <1>6

\* After the turns for the arguments told of so far.
At(g, F, t, i, found) ==
  /\ g[t] \in Reader
  /\ \/ g[t].i = i /\ g[t].found = found /\ g[t].a = Slots(found)
     \/ g[t].i = Len(F) /\ TooMany \in ToSet(g[t].found) /\ CRP_MAX_ARGS < Slots(found)

LEMMA TakeArg ==
  ASSUME NEW F \in Seq(Byte), NEW g, NEW t \in Nat, g[t + 1] = ParseNext(F, g[t], t + 1), t + 1 <= Len(F),
         NEW arg, IsArg(arg), NEW m \in Nat, NEW a \in Nat, g[t] \in Reader,
         HoldsArg(F, g[t].i, m, a, arg), After(arg, g[t].i) <= Len(F), g[t].a = Slots(g[t].found)
  PROVE  At(g, F, t + 1, After(arg, g[t].i), Append(g[t].found, FoundArg(arg, m, a)))
<1> DEFINE st == g[t]
           w == g[t + 1]
<1>1. st.i \in Nat /\ st.a \in Nat /\ st.found \in Seq(Item) /\ Len(F) \in Nat
  BY DEF Reader
<1>2. w = IF st.a = CRP_MAX_ARGS THEN Stopped(F, st, TooMany) ELSE ArgTaken(st, arg, m, a)
  BY ParseArg
<1> HIDE DEF w, st
<1>3. FoundArg(arg, m, a) \in Item /\ After(arg, st.i) \in Nat /\ TooMany \in Item
  BY <1>1, FoundIsItem, Places DEF Item
<1>3a. Slots(Append(st.found, FoundArg(arg, m, a))) = st.a + (IF arg.kind = "array" THEN 2 ELSE 1)
  <2>1. FoundArg(arg, m, a).type.kind = arg.kind
    BY DEF FoundArg, Found, TypeByte
  <2>2. st.a = Slots(st.found)
    BY DEF st
  <2> QED BY <1>1, <1>3, <2>1, <2>2, SlotsOfMore
<1>4. CASE st.a = CRP_MAX_ARGS
  <2>1. w = [i |-> Len(F), a |-> st.a, found |-> Append(st.found, TooMany)]
    BY <1>2, <1>4 DEF Stopped
  <2>2. Append(st.found, TooMany) \in Seq(Item) /\ TooMany \in ToSet(Append(st.found, TooMany))
    BY <1>1, <1>3, LastOfList
  <2>3. w \in Reader /\ w.i = Len(F) /\ TooMany \in ToSet(w.found)
    BY <1>1, <2>1, <2>2 DEF Reader
  <2>4. CRP_MAX_ARGS < Slots(Append(st.found, FoundArg(arg, m, a)))
    BY <1>1, <1>3a, <1>4
  <2> QED BY <2>3, <2>4 DEF At, w, st
<1>5. CASE st.a # CRP_MAX_ARGS
  <2> DEFINE c == st.a + (IF arg.kind = "array" THEN 2 ELSE 1)
             fs == Append(st.found, FoundArg(arg, m, a))
  <2>1. w = [i |-> After(arg, st.i), a |-> c, found |-> fs]
    BY <1>2, <1>5 DEF ArgTaken
  <2>2. c \in Nat /\ fs \in Seq(Item)
    BY <1>1, <1>3
  <2> HIDE DEF c, fs
  <2>3. w \in Reader /\ w.i = After(arg, st.i) /\ w.found = fs /\ w.a = Slots(fs)
    <3>1. c = Slots(fs)
      BY <1>3a DEF c, fs
    <3> QED BY <1>3, <2>1, <2>2, <3>1 DEF Reader
  <2> QED BY <2>3 DEF At, w, fs, st
<1> QED BY <1>4, <1>5

Reads(list, f, header, told, o, F, g, t0) ==
  /\ IsList(list) /\ header \in Seq(Byte) /\ Buffers(f, list, header) /\ told[0] \in Seq(Item)
  /\ \A k \in 1..Len(list.args) : told[k] = Tell(list, told[k - 1], k)
  /\ o \in {8, 12} /\ o <= Len(header) /\ (o = 12 => \A a \in 1..Len(list.args) : list.args[a].size # 8)
  /\ Behind(F, f[Len(list.args)].bytes, o, Len(header))
  /\ \A k \in 1..Len(F) : g[k] = ParseNext(F, g[k - 1], k)
  /\ t0 \in 0..Len(header) - o /\ At(g, F, t0, Len(header) - o, told[0])

\* Written after any header and read from where recvChirp begins, every argument is found.
LEMMA RoundTrip ==
  ASSUME NEW list, NEW f, NEW header, NEW told, NEW o, NEW F, NEW g, NEW t0,
         Reads(list, f, header, told, o, F, g, t0)
  PROVE  \/ g[Len(F)].found = told[Len(list.args)]
         \/ TooMany \in ToSet(g[Len(F)].found) /\ CRP_MAX_ARGS < Slots(told[Len(list.args)])
<1>0. /\ IsList(list) /\ header \in Seq(Byte) /\ Buffers(f, list, header) /\ told[0] \in Seq(Item)
      /\ \A k \in 1..Len(list.args) : told[k] = Tell(list, told[k - 1], k)
      /\ o \in {8, 12} /\ o <= Len(header) /\ (o = 12 => \A a \in 1..Len(list.args) : list.args[a].size # 8)
      /\ Behind(F, f[Len(list.args)].bytes, o, Len(header))
      /\ \A k \in 1..Len(F) : g[k] = ParseNext(F, g[k - 1], k)
      /\ t0 \in 0..Len(header) - o /\ At(g, F, t0, Len(header) - o, told[0])
  BY DEF Reads
<1> USE <1>0
<1> DEFINE n == Len(list.args)
           len(k) == Len(f[k].bytes)
           h == Len(header)
           S == {k \in 0..n : /\ told[k] \in Seq(Item)
                              /\ \E t \in 0..len(k) - o : At(g, F, t, len(k) - o, told[k])}
<1>1. n \in Nat /\ h \in Nat
  BY DEF IsList
<1>2. \A k \in 0..n : f[k].bytes \in Seq(Byte) /\ len(k) \in Nat
  BY DEF Buffers, Writer
<1>3. F \in Seq(Byte) /\ Len(F) = len(n) - o /\ Len(F) \in Nat
  BY DEF Behind
<1>4. \A k \in 0..n : Extends(f[k].bytes, f[n].bytes) /\ h <= len(k) /\ len(k) <= len(n)
  <2> SUFFICES ASSUME NEW k \in 0..n PROVE Extends(f[k].bytes, f[n].bytes) /\ h <= len(k) /\ len(k) <= len(n)
    OBVIOUS
  <2>1. k \in 0..n /\ n \in k..n /\ 0 \in 0..n /\ k \in 0..n
    BY <1>1
  <2>2. Extends(f[k].bytes, f[n].bytes) /\ Extends(f[0].bytes, f[k].bytes) /\ f[0].bytes = header
    BY <2>1 DEF Buffers
  <2> QED BY <2>2 DEF Extends
<1>5. 0 \in S
  <2>1. 0 \in 0..n /\ len(0) = h
    BY <1>1 DEF Buffers
  <2> QED BY <2>1
<1>6. ASSUME NEW k \in 1..n, k - 1 \in S PROVE k \in S
  <2> DEFINE i == len(k - 1)
             j == len(k)
             arg == list.args[k]
             b == f[k].bytes
  <2>1. k - 1 \in 0..n /\ k \in 0..n /\ k \in Nat
    BY <1>1
  <2>2. PICK t \in 0..i - o : At(g, F, t, i - o, told[k - 1])
    BY <1>6
  <2>3. told[k - 1] \in Seq(Item)
    BY <1>6
  <2>4. f[k] = WriteNext(list, f[k - 1], k) /\ told[k] = Tell(list, told[k - 1], k)
    BY DEF Buffers
  <2>5. IsArg(arg) /\ list.m \in Nat
    BY DEF IsList
  <2>6. i \in Nat /\ j \in Nat /\ h <= i /\ j <= len(n) /\ b \in Seq(Byte) /\ i <= j
    <3>1. f[k - 1].bytes \in Seq(Byte) /\ Extends(f[k - 1].bytes, f[k].bytes)
      <4>1. k \in k - 1..n
        BY <1>1
      <4> QED BY <1>2, <2>1, <4>1 DEF Buffers
    <3>2. i <= j
      BY <3>1 DEF Extends
    <3> QED BY <1>2, <1>4, <2>1, <3>2
  <2>7. /\ told[k] \in Seq(Item)
        /\ Told(list, k) => told[k] = Append(told[k - 1], FoundArg(arg, list.m, k))
        /\ ~Told(list, k) => told[k] = told[k - 1]
    BY <2>3, <2>4, TellEffect
  <2>8. /\ ~Told(list, k) => b = f[k - 1].bytes
        /\ Told(list, k) => j = After(arg, i) /\ HoldsArg(b, i, list.m, k, arg)
    <3>1. f[k - 1] \in Writer
      BY <2>1 DEF Buffers
    <3> HIDE DEF n
    <3>2. /\ ~Told(list, k) => WriteNext(list, f[k - 1], k).bytes = f[k - 1].bytes
          /\ Told(list, k) =>
               /\ Len(WriteNext(list, f[k - 1], k).bytes) = After(list.args[k], Len(f[k - 1].bytes))
               /\ HoldsArg(WriteNext(list, f[k - 1], k).bytes, Len(f[k - 1].bytes), list.m, k, list.args[k])
      BY <3>1, WriteNextEffect, Sizes DEF n
    <3> QED BY <2>4, <3>2
  <2> HIDE DEF S, n, len
  <2>9. \E u \in 0..j - o : At(g, F, u, j - o, told[k])
    <3>1. CASE ~Told(list, k)
      <4>1. j = i /\ told[k] = told[k - 1]
        BY <2>7, <2>8, <3>1 DEF len
      <4> QED BY <2>2, <4>1
    <3>2. CASE /\ Told(list, k) /\ g[t].i = Len(F) /\ TooMany \in ToSet(g[t].found)
               /\ CRP_MAX_ARGS < Slots(told[k - 1])
      <4>0. CRP_MAX_ARGS < Slots(told[k])
        <5>1. FoundArg(arg, list.m, k) \in Item
          BY <2>1, <2>5, FoundIsItem
        <5> DEFINE x == FoundArg(arg, list.m, k)
        <5> HIDE DEF x
        <5>2. /\ Slots(told[k - 1]) \in Nat
              /\ Slots(Append(told[k - 1], x)) = Slots(told[k - 1]) + (IF x.type.kind = "array" THEN 2 ELSE 1)
          BY <2>3, <5>1, SlotsOfMore DEF x
        <5>3. told[k] = Append(told[k - 1], x)
          BY <2>7, <3>2 DEF x
        <5> QED BY <3>2, <5>2, <5>3, Sizes
      <4>1. At(g, F, t, j - o, told[k])
        BY <2>2, <3>2, <4>0 DEF At
      <4>2. t \in 0..j - o
        BY <2>2, <2>6
      <4> QED BY <4>1, <4>2
    <3>3. CASE Told(list, k) /\ g[t].i = i - o /\ g[t].found = told[k - 1] /\ g[t].a = Slots(told[k - 1])
      <4>1. j = After(arg, i) /\ HoldsArg(b, i, list.m, k, arg)
        BY <2>8, <3>3
      <4>2. \A q \in i + 1..j : F[q - o] = b[q]
        <5> SUFFICES ASSUME NEW q \in i + 1..j PROVE F[q - o] = b[q]
          OBVIOUS
        <5>0. j = Len(b)
          BY DEF len
        <5>1. q \in h + 1..len(n) /\ q \in 1..Len(b)
          <6>1. n \in 0..n
            BY <1>1
          <6>2. len(n) \in Nat
            BY <1>2, <6>1
          <6> HIDE DEF i, j, b, h
          <6> QED BY <1>1, <2>6, <5>0, <6>2
        <5>2. F[q - o] = f[n].bytes[q]
          BY <5>1 DEF Behind, len, n
        <5>3. f[n].bytes[q] = b[q]
          BY <1>4, <2>1, <5>1, Kept
        <5> QED BY <5>2, <5>3
      <4>3. o <= i /\ (o = 12 => arg.size # 8)
        <5>1. o = 12 => arg.size # 8
          BY DEF n
        <5> HIDE DEF i, h
        <5>2. o <= i
          BY <1>1, <2>6 DEF h
        <5> QED BY <5>1, <5>2
      <4> HIDE DEF i, j, b, arg
      <4>4. After(arg, i - o) = After(arg, i) - o /\ HoldsArg(F, i - o, list.m, k, arg)
        BY <2>5, <2>6, <4>1, <4>2, <4>3, HoldsShifted
      <4>5. t \in Nat /\ t + 1 <= j - o /\ t + 1 <= Len(F) /\ j - o <= Len(F)
        <5>1. i + 1 <= j
          <6>1. i + 1 <= TypeAt(arg, i) /\ TypeAt(arg, i) <= First(arg, i) /\ First(arg, i) + Count(arg) <= After(arg, i)
            BY <2>5, <2>6, Places
          <6>2. Count(arg) \in Nat /\ TypeAt(arg, i) \in Nat /\ First(arg, i) \in Nat /\ After(arg, i) \in Nat
            BY <2>5, <2>6, ArgKinds, Places
          <6> QED BY <2>6, <4>1, <6>1, <6>2
        <5>2. t \in Int /\ 0 <= t /\ t <= i - o
          BY <2>2, <2>6
        <5>3. len(n) \in Int
          BY <1>1, <1>2
        <5>4. i \in Int /\ j \in Int /\ j <= len(n) /\ Len(F) = len(n) - o
          BY <1>3, <2>6
        <5> DEFINE x == len(n)
        <5>5. x \in Int /\ j <= x /\ Len(F) = x - o
          BY <5>3, <5>4
        <5> HIDE DEF x
        <5> QED BY <5>1, <5>2, <5>4, <5>5
      <4>6. g[t + 1] = ParseNext(F, g[t], t + 1)
        <5> DEFINE u == t + 1
        <5>1. u \in 1..Len(F) /\ u - 1 = t
          BY <1>3, <4>5
        <5> HIDE DEF u
        <5>2. g[u] = ParseNext(F, g[u - 1], u)
          BY <5>1
        <5> QED BY <5>1, <5>2 DEF u
      <4>7. g[t] \in Reader
        BY <2>2 DEF At
      <4>8. HoldsArg(F, g[t].i, list.m, k, arg) /\ After(arg, g[t].i) = j - o
        BY <3>3, <4>1, <4>4
      <4>9. After(arg, g[t].i) <= Len(F)
        BY <4>5, <4>8
      <4>10. At(g, F, t + 1, After(arg, g[t].i), Append(g[t].found, FoundArg(arg, list.m, k)))
        <5>1. g[t].a = Slots(g[t].found)
          BY <3>3
        <5> QED BY <1>3, <2>1, <2>5, <4>5, <4>6, <4>7, <4>8, <4>9, <5>1, TakeArg
      <4>11. At(g, F, t + 1, j - o, told[k])
        <5>1. told[k] = Append(g[t].found, FoundArg(arg, list.m, k))
          BY <2>7, <3>3
        <5> QED BY <4>8, <4>10, <5>1
      <4>12. t + 1 \in 0..j - o
        BY <2>6, <4>5
      <4> QED BY <4>11, <4>12
    <3> QED BY <2>2, <3>1, <3>2, <3>3 DEF At
  <2> QED BY <2>1, <2>7, <2>9 DEF S
<1>7. n \in S
  <2>1. 0 \in Int /\ n \in Int /\ n \in 0..n
    BY <1>1
  <2> HIDE DEF S
  <2>2. \A k \in 0..n : k \in S
    <3>1. \A k \in 0 + 1..n : k - 1 \in S => k \in S
      BY <1>1, <1>6
    <3> HIDE DEF n
    <3> QED BY <1>5, <2>1, <3>1, Parsing!RangeInduction
  <2> QED BY <2>1, <2>2
<1>8. PICK t \in 0..len(n) - o : At(g, F, t, len(n) - o, told[n])
  BY <1>7
<1> HIDE DEF n, len
<1>9. g[t].i = Len(F) /\ t \in 0..Len(F)
  BY <1>3, <1>8 DEF At
<1>10. g[Len(F)] = g[t]
  BY <1>3, <1>9, ParseEnds
<1>11. g[t].found = told[n] \/ (TooMany \in ToSet(g[t].found) /\ CRP_MAX_ARGS < Slots(told[n]))
  BY <1>8 DEF At
<1> QED BY <1>10, <1>11 DEF n

-----------------------------------------------------------------------------
(* A message in the buffer, and what recvChirp finds in it.                *)

\* The bytes of a header, and of the response integer behind that of a response.
IsHeaderOf(h, m, type, len) ==
  /\ h \in Seq(Byte) /\ Len(h) = (IF type = "response" THEN 16 ELSE 12)
  /\ h[1] = StartByte /\ h[2] = [is |-> "header", message |-> type, length |-> len]
  /\ \A k \in 2..Len(h) : h[k] \in Plain
  /\ type = "response" => \A k \in 1..4 : h[12 + k] = [is |-> "data", m |-> m, a |-> 0, k |-> k]

LEMMA HeaderBytes ==
  ASSUME NEW m \in Nat, NEW type \in Types, NEW len \in Int
  PROVE  IsHeaderOf(Header(m, type, len), m, type, len)
<1> DEFINE field == [is |-> "header", message |-> type, length |-> len]
           fields == [k \in 1..m_headerLen - 1 |-> field]
           start == <<[is |-> "start"]>>
           c == start \o fields
           int == IF type = "response" THEN DataBytes(m, 0, 4) ELSE <<>>
           h == c \o int
           n == IF type = "response" THEN 4 ELSE 0
<1>1. Header(m, type, len) = h
  BY DEF Header
<1>2. field \in Plain
  BY PlainBytes
<1> HIDE DEF field
<1>3. fields \in Seq(Plain) /\ Len(fields) = 11 /\ fields[1] = field
  <2> DEFINE z == m_headerLen - 1
  <2>1. z \in Nat /\ z = 11
    BY DEF m_headerLen
  <2> HIDE DEF z
  <2>2. fields = [k \in 1..z |-> field]
    BY DEF z
  <2>3. [k \in 1..z |-> field] \in [1..z -> Plain] /\ [k \in 1..z |-> field][1] = field
    BY <1>2, <2>1
  <2> HIDE DEF fields
  <2>4. fields \in Seq(Plain) /\ Len(fields) = z
    BY <2>1, <2>2, <2>3, ListOf
  <2> QED BY <2>1, <2>2, <2>3, <2>4
<1>4. start \in Seq(Byte) /\ Len(start) = 1 /\ start[1] = StartByte
  BY DEF Byte, StartByte
<1> HIDE DEF fields, start
<1>5. Extends(start, c) /\ Len(c) = 12
  <2>1. Extends(start, start \o fields) /\ Len(start \o fields) = Len(start) + Len(fields)
    BY <1>3, <1>4, ExtendsBy
  <2> HIDE DEF c
  <2>2. c = start \o fields
    BY DEF c
  <2> QED BY <1>3, <1>4, <2>1, <2>2
<1>6. c \in Seq(Byte) /\ c[1] = StartByte /\ c[2] = field
  <2>1. fields \in Seq(Byte)
    BY <1>3, PlainList
  <2>2. \A k \in 1..Len(fields) : (start \o fields)[Len(start) + k] = fields[k]
    BY <1>4, <2>1, Concat
  <2>3. c[1 + 1] = fields[1]
    <3> HIDE DEF c
    <3>1. 1 \in 1..Len(fields)
      BY <1>3
    <3>2. (start \o fields)[Len(start) + 1] = fields[1]
      BY <2>2, <3>1
    <3>3. c = start \o fields
      BY DEF c
    <3> QED BY <1>4, <3>2, <3>3
  <2> HIDE DEF c
  <2>4. c \in Seq(Byte) /\ c[1] = start[1]
    BY <1>4, <1>5 DEF Extends
  <2> QED BY <1>3, <1>4, <2>3, <2>4
<1>7. \A k \in 2..12 : c[k] \in Plain
  <2> SUFFICES ASSUME NEW k \in 2..12 PROVE c[k] \in Plain
    OBVIOUS
  <2> HIDE DEF c
  <2>1. k \in Len(start) + 1..Len(c)
    BY <1>4, <1>5
  <2> QED BY <1>5, <2>1 DEF Extends
<1> HIDE DEF c
<1>7a. /\ DataBytes(m, 0, 4) \in Seq(Plain) /\ Len(DataBytes(m, 0, 4)) = 4
       /\ \A k \in 1..4 : DataBytes(m, 0, 4)[k] = [is |-> "data", m |-> m, a |-> 0, k |-> k]
  <2> DEFINE d(z, y) == DataBytes(m, z, y)
  <2>1. \A z \in Nat : \A y \in Nat :
          /\ d(z, y) \in Seq(Plain) /\ Len(d(z, y)) = y
          /\ \A k \in 1..y : d(z, y)[k] = [is |-> "data", m |-> m, a |-> z, k |-> k]
    BY ListsOfBytes
  <2> QED BY <2>1
<1>7b. <<>> \in Seq(Plain) /\ Len(<<>>) = 0
  OBVIOUS
<1>8. int \in Seq(Plain) /\ Len(int) = n
  <2>1. CASE type = "response"
    BY <1>7a, <2>1
  <2>2. CASE type # "response"
    BY <1>7b, <2>2
  <2> QED BY <2>1, <2>2
<1>9. type = "response" => \A k \in 1..4 : int[k] = [is |-> "data", m |-> m, a |-> 0, k |-> k]
  BY <1>7a
<1> HIDE DEF int
<1>10. Extends(c, h) /\ Len(h) = 12 + n
  BY <1>5, <1>6, <1>8, ExtendsBy
<1>11. \A k \in 1..n : h[12 + k] = int[k]
  <2>1. int \in Seq(Byte)
    BY <1>8, PlainList
  <2>2. \A k \in 1..Len(int) : (c \o int)[Len(c) + k] = int[k]
    BY <1>6, <2>1, Concat
  <2> QED BY <1>5, <1>8, <2>2
<1> HIDE DEF h
<1>12. h \in Seq(Byte) /\ h[1] = StartByte /\ h[2] = field
  BY <1>5, <1>6, <1>10 DEF Extends
<1>13. \A k \in 2..Len(h) : h[k] \in Plain
  <2> SUFFICES ASSUME NEW k \in 2..Len(h) PROVE h[k] \in Plain
    OBVIOUS
  <2>1. CASE k <= 12
    <3>1. k \in 1..Len(c) /\ k \in 2..12
      BY <1>5, <2>1
    <3>2. h[k] = c[k]
      BY <1>10, <3>1, Kept
    <3> QED BY <1>7, <3>1, <3>2
  <2>2. CASE ~(k <= 12)
    <3>1. k \in Len(c) + 1..Len(h)
      BY <1>5, <2>2
    <3> QED BY <1>10, <3>1 DEF Extends
  <2> QED BY <2>1, <2>2
<1>14. Len(h) = (IF type = "response" THEN 16 ELSE 12)
  BY <1>10
<1>15. type = "response" => \A k \in 1..4 : h[12 + k] = [is |-> "data", m |-> m, a |-> 0, k |-> k]
  BY <1>9, <1>11
<1> QED BY <1>1, <1>12, <1>13, <1>14, <1>15 DEF field, IsHeaderOf

\* The bytes of a message of this type.
WholeMessage(b, type) ==
  /\ b \in Seq(Byte) /\ Len(b) >= 12 /\ b[1] = StartByte
  /\ b[2] = [is |-> "header", message |-> type, length |-> Len(b) - 12]
  /\ \A k \in 2..Len(b) : b[k] \in Plain

\* As Expected, of a message not yet sent.
ListOfMsg(m, msg) == [m |-> m, args |-> msg.args, hinformer |-> hinformer]
ToFind(m, msg) ==
  Loop(Tell, ListOfMsg(m, msg),
       IF msg.type = "response" THEN <<Found(TypeByte(RespInt), DataBytes(m, 0, 4))>> ELSE <<>>,
       0, Len(msg.args))

LEMMA ToFindValues ==
  ASSUME NEW m \in Nat, NEW msg, IsMessage(msg), hinformer \in BOOLEAN
  PROVE  /\ IsList(ListOfMsg(m, msg))
         /\ \E told : /\ told[0] = IF msg.type = "response" THEN <<FoundArg(RespInt, m, 0)>> ELSE <<>>
                      /\ told[0] \in Seq(Item)
                      /\ \A k \in 1..Len(msg.args) : told[k] = Tell(ListOfMsg(m, msg), told[k - 1], k)
                      /\ ToFind(m, msg) = told[Len(msg.args)]
<1> DEFINE n == Len(msg.args)
           list == ListOfMsg(m, msg)
           first == IF msg.type = "response" THEN <<FoundArg(RespInt, m, 0)>> ELSE <<>>
           r == Telling!Iterate(list, first, 0, n)
<1>1. IsList(list) /\ n \in Nat
  BY DEF IsMessage, IsList, ListOfMsg
<1>2. Count(RespInt) = 4 /\ IsArg(RespInt)
  BY DEF Count, RespInt, Arg, IsArg
<1>3. FoundArg(RespInt, m, 0) = Found(TypeByte(RespInt), DataBytes(m, 0, 4))
  BY <1>2 DEF FoundArg
<1>4. FoundArg(RespInt, m, 0) \in Item
  BY <1>2, FoundIsItem
<1> HIDE DEF FoundArg
<1>5. first \in Seq(Item)
  BY <1>4
<1>6. ToFind(m, msg) = r
  <2>1. ToFind(m, msg) = Loop(Tell, list, first, 0, n)
    BY <1>3, Zenon DEF ToFind
  <2> QED BY <2>1, Zenon DEF Loop, Telling!Iterate
<1> HIDE DEF first, r, list
<1>7. PICK f : Telling!IsIteration(f, list, first, 0, n) /\ Telling!Iterate(list, first, 0, n) = f[n]
  <2>1. n \in Int /\ 0 \in Int
    BY <1>1
  <2> QED BY <2>1, Telling!LoopValues
<1>8. f = [k \in 0..n |-> IF k = 0 THEN first ELSE Tell(list, f[k - 1], k)]
  BY <1>7, Zenon DEF Telling!IsIteration
<1>9. f[0] = first /\ \A k \in 1..n : f[k] = Tell(list, f[k - 1], k)
  <2>1. 0 \in 0..n
    BY <1>1
  <2>2. \A k \in 1..n : k \in 0..n /\ k # 0
    BY <1>1
  <2> HIDE DEF n
  <2>3. \A k \in 0..n : f[k] = IF k = 0 THEN first ELSE Tell(list, f[k - 1], k)
    BY <1>8
  <2> QED BY <2>1, <2>2, <2>3, Zenon
<1>10. ToFind(m, msg) = f[n]
  BY <1>6, <1>7 DEF r
<1> QED BY <1>1, <1>5, <1>9, <1>10 DEF list, first

\* The buffer after vassemble and the header of sendFull: the arguments behind a header.
LEMMA AssembledEffect ==
  ASSUME NEW m \in Nat, NEW msg, IsMessage(msg), hinformer \in BOOLEAN,
         m_buf.bufSize \in Int, CRP_BUFSIZE <= m_buf.bufSize
  PROVE  LET w == Assembled(m, msg)
             h == Header(m, msg.type, 0)
         IN /\ w.held /\ w.bufSize \in Int /\ CRP_BUFSIZE <= w.bufSize
            /\ WholeMessage(w.bytes, msg.type)
            /\ \E f : /\ Buffers(f, ListOfMsg(m, msg), h)
                      /\ Len(w.bytes) = Len(f[Len(msg.args)].bytes)
                      /\ Len(h) <= Len(w.bytes)
                      /\ \A k \in Len(h) + 1..Len(w.bytes) : w.bytes[k] = f[Len(msg.args)].bytes[k]
                      /\ msg.type = "response" =>
                           \A k \in 1..4 : w.bytes[12 + k] = [is |-> "data", m |-> m, a |-> 0, k |-> k]
<1> DEFINE list == ListOfMsg(m, msg)
           n == Len(msg.args)
           h == Header(m, msg.type, 0)
           out == vserialize(list, h, m_buf.bufSize)
           len == Len(out.bytes)
           H == Header(m, msg.type, len - m_headerLen)
           rest == SubSeq(out.bytes, Len(H) + 1, len)
           b == H \o rest
           w == Assembled(m, msg)
           l == IF msg.type = "response" THEN 16 ELSE 12
<1>1. msg.type \in Types /\ IsList(list) /\ list.args = msg.args
  <2>1. list.args = msg.args
    BY DEF ListOfMsg
  <2>2. msg.type \in Types /\ IsList(list)
    BY ToFindValues DEF IsMessage, Types
  <2> QED BY <2>1, <2>2
<1>2. h \in Seq(Byte) /\ Len(h) = l
  <2> DEFINE z == 0
  <2>1. z \in Int /\ h = Header(m, msg.type, z)
    OBVIOUS
  <2> HIDE DEF z, h
  <2>2. IsHeaderOf(Header(m, msg.type, z), m, msg.type, z)
    BY <1>1, <2>1, HeaderBytes
  <2> QED BY <2>1, <2>2 DEF IsHeaderOf
<1>3. l \in Nat /\ l >= 12 /\ l + CRP_BUFPAD <= CRP_BUFSIZE
  BY Sizes DEF m_headerLen, CRP_BUFPAD
<1> HIDE DEF list, h, l
<1>4. PICK f : Buffers(f, list, h) /\ out = f[n]
  <2>1. Len(h) + CRP_BUFPAD <= m_buf.bufSize
    BY <1>2, <1>3, Sizes DEF CRP_BUFPAD
  <2>2. \E f : Buffers(f, list, h) /\ vserialize(list, h, m_buf.bufSize) = f[Len(list.args)]
    BY <1>1, <1>2, <2>1, Sizes, Serialized
  <2> QED BY <1>1, <2>2
<1>5. out \in Writer /\ Roomy(out) /\ Extends(h, out.bytes)
  <2>1. 0 \in 0..n /\ n \in 0..n
    BY DEF IsMessage
  <2> QED BY <1>1, <1>4, <2>1 DEF Buffers
<1>6. Assembled(m, msg) = [out EXCEPT !.bytes = H \o SubSeq(@, Len(H) + 1, Len(@))]
  BY Zenon DEF Assembled, ListOfMsg, list, h
<1> HIDE DEF out
<1>7. out.bytes \in Seq(Byte) /\ len \in Nat /\ l <= len
  BY <1>2, <1>3, <1>5 DEF Writer, Extends
<1>8. w = [bytes |-> b, room |-> out.room, bufSize |-> out.bufSize, held |-> out.held]
  <2> DEFINE x == [out EXCEPT !.bytes = b]
  <2>1. w = [out EXCEPT !.bytes = b]
    BY <1>6
  <2> HIDE DEF w, b, len
  <2> QED BY <1>5, <2>1 DEF Writer
<1>9. /\ H \in Seq(Byte) /\ Len(H) = l /\ H[1] = StartByte
      /\ H[2] = [is |-> "header", message |-> msg.type, length |-> len - 12]
      /\ \A k \in 2..Len(H) : H[k] \in Plain
      /\ msg.type = "response" => \A k \in 1..4 : H[12 + k] = [is |-> "data", m |-> m, a |-> 0, k |-> k]
  <2> DEFINE z == len - m_headerLen
  <2>1. z \in Int /\ z = len - 12
    BY <1>7 DEF m_headerLen
  <2> HIDE DEF z
  <2>2. IsHeaderOf(Header(m, msg.type, z), m, msg.type, z)
    BY <1>1, <2>1, HeaderBytes
  <2> QED BY <2>1, <2>2 DEF l, z, H, IsHeaderOf
<1> HIDE DEF H, w
<1>10. /\ rest \in Seq(Byte) /\ Len(rest) = len - l
       /\ \A k \in 1..len - l : rest[k] = out.bytes[l + k]
  <2> HIDE DEF len
  <2>1. l \in Nat /\ len \in Nat /\ l <= len /\ len <= Len(out.bytes)
    BY <1>3, <1>7 DEF len
  <2> QED BY <1>7, <1>9, <2>1, Slice
<1> HIDE DEF rest, len
<1>11. /\ b \in Seq(Byte) /\ Len(b) = len
       /\ \A k \in 1..l : b[k] = H[k]
       /\ \A k \in l + 1..len : b[k] = out.bytes[k]
  <2>1. /\ b \in Seq(Byte) /\ Len(b) = l + (len - l)
        /\ \A k \in 1..l : b[k] = H[k]
        /\ \A k \in 1..len - l : b[l + k] = rest[k]
    <3>1. H \in Seq(Byte) /\ rest \in Seq(Byte)
      BY <1>9, <1>10
    <3>2. /\ H \o rest \in Seq(Byte) /\ Len(H \o rest) = Len(H) + Len(rest)
          /\ \A k \in 1..Len(H) : (H \o rest)[k] = H[k]
          /\ \A k \in 1..Len(rest) : (H \o rest)[Len(H) + k] = rest[k]
      BY <3>1, Concat
    <3> QED BY <1>9, <1>10, <3>2
  <2> HIDE DEF b
  <2>2. ASSUME NEW k \in l + 1..len PROVE b[k] = out.bytes[k]
    <3>1. k - l \in 1..len - l /\ l + (k - l) = k
      BY <1>3, <1>7
    <3> QED BY <1>10, <2>1, <3>1
  <2> QED BY <1>3, <1>7, <2>1, <2>2
<1> HIDE DEF b
<1>12. WholeMessage(b, msg.type)
  <2>1. ASSUME NEW k \in 2..len PROVE b[k] \in Plain
    <3>1. CASE k <= l
      <4>1. k \in 1..l /\ k \in 2..Len(H)
        BY <1>3, <1>9, <3>1
      <4> QED BY <1>9, <1>11, <4>1
    <3>2. CASE ~(k <= l)
      <4>1. k \in l + 1..len /\ k \in Len(h) + 1..Len(out.bytes)
        BY <1>2, <1>3, <1>7, <3>2 DEF len
      <4> QED BY <1>5, <1>11, <4>1 DEF Extends
    <3> QED BY <3>1, <3>2
  <2>2. b[1] = StartByte /\ b[2] = [is |-> "header", message |-> msg.type, length |-> len - 12]
    <3>1. 1 \in 1..l /\ 2 \in 1..l
      BY <1>3
    <3> QED BY <1>9, <1>11, <3>1
  <2>3. len >= 12
    BY <1>3, <1>7
  <2> QED BY <1>11, <2>1, <2>2, <2>3 DEF WholeMessage
<1>13. msg.type = "response" => \A k \in 1..4 : b[12 + k] = [is |-> "data", m |-> m, a |-> 0, k |-> k]
  <2> SUFFICES ASSUME msg.type = "response", NEW k \in 1..4
               PROVE  b[12 + k] = [is |-> "data", m |-> m, a |-> 0, k |-> k]
    OBVIOUS
  <2>1. 12 + k \in 1..l
    BY DEF l
  <2> QED BY <1>9, <1>11, <2>1
<1>14. out.held /\ out.bufSize \in Int /\ CRP_BUFSIZE <= out.bufSize
  BY <1>5 DEF Writer, Roomy, Sized
<1>15. w.held = out.held /\ w.bufSize = out.bufSize /\ w.bytes = b
  BY <1>8
<1>16. \A k \in Len(h) + 1..Len(w.bytes) : w.bytes[k] = f[n].bytes[k]
  BY <1>2, <1>4, <1>11, <1>15
<1>17. Len(w.bytes) = Len(f[n].bytes) /\ Len(h) <= Len(w.bytes)
  BY <1>2, <1>4, <1>7, <1>11, <1>15 DEF len
<1> HIDE DEF n
<1> QED BY <1>4, <1>12, <1>13, <1>14, <1>15, <1>16, <1>17 DEF w, h, list, n

\* What recvChirp takes the arguments from.
Typed(b) ==
  [k \in 1..Len(b) |-> IF b[2].message = "response" /\ k \in {m_headerLen - 3, m_headerLen}
                       THEN TypeByte(RespInt) ELSE b[k]]
Arguments(b) == SubSeq(Typed(b), Offset(b[2].message) + 1, Len(Typed(b)))

LEMMA ArgumentBytes ==
  ASSUME NEW type \in Types, NEW b, WholeMessage(b, type), type = "response" => Len(b) >= 16
  PROVE  LET o == IF type = "response" THEN 8 ELSE 12
             F == Arguments(b)
         IN /\ FoundIn(b) = Parse(F) /\ F \in Seq(Byte) /\ Len(F) = Len(b) - o
            /\ \A k \in 13..Len(b) : F[k - o] = b[k]
            /\ type = "response" => F[1] = TypeByte(RespInt) /\ F[4] = TypeByte(RespInt)
<1> DEFINE o == IF type = "response" THEN 8 ELSE 12
           c == Typed(b)
           F == Arguments(b)
           l == Len(b)
<1>1. b \in Seq(Byte) /\ l \in Nat /\ l >= 12 /\ b[2].message = type /\ o \in Nat /\ o <= l
  BY DEF WholeMessage
<1>2. FoundIn(b) = Parse(F)
  BY Zenon DEF FoundIn, Arguments, Typed
<1>3. TypeByte(RespInt) \in Byte
  <2>1. IsArg(RespInt)
    BY DEF RespInt, Arg, IsArg
  <2> QED BY <2>1, PlainBytes DEF Byte
<1>4. /\ c \in Seq(Byte) /\ Len(c) = l /\ \A k \in 13..l : c[k] = b[k]
      /\ type = "response" => c[9] = TypeByte(RespInt) /\ c[12] = TypeByte(RespInt)
  <2> DEFINE e(k) == IF type = "response" /\ k \in {9, 12} THEN TypeByte(RespInt) ELSE b[k]
  <2>1. c = [k \in 1..l |-> e(k)]
    BY <1>1 DEF Typed, m_headerLen
  <2>2. \A k \in 1..l : e(k) \in Byte
    BY <1>1, <1>3
  <2>3. \A k \in 13..l : e(k) = b[k]
    OBVIOUS
  <2>4. type = "response" => e(9) = TypeByte(RespInt) /\ e(12) = TypeByte(RespInt)
    OBVIOUS
  <2>5. \A k \in 13..l : k \in 1..l
    BY <1>1
  <2>6. 9 \in 1..l /\ 12 \in 1..l
    BY <1>1
  <2> HIDE DEF e, c, l
  <2>7. c \in [1..l -> Byte]
    BY <2>1, <2>2
  <2>8. c \in Seq(Byte) /\ Len(c) = l
    BY <1>1, <2>7, ListOf
  <2>9. \A k \in 1..l : c[k] = e(k)
    BY <2>1
  <2> QED BY <2>3, <2>4, <2>5, <2>6, <2>8, <2>9
<1>5. F = SubSeq(c, o + 1, l)
  <2>1. Offset(type) = o
    BY DEF Offset, m_headerLen
  <2> QED BY <1>1, <1>4, <2>1 DEF Arguments
<1> HIDE DEF c
<1>6. /\ F \in Seq(Byte) /\ Len(F) = l - o
      /\ \A k \in 1..l - o : F[k] = c[o + k]
  <2> HIDE DEF o, l, F
  <2>1. l <= Len(c)
    BY <1>1, <1>4
  <2> QED BY <1>1, <1>4, <1>5, <2>1, Slice
<1> HIDE DEF F, l
<1>7. ASSUME NEW k \in 13..l PROVE F[k - o] = b[k]
  <2>1. k - o \in 1..l - o /\ o + (k - o) = k
    BY <1>1
  <2> QED BY <1>4, <1>6, <2>1
<1>8. type = "response" => F[1] = TypeByte(RespInt) /\ F[4] = TypeByte(RespInt)
  <2> SUFFICES ASSUME type = "response" PROVE F[1] = TypeByte(RespInt) /\ F[4] = TypeByte(RespInt)
    OBVIOUS
  <2>1. 1 \in 1..l - o /\ 4 \in 1..l - o /\ o + 1 = 9 /\ o + 4 = 12
    BY <1>1 DEF l
  <2> QED BY <1>4, <1>6, <2>1
<1> QED BY <1>2, <1>6, <1>7, <1>8 DEF F, l

\* What recvChirp and deserializeParse find in a message that vassemble and sendFull made of
\* any list of arguments is that list, each with its type and data, without the hints that
\* were not asked for; unless it has more than CRP_MAX_ARGS arguments, an array counted as two,
\* which recvChirp reports as an error; as long as the numbers of 8 bytes are in a response.
THEOREM FindsSent ==
  ASSUME NEW m \in Nat, NEW msg, IsMessage(msg), Aligns(msg), hinformer \in BOOLEAN,
         m_buf.bufSize \in Int, CRP_BUFSIZE <= m_buf.bufSize
  PROVE  LET found == FoundIn(Assembled(m, msg).bytes)
         IN \/ found = ToFind(m, msg)
            \/ TooMany \in ToSet(found) /\ CRP_MAX_ARGS < Slots(ToFind(m, msg))
<1> DEFINE list == ListOfMsg(m, msg)
           n == Len(msg.args)
           h == Header(m, msg.type, 0)
           b == Assembled(m, msg).bytes
           o == IF msg.type = "response" THEN 8 ELSE 12
           F == Arguments(b)
           t0 == IF msg.type = "response" THEN 1 ELSE 0
<1>1. msg.type \in Types /\ IsList(list) /\ list.args = msg.args
  <2>1. list.args = msg.args
    BY DEF ListOfMsg
  <2>2. msg.type \in Types /\ IsList(list)
    BY ToFindValues DEF IsMessage, Types
  <2> QED BY <2>1, <2>2
<1>2. h \in Seq(Byte) /\ Len(h) = IF msg.type = "response" THEN 16 ELSE 12
  <2> DEFINE z == 0
  <2>1. z \in Int /\ h = Header(m, msg.type, z)
    OBVIOUS
  <2> HIDE DEF z, h
  <2>2. IsHeaderOf(Header(m, msg.type, z), m, msg.type, z)
    BY <1>1, <2>1, HeaderBytes
  <2> QED BY <2>1, <2>2 DEF IsHeaderOf
<1>3. PICK f : /\ Buffers(f, list, h) /\ Len(b) = Len(f[n].bytes) /\ Len(h) <= Len(b)
               /\ \A k \in Len(h) + 1..Len(b) : b[k] = f[n].bytes[k]
               /\ msg.type = "response" =>
                    \A k \in 1..4 : b[12 + k] = [is |-> "data", m |-> m, a |-> 0, k |-> k]
  BY AssembledEffect
<1>4. WholeMessage(b, msg.type)
  BY AssembledEffect
<1> HIDE DEF b, h, list
<1>5. /\ FoundIn(b) = Parse(F) /\ F \in Seq(Byte) /\ Len(F) = Len(b) - o
      /\ \A k \in 13..Len(b) : F[k - o] = b[k]
      /\ msg.type = "response" => F[1] = TypeByte(RespInt) /\ F[4] = TypeByte(RespInt)
  <2>1. msg.type = "response" => Len(b) >= 16
    BY <1>2, <1>3, <1>4 DEF WholeMessage
  <2> QED BY <1>1, <1>4, <2>1, ArgumentBytes
<1> HIDE DEF F
<1>6. PICK told : /\ told[0] = IF msg.type = "response" THEN <<FoundArg(RespInt, m, 0)>> ELSE <<>>
                  /\ told[0] \in Seq(Item)
                  /\ \A k \in 1..n : told[k] = Tell(list, told[k - 1], k)
                  /\ ToFind(m, msg) = told[n]
  BY ToFindValues DEF list
<1>7. PICK g : /\ g[0] = [i |-> 0, a |-> 0, found |-> <<>>]
               /\ \A k \in 1..Len(F) : g[k] = ParseNext(F, g[k - 1], k)
               /\ Parse(F) = g[Len(F)].found
  BY <1>5, ParseValues
<1>8. g[0] \in Reader /\ g[0].i = 0 /\ g[0].a = 0 /\ g[0].found = <<>>
  <2>1. [i |-> 0, a |-> 0, found |-> <<>>] \in Reader
    BY DEF Reader
  <2> QED BY <1>7, <2>1
<1>9. o \in {8, 12} /\ o <= Len(h) /\ t0 \in 0..Len(h) - o
  BY <1>2
<1>10. At(g, F, t0, Len(h) - o, told[0])
  <2>1. CASE msg.type # "response"
    BY <1>2, <1>6, <1>8, <2>1, NoSlots DEF At
  <2>2. CASE msg.type = "response"
    <3>1. IsArg(RespInt) /\ RespInt.kind = "scalar" /\ RespInt.size = 4 /\ Count(RespInt) = 4
      BY DEF RespInt, Arg, IsArg, Count
    <3>2. TypeAt(RespInt, 0) = 4 /\ First(RespInt, 0) = 4 /\ After(RespInt, 0) = 8
      BY <3>1 DEF TypeAt, First, After, Align
    <3>3. Len(b) \in Nat /\ Len(b) >= 16 /\ Len(F) = Len(b) - 8
      BY <1>2, <1>3, <1>4, <1>5, <2>2 DEF WholeMessage
    <3>4. \A k \in 1..4 : F[4 + k] = [is |-> "data", m |-> m, a |-> 0, k |-> k]
      <4> SUFFICES ASSUME NEW k \in 1..4 PROVE F[4 + k] = [is |-> "data", m |-> m, a |-> 0, k |-> k]
        OBVIOUS
      <4> DEFINE q == 12 + k
      <4>1. q \in 13..Len(b) /\ q - o = 4 + k
        BY <2>2, <3>3
      <4>2. b[q] = [is |-> "data", m |-> m, a |-> 0, k |-> k]
        BY <1>3, <2>2
      <4> HIDE DEF q
      <4>3. F[q - o] = b[q]
        BY <1>5, <4>1
      <4> QED BY <4>1, <4>2, <4>3
    <3>5. HoldsArg(F, 0, m, 0, RespInt)
      BY <1>5, <2>2, <3>1, <3>2, <3>4 DEF HoldsArg
    <3> DEFINE t == 0
    <3>6. t \in Nat /\ g[t + 1] = ParseNext(F, g[t], t + 1) /\ t + 1 <= Len(F)
      <4>1. 1 \in 1..Len(F)
        BY <3>3
      <4>2. g[1] = ParseNext(F, g[1 - 1], 1)
        BY <1>7, <4>1
      <4> QED BY <3>3, <4>2
    <3>7. HoldsArg(F, g[t].i, m, 0, RespInt) /\ After(RespInt, g[t].i) = 8 /\ 8 <= Len(F) /\ g[t] \in Reader
      BY <1>8, <3>2, <3>3, <3>5
    <3>8. 0 \in Nat
      OBVIOUS
    <3>9. t + 1 = 1 /\ g[t].found = <<>>
      BY <1>8
    <3> HIDE DEF t
    <3>10. At(g, F, t + 1, After(RespInt, g[t].i), Append(g[t].found, FoundArg(RespInt, m, 0)))
      <4>1. g[t].a = Slots(g[t].found)
        BY <1>8, <3>9, NoSlots DEF t
      <4> QED BY <1>5, <3>1, <3>6, <3>7, <3>8, <4>1, TakeArg
    <3>11. Append(<<>>, FoundArg(RespInt, m, 0)) = <<FoundArg(RespInt, m, 0)>>
      OBVIOUS
    <3>12. told[0] = Append(g[t].found, FoundArg(RespInt, m, 0)) /\ Len(h) - o = 8 /\ t0 = t + 1
      BY <1>2, <1>6, <2>2, <3>9, <3>11
    <3> QED BY <3>7, <3>10, <3>12
  <2> QED BY <2>1, <2>2
<1>11. o = 12 => \A a \in 1..n : msg.args[a].size # 8
  BY DEF Aligns
<1>12. Behind(F, f[n].bytes, o, Len(h))
  <2>1. ASSUME NEW k \in Len(h) + 1..Len(b) PROVE F[k - o] = f[n].bytes[k]
    <3>1. k \in 13..Len(b)
      BY <1>2, <1>4 DEF WholeMessage
    <3> QED BY <1>3, <1>5, <3>1
  <2> QED BY <1>3, <1>5, <2>1 DEF Behind
<1> HIDE DEF o, t0
<1>13. \/ g[Len(F)].found = told[n]
       \/ TooMany \in ToSet(g[Len(F)].found) /\ CRP_MAX_ARGS < Slots(told[n])
  <2>1. \/ g[Len(F)].found = told[Len(list.args)]
        \/ TooMany \in ToSet(g[Len(F)].found) /\ CRP_MAX_ARGS < Slots(told[Len(list.args)])
    <3>1. /\ Buffers(f, list, h) /\ told[0] \in Seq(Item)
          /\ \A k \in 1..Len(list.args) : told[k] = Tell(list, told[k - 1], k)
          /\ o = 12 => \A a \in 1..Len(list.args) : list.args[a].size # 8
          /\ Behind(F, f[Len(list.args)].bytes, o, Len(h))
      BY <1>1, <1>3, <1>6, <1>11, <1>12
    <3> HIDE DEF n
    <3>2. Reads(list, f, h, told, o, F, g, t0)
      BY <1>1, <1>2, <1>7, <1>9, <1>10, <3>1 DEF Reads
    <3> QED BY <3>2, RoundTrip
  <2> QED BY <1>1, <2>1
<1> QED BY <1>5, <1>6, <1>7, <1>13 DEF b

-----------------------------------------------------------------------------
(* The way of a message.                                                   *)

Bytes(m) == sent[m].bytes

\* The transfer that ends with this packet has brought all of the message.
Final(p) == p.at + Len(p.bytes) >= Len(Bytes(p.m))

\* An attempt is known by the message and its number.
Earlier(p, q) == p.m < q.m \/ (p.m = q.m /\ p.try < q.try)

Current == [m |-> Len(sent), try |-> attempts[Len(sent)]]

\* The next packet of the attempt, or the first of a later one.
Follows(p, q) ==
  IF Final(p) THEN q.at = 0 /\ Earlier(p, q)
  ELSE q.m = p.m /\ q.try = p.try /\ q.at = p.at + Len(p.bytes)

\* A packet carries its part of the message; only the first goes beyond the end.
IsPart(p, bytes, tries) ==
  /\ p.try \in 1..tries /\ p.at < Len(bytes) /\ Len(p.bytes) \in 1..CRP_MAX_HEADER_LEN
  /\ IF p.at = 0 THEN Len(p.bytes) = CRP_MAX_HEADER_LEN ELSE p.at + Len(p.bytes) <= Len(bytes)
  /\ \A k \in 1..Len(p.bytes) :
       p.bytes[k] = IF p.at + k <= Len(bytes) THEN bytes[p.at + k] ELSE PadByte

IsPacket(p) == p.m \in 1..Len(sent) /\ IsPart(p, Bytes(p.m), attempts[p.m])

Sent == [msg : Messages, bytes : Seq(Byte)]
Carried == [m : Nat, try : Nat, at : Nat, bytes : Seq(Byte)]
Faults == {"none", "missed", "damaged"}
Taken == [m : Nat, try : Nat, found : {FoundIn(b) : b \in Seq(Byte)}, fault : Faults]

\* The types, finer than in TypeOK.
LinkTypes ==
  /\ hinformer \in BOOLEAN /\ sent \in Seq(Sent) /\ Len(sent) <= MaxMessages
  /\ sender \in {"idle", "header", "body"} /\ receiver \in {"header", "body"}
  /\ attempts \in Seq(1..m_retries) /\ Len(attempts) = Len(sent)
  /\ reported \subseteq 1..Len(sent) /\ calm \in 1..MaxMessages /\ fault \in Faults
  /\ link \in Seq(Carried) /\ got \in Seq(Byte) /\ want \in Int /\ (receiver = "body" => Len(got) < want)
  /\ accepted \in Seq(Taken)

\* A message as it was assembled, and what there is to find in it.
ToFindBy(m, msg, informer) ==
  Loop(Tell, [m |-> m, args |-> msg.args, hinformer |-> informer],
       IF msg.type = "response" THEN <<Found(TypeByte(RespInt), DataBytes(m, 0, 4))>> ELSE <<>>,
       0, Len(msg.args))

IsWhole(s, m, informer) ==
  /\ WholeMessage(s.bytes, s.msg.type)
  /\ Aligns(s.msg) => TooMany \in ToSet(FoundIn(s.bytes)) \/ FoundIn(s.bytes) = ToFindBy(m, s.msg, informer)

\* Each message is whole, and what is found in its bytes is what it is to be.
SentIsWhole == \A m \in 1..Len(sent) : IsWhole(sent[m], m, hinformer)

\* The sender's buffer has not been overrun, and holds the message that is being sent.
Buffered ==
  /\ m_buf.held /\ m_buf.bufSize \in Int /\ CRP_BUFSIZE <= m_buf.bufSize
  /\ sender # "idle" => Len(sent) \in 1..Len(sent) /\ m_buf.bytes = Bytes(Len(sent))
  /\ sender = "body" => IsLong

\* The packets under way are parts of messages sent, of attempts that were made.
PacketsAreParts == \A i \in 1..Len(link) : IsPacket(link[i])

\* What holds whatever goes wrong.
PartsInv == LinkTypes /\ SentIsWhole /\ Buffered /\ PacketsAreParts

LEMMA PartsInit == Init => PartsInv
<1> SUFFICES ASSUME Init PROVE PartsInv
  OBVIOUS
<1>1. LinkTypes
  BY Sizes DEF Init, LinkTypes, Faults
<1>2. Buffered
  BY Sizes DEF Init, Buffered, Empty
<1>3. SentIsWhole /\ PacketsAreParts
  BY DEF Init, SentIsWhole, PacketsAreParts
<1> QED BY <1>1, <1>2, <1>3 DEF PartsInv

\* Times and divided by, for a transfer of any size.
LEMMA Multiples ==
  ASSUME NEW X \in Nat \ {0}, NEW a \in Int, NEW b \in Int
  PROVE  /\ a <= b => a * X <= b * X
         /\ a * X < b * X => a < b
         /\ (a + 1) * X = a * X + X /\ a * X \in Int
OBVIOUS

LEMMA Quotient ==
  ASSUME NEW X \in Nat \ {0}, NEW a \in Nat
  PROVE  /\ a \div X \in Nat /\ (a \div X) * X <= a /\ a < (a \div X) * X + X
         /\ (a * X) \div X = a
<1>1. \A b \in Nat : b \div X \in Nat /\ (b \div X) * X <= b /\ b < (b \div X) * X + X
  OBVIOUS
<1>2. (a * X) \div X = a
  <2> DEFINE q == (a * X) \div X
  <2>1. q \in Nat /\ q * X <= a * X /\ a * X < q * X + X
    BY <1>1
  <2> HIDE DEF q
  <2>2. a < q + 1 /\ ~(a < q)
    BY <2>1
  <2> QED BY <2>1, <2>2 DEF q
<1> QED BY <1>1, <1>2

LEMMA LastIs ==
  ASSUME NEW S, NEW s \in Seq(S), s # <<>>
  PROVE  Last(s) = s[Len(s)] /\ Len(s) \in 1..Len(s) /\ Last(s) \in S
BY DEF Last

-----------------------------------------------------------------------------
(* What is sent.                                                           *)

LEMMA AttemptUnderWay ==
  ASSUME PartsInv, sender # "idle"
  PROVE  /\ Len(sent) \in 1..Len(sent) /\ Last(attempts) = attempts[Len(sent)]
         /\ attempts[Len(sent)] \in 1..m_retries
         /\ WholeMessage(m_buf.bytes, sent[Len(sent)].msg.type) /\ m_buf.bytes = Bytes(Len(sent))
<1>1. Len(sent) \in 1..Len(sent) /\ m_buf.bytes = Bytes(Len(sent)) /\ LinkTypes
  BY DEF PartsInv, Buffered
<1>2. attempts # <<>> /\ attempts \in Seq(1..m_retries) /\ Len(attempts) = Len(sent)
  BY <1>1 DEF LinkTypes
<1>3. Last(attempts) = attempts[Len(sent)] /\ attempts[Len(sent)] \in 1..m_retries
  BY <1>1, <1>2, LastIs
<1> QED BY <1>1, <1>3 DEF PartsInv, SentIsWhole, IsWhole, Bytes

LEMMA HeaderPacketEffect ==
  ASSUME PartsInv, sender # "idle"
  PROVE  /\ HeaderPacket \in Carried /\ IsPacket(HeaderPacket) /\ HeaderPacket.at = 0
         /\ HeaderPacket.m = Len(sent) /\ HeaderPacket.try = attempts[Len(sent)]
<1> DEFINE b == m_buf.bytes
           X == CRP_MAX_HEADER_LEN
           pad == Padding(X)
           c == b \o pad
           s == SubSeq(c, 1, X)
           p == HeaderPacket
<1>1. /\ b \in Seq(Byte) /\ Len(b) >= 12 /\ b = Bytes(Len(sent)) /\ Last(attempts) = attempts[Len(sent)]
      /\ Len(sent) \in 1..Len(sent) /\ attempts[Len(sent)] \in 1..m_retries
  BY AttemptUnderWay DEF WholeMessage
<1>2. X \in Nat /\ X > 0
  BY Sizes DEF m_headerLen
<1>3. pad \in Seq(Byte) /\ Len(pad) = X /\ \A k \in 1..X : pad[k] = PadByte
  <2>1. pad \in [1..X -> Byte] /\ \A k \in 1..X : pad[k] = PadByte
    BY PlainBytes DEF Padding, Byte
  <2> HIDE DEF pad
  <2> QED BY <1>2, <2>1, ListOf
<1> HIDE DEF pad, b, X
<1>4. /\ c \in Seq(Byte) /\ Len(c) = Len(b) + X
      /\ \A k \in 1..Len(b) : c[k] = b[k]
      /\ \A k \in 1..X : c[Len(b) + k] = PadByte
  <2>1. /\ c \in Seq(Byte) /\ Len(c) = Len(b) + Len(pad)
        /\ \A k \in 1..Len(b) : c[k] = b[k]
        /\ \A k \in 1..Len(pad) : c[Len(b) + k] = pad[k]
    BY <1>1, <1>3
  <2> HIDE DEF c
  <2> QED BY <1>3, <2>1
<1> HIDE DEF c
<1>5. s \in Seq(Byte) /\ Len(s) = X /\ \A k \in 1..X : s[k] = c[k]
  BY <1>1, <1>2, <1>4
<1>6. \A k \in 1..X : s[k] = IF k <= Len(b) THEN b[k] ELSE PadByte
  <2> SUFFICES ASSUME NEW k \in 1..X PROVE s[k] = IF k <= Len(b) THEN b[k] ELSE PadByte
    OBVIOUS
  <2> HIDE DEF s
  <2>1. CASE k <= Len(b)
    <3>1. k \in 1..Len(b)
      BY <1>1, <2>1
    <3> QED BY <1>4, <1>5, <2>1, <3>1
  <2>2. CASE ~(k <= Len(b))
    <3> DEFINE q == k - Len(b)
    <3>1. q \in 1..X /\ Len(b) + q = k
      BY <1>1, <1>2, <2>2
    <3> HIDE DEF q
    <3> QED BY <1>4, <1>5, <2>2, <3>1
  <2> QED BY <2>1, <2>2
<1>7. p = [m |-> Len(sent), try |-> attempts[Len(sent)], at |-> 0, bytes |-> s]
  BY <1>1 DEF HeaderPacket, Packet, s, c, b, pad, X
<1> HIDE DEF s, p
<1>8. p.m = Len(sent) /\ p.try = attempts[Len(sent)] /\ p.at = 0 /\ p.bytes = s
  BY <1>7
<1>9. p \in Carried
  BY <1>1, <1>5, <1>7, Sizes DEF Carried
<1>10. IsPacket(p)
  <2>1. attempts[Len(sent)] \in 1..attempts[Len(sent)]
    BY <1>1, Sizes
  <2>2. p.at < Len(Bytes(p.m)) /\ Len(p.bytes) \in 1..X /\ Len(p.bytes) = X
    BY <1>1, <1>2, <1>5, <1>8
  <2>3. \A k \in 1..Len(p.bytes) : p.bytes[k] = IF p.at + k <= Len(Bytes(p.m)) THEN Bytes(p.m)[p.at + k] ELSE PadByte
    <3>1. \A k \in 1..X : 0 + k = k
      BY <1>2
    <3> QED BY <1>1, <1>5, <1>6, <1>8, <3>1
  <2> QED BY <1>1, <1>8, <2>1, <2>2, <2>3 DEF IsPacket, IsPart, X
<1> QED BY <1>8, <1>9, <1>10 DEF p

\* The packets of the rest join, and only the last is the end.
LEMMA BodyPacketsEffect ==
  ASSUME PartsInv, sender = "body"
  PROVE  LET P == BodyPackets
         IN /\ P \in Seq(Carried) /\ P # <<>> /\ P[1].at = CRP_MAX_HEADER_LEN
            /\ \A i \in 1..Len(P) :
                 /\ IsPacket(P[i]) /\ P[i].m = Len(sent) /\ P[i].try = attempts[Len(sent)] /\ P[i].at # 0
                 /\ IF i = Len(P) THEN Final(P[i])
                    ELSE ~Final(P[i]) /\ P[i + 1].at = P[i].at + Len(P[i].bytes)
<1> DEFINE b == m_buf.bytes
           X == CRP_MAX_HEADER_LEN
           len == Len(b)
           rest == len - X
           count == Align(rest, X) \div X
           from(i) == i * X
           upto(i) == Min({from(i) + X, len})
           p(i) == Packet(from(i), SubSeq(b, from(i) + 1, upto(i)))
           P == BodyPackets
<1>1. /\ b \in Seq(Byte) /\ b = Bytes(Len(sent)) /\ Last(attempts) = attempts[Len(sent)]
      /\ Len(sent) \in 1..Len(sent) /\ attempts[Len(sent)] \in 1..m_retries
  BY AttemptUnderWay DEF WholeMessage
<1>2. X \in Nat \ {0} /\ len \in Nat /\ len > X
  <2>1. IsLong
    BY DEF PartsInv, Buffered
  <2> QED BY <1>1, <2>1, Sizes DEF m_headerLen, IsLong
<1>3. P = [i \in 1..count |-> p(i)]
  BY DEF BodyPackets
<1> HIDE DEF P, b, X, len
<1>4. rest \in Nat /\ rest > 0
  BY <1>2
<1> HIDE DEF rest
<1>5. count \in Nat /\ count > 0 /\ count * X < rest + X /\ rest <= count * X
  <2> DEFINE q == (rest + X - 1) \div X
             top == rest + X - 1
  <2>1. top \in Nat
    BY <1>2, <1>4
  <2>2. q \in Nat /\ q * X <= top /\ top < q * X + X /\ (q * X) \div X = q
    <3> HIDE DEF top
    <3>1. top \div X \in Nat /\ (top \div X) * X <= top /\ top < (top \div X) * X + X
      BY <1>2, <2>1, Quotient
    <3>2. top \div X = q
      BY DEF top
    <3> HIDE DEF q
    <3> QED BY <1>2, <3>1, <3>2, Quotient
  <2>3. count = q
    BY <2>2 DEF Align
  <2> HIDE DEF q, count
  <2>4. q * X \in Int
    BY <1>2, <2>2, Multiples
  <2>5. q * X < rest + X /\ rest <= q * X
    BY <1>2, <1>4, <2>2, <2>4
  <2>6. q > 0
    BY <1>2, <1>4, <2>2, <2>5
  <2> QED BY <2>2, <2>3, <2>5, <2>6
<1> HIDE DEF count
<1>6. ASSUME NEW i \in 1..count
      PROVE  /\ from(i) \in Nat /\ X <= from(i) /\ from(i) < len
             /\ i = count => len <= from(i) + X
             /\ i # count => from(i) + X < len /\ from(i + 1) = from(i) + X
  <2>1. i \in Int /\ i + 1 \in Int /\ 1 <= i /\ i <= count
    BY <1>5
  <2>2. from(1) <= from(i) /\ from(i) <= from(count) /\ from(i + 1) = from(i) + X /\ from(i) \in Int /\ from(count) \in Int
    BY <1>2, <1>5, <2>1, Multiples
  <2>3. from(1) = X
    BY <1>2
  <2>4. i # count => from(i + 1) <= from(count)
    <3>1. i # count => i + 1 <= count
      BY <1>5, <2>1
    <3> QED BY <1>2, <1>5, <2>1, <3>1, Multiples
  <2>5. from(count) < len /\ len <= from(count) + X
    <3>1. from(count) < rest + X /\ rest <= from(count)
      BY <1>5
    <3> HIDE DEF from
    <3> QED BY <1>2, <2>2, <3>1 DEF rest
  <2> HIDE DEF from
  <2> QED BY <1>2, <2>1, <2>2, <2>3, <2>4, <2>5
<1>7. from(1) = X
  BY <1>2
<1> HIDE DEF from
<1>8. ASSUME NEW i \in 1..count
      PROVE  /\ p(i) \in Carried /\ IsPacket(p(i))
             /\ p(i).m = Len(sent) /\ p(i).try = attempts[Len(sent)] /\ p(i).at = from(i) /\ p(i).at # 0
             /\ IF i = count THEN Final(p(i)) ELSE ~Final(p(i)) /\ from(i + 1) = p(i).at + Len(p(i).bytes)
  <2> DEFINE end == upto(i)
             s == SubSeq(b, from(i) + 1, end)
  <2>1. /\ from(i) \in Nat /\ X <= from(i) /\ from(i) < len
        /\ i = count => len <= from(i) + X
        /\ i # count => from(i) + X < len /\ from(i + 1) = from(i) + X
    BY <1>6
  <2>2. end = IF i = count THEN len ELSE from(i) + X
    <3> DEFINE S == {from(i) + X, len}
               e == IF i = count THEN len ELSE from(i) + X
    <3>1. S \in SUBSET Int /\ e \in S /\ \A k \in S : e <= k
      BY <1>2, <2>1
    <3> HIDE DEF S, e
    <3>2. Min(S) = e
      BY <3>1, FirstNull
    <3> QED BY <3>2 DEF S, e
  <2> HIDE DEF end
  <2>3. end \in Nat /\ from(i) < end /\ end <= len /\ end - from(i) \in 1..X
    BY <1>2, <2>1, <2>2
  <2>4. s \in Seq(Byte) /\ Len(s) = end - from(i) /\ \A k \in 1..end - from(i) : s[k] = b[from(i) + k]
    BY <1>1, <2>1, <2>3, Slice DEF len
  <2>5. p(i) = [m |-> Len(sent), try |-> attempts[Len(sent)], at |-> from(i), bytes |-> s]
    BY <1>1 DEF Packet, end
  <2> HIDE DEF s, p
  <2>6. p(i).m = Len(sent) /\ p(i).try = attempts[Len(sent)] /\ p(i).at = from(i) /\ p(i).bytes = s
    BY <2>5
  <2>7. p(i) \in Carried
    BY <1>1, <2>1, <2>4, <2>5, Sizes DEF Carried
  <2>8. p(i).at # 0 /\ p(i).at + Len(p(i).bytes) = end /\ Bytes(p(i).m) = b /\ Len(p(i).bytes) = end - from(i)
    <3>1. Len(p(i).bytes) = end - from(i) /\ p(i).at = from(i)
      BY <2>4, <2>6
    <3>2. Bytes(p(i).m) = b
      BY <1>1, <2>6
    <3>3. from(i) # 0 /\ from(i) + (end - from(i)) = end
      BY <1>2, <2>1, <2>3
    <3> QED BY <3>1, <3>2, <3>3
  <2>9. IsPacket(p(i))
    <3>1. attempts[Len(sent)] \in 1..attempts[Len(sent)]
      BY <1>1, Sizes
    <3>2. p(i).at < Len(Bytes(p(i).m)) /\ Len(p(i).bytes) \in 1..X /\ p(i).at + Len(p(i).bytes) <= Len(Bytes(p(i).m))
      BY <2>1, <2>3, <2>6, <2>8 DEF len
    <3>3. ASSUME NEW k \in 1..Len(p(i).bytes)
          PROVE  p(i).bytes[k] = IF p(i).at + k <= Len(Bytes(p(i).m)) THEN Bytes(p(i).m)[p(i).at + k] ELSE PadByte
      <4>1. k \in 1..end - from(i) /\ from(i) + k <= len
        BY <1>2, <2>1, <2>3, <2>8
      <4> QED BY <2>4, <2>6, <2>8, <4>1 DEF len
    <3> QED BY <1>1, <2>6, <2>8, <3>1, <3>2, <3>3 DEF IsPacket, IsPart, X
  <2>10. IF i = count THEN Final(p(i)) ELSE ~Final(p(i)) /\ from(i + 1) = p(i).at + Len(p(i).bytes)
    BY <1>2, <2>1, <2>2, <2>8 DEF Final, len
  <2> QED BY <2>6, <2>7, <2>8, <2>9, <2>10
<1> HIDE DEF p
<1>9. P \in Seq(Carried) /\ Len(P) = count /\ \A i \in 1..count : P[i] = p(i)
  <2>1. P \in [1..count -> Carried] /\ \A i \in 1..count : P[i] = p(i)
    BY <1>3, <1>8
  <2> QED BY <1>5, <2>1, ListOf
<1>10. P # <<>> /\ P[1].at = X
  BY <1>5, <1>7, <1>8, <1>9
<1>11. ASSUME NEW i \in 1..Len(P)
       PROVE  /\ IsPacket(P[i]) /\ P[i].m = Len(sent) /\ P[i].try = attempts[Len(sent)] /\ P[i].at # 0
              /\ IF i = Len(P) THEN Final(P[i]) ELSE ~Final(P[i]) /\ P[i + 1].at = P[i].at + Len(P[i].bytes)
  <2>1. i \in 1..count /\ (i # count => i + 1 \in 1..count)
    BY <1>5, <1>9
  <2>2. P[i] = p(i) /\ (i # count => P[i + 1] = p(i + 1))
    BY <1>9, <2>1
  <2>3. i # count => p(i + 1).at = from(i + 1)
    BY <1>8, <2>1
  <2> QED BY <1>8, <1>9, <2>1, <2>2, <2>3
<1> QED BY <1>9, <1>10, <1>11 DEF P, X

-----------------------------------------------------------------------------
(* Every step keeps the types, the messages and the parts of them.         *)

LEMMA PartOfMore ==
  ASSUME NEW p, NEW bytes, NEW t \in Int, NEW u \in Int, t <= u, IsPart(p, bytes, t)
  PROVE  IsPart(p, bytes, u)
BY DEF IsPart

\* What is appended to, and what is left of a list.
LEMMA ListEnds ==
  ASSUME NEW S, NEW s \in Seq(S)
  PROVE  /\ s # <<>> => /\ Head(s) = s[1] /\ Head(s) \in S /\ Tail(s) \in Seq(S) /\ Len(Tail(s)) = Len(s) - 1
                        /\ Len(s) \in Nat \ {0} /\ \A i \in 1..Len(s) - 1 : Tail(s)[i] = s[i + 1]
         /\ s = <<>> <=> Len(s) = 0
OBVIOUS

LEMMA PartsSend ==
  ASSUME PartsInv, NEW msg \in Messages, Send(msg)
  PROVE  PartsInv'
<1> DEFINE m == Len(sent) + 1
           w == Assembled(m, msg)
           new == [msg |-> msg, bytes |-> w.bytes]
<1>1. /\ LinkTypes /\ SentIsWhole /\ PacketsAreParts
      /\ m_buf.bufSize \in Int /\ CRP_BUFSIZE <= m_buf.bufSize
  BY DEF PartsInv, Buffered
<1>2. IsMessage(msg) /\ hinformer \in BOOLEAN /\ m \in Nat /\ Len(sent) \in Nat
  BY <1>1, LinkAssumption DEF LinkTypes
<1>3. w.held /\ w.bufSize \in Int /\ CRP_BUFSIZE <= w.bufSize /\ WholeMessage(w.bytes, msg.type)
  <2> HIDE DEF m
  <2> QED BY <1>1, <1>2, AssembledEffect
<1>4. Aligns(msg) => TooMany \in ToSet(FoundIn(w.bytes)) \/ FoundIn(w.bytes) = ToFind(m, msg)
  <2> HIDE DEF m
  <2> QED BY <1>1, <1>2, FindsSent
<1>5. IsWhole(new, m, hinformer)
  <2>1. ToFind(m, msg) = ToFindBy(m, msg, hinformer)
    BY DEF ToFind, ToFindBy, ListOfMsg
  <2>2. new.msg = msg /\ new.bytes = w.bytes
    OBVIOUS
  <2> HIDE DEF new, w, m
  <2> QED BY <1>3, <1>4, <2>1, <2>2 DEF IsWhole
<1>6. /\ m_buf' = w /\ sent' = Append(sent, new) /\ attempts' = Append(attempts, 1)
      /\ sender' \in {"idle", "header"} /\ Len(sent) < MaxMessages
      /\ UNCHANGED <<hinformer, receiverVars, reported, link>>
      /\ \/ fault' = "none" /\ calm' = Len(sent) + 1
         \/ UNCHANGED <<fault, calm>>
  BY DEF Send
<1>7. new \in Sent
  BY <1>3 DEF Sent, WholeMessage
<1> HIDE DEF w, new
<1>8. /\ sent' \in Seq(Sent) /\ Len(sent') = m /\ sent'[m] = new
      /\ \A k \in 1..Len(sent) : sent'[k] = sent[k]
  BY <1>1, <1>6, <1>7 DEF LinkTypes
<1>9. /\ attempts' \in Seq(1..m_retries) /\ Len(attempts') = m
      /\ \A k \in 1..Len(sent) : attempts'[k] = attempts[k] /\ attempts[k] \in Int
  BY <1>1, <1>6, Sizes DEF LinkTypes
<1>10. LinkTypes'
  <2>1. calm' \in 1..MaxMessages /\ fault' \in Faults /\ Len(sent') <= MaxMessages
    BY <1>1, <1>2, <1>6, <1>8, Sizes DEF LinkTypes, Faults
  <2>2. reported' \subseteq 1..Len(sent')
    BY <1>1, <1>2, <1>6, <1>8 DEF LinkTypes
  <2> QED BY <1>1, <1>6, <1>8, <1>9, <2>1, <2>2 DEF LinkTypes, receiverVars
<1>11. SentIsWhole'
  <2>1. ASSUME NEW k \in 1..m PROVE IsWhole(sent'[k], k, hinformer')
    <3>1. CASE k \in 1..Len(sent)
      BY <1>1, <1>6, <1>8, <3>1 DEF SentIsWhole
    <3>2. CASE k = m
      BY <1>5, <1>6, <1>8, <3>2
    <3> QED BY <1>2, <3>1, <3>2
  <2> QED BY <1>8, <2>1 DEF SentIsWhole
<1>12. Buffered'
  <2>1. sent'[m].bytes = w.bytes /\ m \in 1..m
    BY <1>2, <1>8 DEF new
  <2> HIDE DEF m
  <2> QED BY <1>3, <1>6, <1>8, <2>1 DEF Buffered, Bytes
<1>13. PacketsAreParts'
  <2>1. ASSUME NEW i \in 1..Len(link) PROVE IsPacket(link[i])'
    <3>1. link' = link /\ link[i].m \in 1..Len(sent) /\ IsPart(link[i], sent[link[i].m].bytes, attempts[link[i].m])
      BY <1>1, <1>6 DEF PacketsAreParts, IsPacket, Bytes
    <3>2. link[i].m \in 1..Len(sent')
      BY <1>2, <1>8, <3>1
    <3> QED BY <1>8, <1>9, <3>1, <3>2 DEF IsPacket, Bytes
  <2> QED BY <1>6, <2>1 DEF PacketsAreParts
<1> QED BY <1>10, <1>11, <1>12, <1>13 DEF PartsInv

\* What a transfer does, and what it leaves alone.
LEMMA TransferEffect ==
  ASSUME PartsInv, sender # "idle", NEW Q \in Seq(Carried), Transfer(Q)
  PROVE  /\ UNCHANGED <<hinformer, sent, m_buf, receiverVars, calm>>
         /\ \E c \in 0..Len(Q) : /\ link' = link \o SubSeq(Q, 1, c)
                                 /\ \/ TransferOk /\ c = Len(Q)
                                    \/ TransferFails(Q, c)
         /\ attempts' \in Seq(1..m_retries) /\ Len(attempts') = Len(sent)
         /\ \A k \in 1..Len(sent) : attempts[k] <= attempts'[k] /\ attempts[k] \in Int /\ attempts'[k] \in Int
         /\ sender' \in {"idle", "header", "body"}
         /\ sender' = "header" => attempts'[Len(sent)] = attempts[Len(sent)] + 1
         /\ sender' = "body" => IsLong /\ sender = "header" /\ TransferOk /\ UNCHANGED attempts
         /\ reported' = reported \/ (sender' = "idle" /\ TransferOk /\ reported' = reported \cup {Len(sent)})
<1>1. LinkTypes
  BY DEF PartsInv
<1>2. Len(sent) \in 1..Len(sent) /\ Last(attempts) = attempts[Len(sent)] /\ attempts[Len(sent)] \in 1..m_retries
  BY AttemptUnderWay
<1>3. attempts \in Seq(1..m_retries) /\ Len(attempts) = Len(sent) /\ sender \in {"header", "body"}
  BY <1>1 DEF LinkTypes
<1>4. UNCHANGED <<hinformer, sent, m_buf, receiverVars, calm>>
  BY DEF Transfer
<1>5. PICK c \in 0..Len(Q) : /\ link' = link \o SubSeq(Q, 1, c)
                             /\ (TransferOk /\ c = Len(Q)) \/ TransferFails(Q, c)
  <2>1. CASE TransferOk /\ link' = link \o Q
    <3>1. SubSeq(Q, 1, Len(Q)) = Q /\ Len(Q) \in 0..Len(Q)
      OBVIOUS
    <3> QED BY <2>1, <3>1
  <2>2. CASE ~(TransferOk /\ link' = link \o Q)
    BY <2>2 DEF Transfer
  <2> QED BY <2>1, <2>2
<1>6. CASE TransferOk
  <2>1. /\ attempts' = attempts /\ sender' = (IF sender = "header" /\ IsLong THEN "body" ELSE "idle")
        /\ reported' = IF sender' = "idle" THEN reported \cup {Len(sent)} ELSE reported
    BY <1>6 DEF TransferOk
  <2>2. \A k \in 1..Len(sent) : attempts[k] \in 1..m_retries
    BY <1>3, Sizes
  <2>3. \A k \in 1..Len(sent) : attempts[k] <= attempts'[k] /\ attempts[k] \in Int /\ attempts'[k] \in Int
    BY <2>1, <2>2, Sizes
  <2> QED BY <1>3, <1>4, <1>5, <1>6, <2>1, <2>3
<1>7. CASE TransferFails(Q, c)
  <2>1. reported' = reported
    BY <1>7 DEF TransferFails
  <2>2. CASE Again
    <3>1. sender' = "header" /\ attempts' = [attempts EXCEPT ![Len(sent)] = @ + 1]
      BY <1>7, <2>2 DEF TransferFails
    <3>2. attempts[Len(sent)] + 1 \in 1..m_retries
      BY <1>2, <2>2, Sizes DEF Again
    <3>3. attempts' \in Seq(1..m_retries) /\ Len(attempts') = Len(sent)
      BY <1>2, <1>3, <3>1, <3>2
    <3>4. \A k \in 1..Len(sent) : attempts'[k] = IF k = Len(sent) THEN attempts[k] + 1 ELSE attempts[k]
      BY <1>2, <1>3, <3>1
    <3>5. \A k \in 1..Len(sent) : attempts[k] \in Int
      BY <1>3, Sizes
    <3>6. \A k \in 1..Len(sent) : attempts[k] <= attempts'[k] /\ attempts'[k] \in Int
      BY <3>4, <3>5
    <3> QED BY <1>2, <1>4, <1>5, <2>1, <3>1, <3>3, <3>4, <3>5, <3>6
  <2>3. CASE ~Again
    <3>1. sender' = "idle" /\ attempts' = attempts
      BY <1>7, <2>3 DEF TransferFails
    <3>2. \A k \in 1..Len(sent) : attempts[k] \in Int /\ attempts[k] <= attempts[k]
      BY <1>3, Sizes
    <3> QED BY <1>3, <1>4, <1>5, <2>1, <3>1, <3>2
  <2> QED BY <2>2, <2>3
<1> QED BY <1>5, <1>6, <1>7

\* The packets under way before and the ones added.
LEMMA LinkGrows ==
  ASSUME NEW S, NEW s \in Seq(S), NEW Q \in Seq(S), NEW c \in 0..Len(Q), NEW t, t = s \o SubSeq(Q, 1, c)
  PROVE  /\ t \in Seq(S) /\ Len(t) = Len(s) + c /\ Len(s) \in Nat
         /\ \A i \in 1..Len(s) : t[i] = s[i]
         /\ \A i \in 1..c : t[Len(s) + i] = Q[i]
<1> DEFINE q == SubSeq(Q, 1, c)
<1>1. q \in Seq(S) /\ Len(q) = c /\ \A i \in 1..c : q[i] = Q[i]
  OBVIOUS
<1> HIDE DEF q
<1>2. t = s \o q
  BY DEF q
<1> QED BY <1>1, <1>2

LEMMA PartsTransfer ==
  ASSUME PartsInv, sender # "idle", NEW Q \in Seq(Carried), \A i \in 1..Len(Q) : IsPacket(Q[i]), Transfer(Q)
  PROVE  PartsInv'
<1>1. LinkTypes /\ SentIsWhole /\ Buffered /\ PacketsAreParts
  BY DEF PartsInv
<1>2. /\ UNCHANGED <<hinformer, sent, m_buf, receiverVars, calm>>
      /\ attempts' \in Seq(1..m_retries) /\ Len(attempts') = Len(sent)
      /\ \A k \in 1..Len(sent) : attempts[k] <= attempts'[k] /\ attempts[k] \in Int /\ attempts'[k] \in Int
      /\ sender' \in {"idle", "header", "body"} /\ (sender' = "body" => IsLong)
      /\ (reported' = reported \/ reported' = reported \cup {Len(sent)})
  BY TransferEffect
<1>3. PICK c \in 0..Len(Q) : /\ link' = link \o SubSeq(Q, 1, c)
                             /\ (TransferOk /\ c = Len(Q)) \/ TransferFails(Q, c)
  BY TransferEffect
<1>4. /\ link' \in Seq(Carried) /\ Len(link') = Len(link) + c /\ Len(link) \in Nat
      /\ \A i \in 1..Len(link) : link'[i] = link[i]
      /\ \A i \in 1..c : link'[Len(link) + i] = Q[i]
  BY <1>1, <1>3, LinkGrows DEF LinkTypes
<1>5. Len(sent) \in 1..Len(sent) /\ m_buf.bytes = Bytes(Len(sent))
  BY AttemptUnderWay
<1>6. LinkTypes'
  <2>1. fault' \in Faults
    BY <1>1, <1>3 DEF LinkTypes, TransferOk, TransferFails, Faults
  <2>2. reported' \subseteq 1..Len(sent')
    BY <1>1, <1>2, <1>5 DEF LinkTypes
  <2> QED BY <1>1, <1>2, <1>4, <2>1, <2>2 DEF LinkTypes, receiverVars
<1>7. SentIsWhole'
  BY <1>1, <1>2 DEF SentIsWhole
<1>8. Buffered'
  BY <1>1, <1>2, <1>5 DEF Buffered, Bytes, IsLong
<1>9. ASSUME NEW p, IsPacket(p) PROVE IsPacket(p)'
  <2>1. p.m \in 1..Len(sent) /\ IsPart(p, sent[p.m].bytes, attempts[p.m])
    BY <1>9 DEF IsPacket, Bytes
  <2>2. IsPart(p, sent[p.m].bytes, attempts'[p.m])
    BY <1>2, <2>1, PartOfMore
  <2> QED BY <1>2, <2>1, <2>2 DEF IsPacket, Bytes
<1>10. PacketsAreParts'
  <2> SUFFICES ASSUME NEW i \in 1..Len(link') PROVE IsPacket(link[i])'
    BY DEF PacketsAreParts
  <2>1. CASE i \in 1..Len(link)
    <3>1. PICK p : p = link[i]
      OBVIOUS
    <3>2. IsPacket(p) /\ link'[i] = p
      BY <1>1, <1>4, <2>1, <3>1 DEF PacketsAreParts
    <3> QED BY <1>9, <3>2 DEF IsPacket
  <2>2. CASE i \notin 1..Len(link)
    <3>1. i - Len(link) \in 1..c /\ Len(link) + (i - Len(link)) = i /\ c <= Len(Q) /\ c \in Int /\ Len(Q) \in Int
      BY <1>4, <2>2
    <3>2. PICK p : p = Q[i - Len(link)]
      OBVIOUS
    <3>3. link'[i] = p
      <4> DEFINE q == i - Len(link)
      <4> HIDE DEF q
      <4>1. q \in 1..c /\ Len(link) + q = i /\ p = Q[q]
        BY <3>1, <3>2 DEF q
      <4> QED BY <1>4, <4>1
    <3>4. IsPacket(p)
      <4>1. i - Len(link) \in 1..Len(Q)
        BY <3>1
      <4> QED BY <3>2, <4>1
    <3> QED BY <1>9, <3>3, <3>4 DEF IsPacket
  <2> QED BY <2>1, <2>2
<1> QED BY <1>6, <1>7, <1>8, <1>10 DEF PartsInv

LEMMA AcceptEffect ==
  ASSUME LinkTypes, NEW p \in Carried, NEW b \in Seq(Byte), Accept(p, b)
  PROVE  LET new == [m |-> p.m, try |-> p.try, found |-> FoundIn(b), fault |-> fault]
         IN /\ AwaitHeader
            /\ \/ /\ TooMany \in ToSet(FoundIn(b)) /\ accepted' = accepted
                  /\ fault' = IF fault = "none" THEN "missed" ELSE fault
               \/ /\ TooMany \notin ToSet(FoundIn(b)) /\ accepted' = Append(accepted, new)
                  /\ fault' = fault
            /\ accepted' \in Seq(Taken) /\ fault' \in Faults
<1> DEFINE new == [m |-> p.m, try |-> p.try, found |-> FoundIn(b), fault |-> fault]
<1>1. new \in Taken
  <2>1. FoundIn(b) \in {FoundIn(c) : c \in Seq(Byte)}
    OBVIOUS
  <2>2. fault \in Faults /\ p.m \in Nat /\ p.try \in Nat
    BY DEF LinkTypes, Carried
  <2> QED BY <2>1, <2>2 DEF Taken
<1>2. accepted \in Seq(Taken)
  BY DEF LinkTypes
<1>3. CASE TooMany \in ToSet(FoundIn(b))
  <2>1. AwaitHeader /\ accepted' = accepted /\ fault' = IF fault = "none" THEN "missed" ELSE fault
    BY <1>3 DEF Accept, Missed
  <2> QED BY <1>2, <1>3, <2>1 DEF LinkTypes, Faults
<1>4. CASE TooMany \notin ToSet(FoundIn(b))
  <2>1. AwaitHeader /\ accepted' = Append(accepted, new) /\ fault' = fault
    BY <1>4 DEF Accept
  <2> HIDE DEF new
  <2>2. accepted' \in Seq(Taken)
    BY <1>1, <1>2, <2>1
  <2> QED BY <1>4, <2>1, <2>2 DEF LinkTypes, new
<1> QED BY <1>3, <1>4

LEMMA PartsAwait ==
  ASSUME LinkTypes, AwaitHeader
  PROVE  receiver' \in {"header", "body"} /\ got' \in Seq(Byte) /\ want' \in Int /\ (receiver' = "body" => Len(got') < want')
<1>1. <<>> \in Seq(Byte)
  OBVIOUS
<1> QED BY <1>1 DEF AwaitHeader

\* The first bytes of a packet that begins with the start code are the header.
LEMMA HeaderFound ==
  ASSUME PartsInv, NEW p \in Carried, IsPacket(p)
  PROVE  /\ p.at = 0 <=> IsHeader(p.bytes)
         /\ p.at = 0 => /\ m_headerLen + p.bytes[2].length = Len(Bytes(p.m))
                        /\ Len(p.bytes) = CRP_MAX_HEADER_LEN /\ Len(Bytes(p.m)) \in Nat /\ Len(Bytes(p.m)) >= 12
<1> DEFINE b == Bytes(p.m)
<1>1. p.m \in 1..Len(sent) /\ IsPart(p, b, attempts[p.m])
  BY DEF IsPacket
<1>2. PICK type : WholeMessage(b, type)
  BY <1>1 DEF PartsInv, SentIsWhole, IsWhole, Bytes
<1>3. /\ b \in Seq(Byte) /\ Len(b) \in Nat /\ Len(b) >= 12 /\ b[1] = StartByte
      /\ b[2] = [is |-> "header", message |-> type, length |-> Len(b) - 12]
      /\ \A k \in 2..Len(b) : b[k] \in Plain
  BY <1>2 DEF WholeMessage
<1>4. p.at \in Nat /\ Len(p.bytes) \in Nat
  BY DEF Carried
<1> HIDE DEF b
<1>5. /\ p.at < Len(b) /\ Len(p.bytes) \in 1..CRP_MAX_HEADER_LEN
      /\ (p.at = 0 => Len(p.bytes) = CRP_MAX_HEADER_LEN)
      /\ \A k \in 1..Len(p.bytes) : p.bytes[k] = IF p.at + k <= Len(b) THEN b[p.at + k] ELSE PadByte
  BY <1>1 DEF IsPart
<1>6. 1 \in 1..Len(p.bytes) /\ p.bytes[1] = b[p.at + 1]
  <2>1. 1 \in 1..Len(p.bytes) /\ p.at + 1 <= Len(b)
    BY <1>3, <1>4, <1>5, Sizes
  <2> QED BY <1>5, <2>1
<1>7. CASE p.at = 0
  <2>1. IsHeader(p.bytes)
    BY <1>3, <1>6, <1>7 DEF IsHeader, StartByte
  <2>2. 2 \in 1..Len(p.bytes) /\ 0 + 2 <= Len(b) /\ 0 + 2 = 2
    BY <1>3, <1>5, <1>7, Sizes DEF m_headerLen
  <2>3. p.bytes[2] = b[2]
    BY <1>5, <1>7, <2>2
  <2>4. p.bytes[2].length = Len(b) - 12
    BY <1>3, <2>3
  <2>5. m_headerLen + p.bytes[2].length = Len(b)
    BY <1>3, <2>4 DEF m_headerLen
  <2> QED BY <1>3, <1>5, <1>7, <2>1, <2>5 DEF b
<1>8. CASE p.at # 0
  <2>1. p.at + 1 \in 2..Len(b)
    BY <1>3, <1>4, <1>5, <1>8
  <2>2. p.bytes[1] # StartByte
    BY <1>3, <1>6, <2>1, StartIsNotPlain
  <2> QED BY <1>8, <2>2 DEF IsHeader, StartByte
<1> QED BY <1>7, <1>8

\* A step of the receiver keeps what it leaves alone.
LEMMA PartsReceived ==
  ASSUME PartsInv, UNCHANGED <<hinformer, senderVars, calm>>, link' = link \/ (link # <<>> /\ link' = Tail(link)),
         receiver' \in {"header", "body"}, got' \in Seq(Byte), want' \in Int, receiver' = "body" => Len(got') < want',
         accepted' \in Seq(Taken), fault' \in Faults
  PROVE  PartsInv'
<1>1. LinkTypes /\ SentIsWhole /\ Buffered /\ PacketsAreParts /\ link \in Seq(Carried)
  BY DEF PartsInv, LinkTypes
<1>2. link' \in Seq(Carried) /\ \A i \in 1..Len(link') : \E j \in 1..Len(link) : link'[i] = link[j]
  <2>1. CASE link' = link
    BY <1>1, <2>1
  <2>2. CASE link # <<>> /\ link' = Tail(link)
    <3>1. /\ link' \in Seq(Carried) /\ Len(link') = Len(link) - 1 /\ Len(link) \in Nat
          /\ \A i \in 1..Len(link) - 1 : link'[i] = link[i + 1]
      BY <1>1, <2>2, ListEnds
    <3>2. \A i \in 1..Len(link') : i \in 1..Len(link) - 1 /\ i + 1 \in 1..Len(link)
      BY <3>1
    <3> QED BY <3>1, <3>2
  <2> QED BY <2>1, <2>2
<1>3. LinkTypes'
  BY <1>1, <1>2 DEF LinkTypes, senderVars
<1>4. SentIsWhole' /\ Buffered'
  BY <1>1 DEF SentIsWhole, Buffered, senderVars, Bytes, IsLong
<1>5. PacketsAreParts'
  BY <1>1, <1>2 DEF PacketsAreParts, IsPacket, senderVars, Bytes
<1> QED BY <1>3, <1>4, <1>5 DEF PartsInv

LEMMA PartsReceiveHeader == ASSUME PartsInv, ReceiveHeader PROVE PartsInv'
<1> DEFINE p == Head(link)
           len == m_headerLen + p.bytes[2].length
<1>1. LinkTypes /\ link \in Seq(Carried) /\ link # <<>> /\ link' = Tail(link) /\ UNCHANGED <<hinformer, senderVars, calm>>
  BY DEF PartsInv, LinkTypes, ReceiveHeader
<1>2. p \in Carried /\ p.bytes \in Seq(Byte) /\ IsPacket(p)
  <2>1. p = link[1] /\ p \in Carried /\ 1 \in 1..Len(link)
    BY <1>1, ListEnds
  <2> QED BY <2>1 DEF PartsInv, PacketsAreParts, Carried
<1>3. \/ ~IsHeader(p.bytes) /\ UNCHANGED <<receiverVars, fault>>
      \/ IsHeader(p.bytes) /\ FitsIn(len, p.bytes) /\ Accept(p, SubSeq(p.bytes, 1, len))
      \/ /\ IsHeader(p.bytes) /\ ~FitsIn(len, p.bytes) /\ receiver' = "body" /\ got' = p.bytes /\ want' = len
         /\ UNCHANGED <<accepted, fault>>
  BY DEF ReceiveHeader
<1> HIDE DEF p
<1>4. IsHeader(p.bytes) => len \in Nat
  BY <1>2, HeaderFound
<1> HIDE DEF len
<1>5. CASE ~IsHeader(p.bytes) /\ UNCHANGED <<receiverVars, fault>>
  BY <1>1, <1>5, PartsReceived DEF LinkTypes, receiverVars
<1>6. CASE IsHeader(p.bytes) /\ FitsIn(len, p.bytes) /\ Accept(p, SubSeq(p.bytes, 1, len))
  <2> DEFINE b == SubSeq(p.bytes, 1, len)
  <2>1. b \in Seq(Byte)
    BY <1>2, <1>4, <1>6 DEF FitsIn
  <2>2. Accept(p, b)
    BY <1>6
  <2> HIDE DEF b
  <2>3. AwaitHeader /\ accepted' \in Seq(Taken) /\ fault' \in Faults
    BY <1>1, <1>2, <2>1, <2>2, AcceptEffect
  <2> QED BY <1>1, <2>3, PartsAwait, PartsReceived
<1>7. CASE /\ IsHeader(p.bytes) /\ ~FitsIn(len, p.bytes) /\ receiver' = "body" /\ got' = p.bytes /\ want' = len
           /\ UNCHANGED <<accepted, fault>>
  <2>1. Len(got') < want' /\ want' \in Int
    BY <1>2, <1>4, <1>7 DEF FitsIn
  <2> QED BY <1>1, <1>2, <1>7, <2>1, PartsReceived DEF LinkTypes
<1> QED BY <1>3, <1>5, <1>6, <1>7

LEMMA PartsReceiveBody == ASSUME PartsInv, ReceiveBody PROVE PartsInv'
<1> DEFINE p == Head(link)
           b == got \o p.bytes
<1>1. /\ LinkTypes /\ link \in Seq(Carried) /\ link # <<>> /\ link' = Tail(link) /\ UNCHANGED <<hinformer, senderVars, calm>>
      /\ receiver = "body"
  BY DEF PartsInv, LinkTypes, ReceiveBody
<1>2. p \in Carried /\ p.bytes \in Seq(Byte)
  <2>1. p \in Carried
    BY <1>1, ListEnds
  <2> HIDE DEF p
  <2> QED BY <2>1 DEF Carried
<1>3. \/ Overflows(p.bytes) /\ AwaitHeader /\ UNCHANGED <<accepted, fault>>
      \/ ~Overflows(p.bytes) /\ Len(b) = want /\ Accept(p, b)
      \/ ~Overflows(p.bytes) /\ Len(b) # want /\ got' = b /\ UNCHANGED <<receiver, want, accepted, fault>>
  BY DEF ReceiveBody
<1> HIDE DEF p
<1>4. b \in Seq(Byte) /\ Len(b) = Len(got) + Len(p.bytes) /\ Len(b) \in Nat /\ want \in Int
  BY <1>1, <1>2 DEF LinkTypes
<1> HIDE DEF b
<1>5. CASE AwaitHeader /\ UNCHANGED <<accepted, fault>>
  BY <1>1, <1>5, PartsAwait, PartsReceived DEF LinkTypes
<1>6. CASE Accept(p, b)
  <2>1. AwaitHeader /\ accepted' \in Seq(Taken) /\ fault' \in Faults
    BY <1>1, <1>2, <1>4, <1>6, AcceptEffect
  <2> QED BY <1>1, <2>1, PartsAwait, PartsReceived
<1>7. CASE ~Overflows(p.bytes) /\ Len(b) # want /\ got' = b /\ UNCHANGED <<receiver, want, accepted, fault>>
  <2>1. Len(got') < want'
    BY <1>4, <1>7 DEF Overflows
  <2> QED BY <1>1, <1>4, <1>7, <2>1, PartsReceived DEF LinkTypes
<1> QED BY <1>3, <1>5, <1>6, <1>7

LEMMA PartsReceiveFails == ASSUME PartsInv, ReceiveFails PROVE PartsInv'
<1>1. LinkTypes /\ AwaitHeader /\ UNCHANGED <<hinformer, senderVars, accepted, link, calm>>
  BY DEF PartsInv, ReceiveFails
<1>2. fault' \in Faults
  BY <1>1 DEF ReceiveFails, Missed, LinkTypes, Faults
<1> QED BY <1>1, <1>2, PartsAwait, PartsReceived DEF LinkTypes

LEMMA PartsStep == PartsInv /\ [Next]_vars => PartsInv'
<1> SUFFICES ASSUME PartsInv, [Next]_vars PROVE PartsInv'
  OBVIOUS
<1>1. ASSUME NEW msg \in Messages, Send(msg) PROVE PartsInv'
  BY <1>1, PartsSend
<1>2. CASE SendHeader
  <2> DEFINE Q == <<HeaderPacket>>
  <2>1. sender # "idle" /\ Transfer(Q)
    BY <1>2 DEF SendHeader
  <2>2. Q \in Seq(Carried) /\ \A i \in 1..Len(Q) : IsPacket(Q[i])
    <3>1. HeaderPacket \in Carried /\ IsPacket(HeaderPacket)
      BY <2>1, HeaderPacketEffect
    <3> QED BY <3>1
  <2> HIDE DEF Q
  <2> QED BY <2>1, <2>2, PartsTransfer
<1>3. CASE SendBody
  <2> DEFINE Q == BodyPackets
  <2>1. sender = "body" /\ Transfer(Q)
    BY <1>3 DEF SendBody
  <2>2. Q \in Seq(Carried) /\ \A i \in 1..Len(Q) : IsPacket(Q[i])
    BY <2>1, BodyPacketsEffect
  <2> HIDE DEF Q
  <2> QED BY <2>1, <2>2, PartsTransfer
<1>4. CASE UNCHANGED vars
  BY <1>4 DEF vars, senderVars, receiverVars, PartsInv, LinkTypes, SentIsWhole, Buffered, IsLong, PacketsAreParts, IsPacket, Bytes
<1> QED BY <1>1, <1>2, <1>3, <1>4, PartsReceiveHeader, PartsReceiveBody, PartsReceiveFails DEF Next

\* What is said of the messages, the buffer and the packets is so at every step of sendFull and
\* recvFull, whichever transfers fail.
THEOREM LinkPartsHold == Spec => []PartsInv
BY PartsInit, PartsStep, PTL DEF Spec

\* Every variable keeps its type: no message is begun more than m_retries times
\* (sendChirpRetry), no packet is longer than a transfer, and a body is waited for just while
\* less of it is there than its header says (recvFull).
THEOREM LinkTypeCorrect == Spec => []TypeOK
<1>1. PartsInv => TypeOK
  <2> SUFFICES ASSUME PartsInv PROVE TypeOK
    OBVIOUS
  <2>1. LinkTypes /\ PacketsAreParts
    BY DEF PartsInv
  <2>4. DOMAIN sent = 1..Len(sent)
    BY <2>1 DEF LinkTypes
  <2>2. \A m \in DOMAIN sent : sent[m].msg \in Messages
    <3>1. ASSUME NEW m \in 1..Len(sent) PROVE sent[m].msg \in Messages
      <4>1. sent[m] \in Sent
        BY <2>1 DEF LinkTypes
      <4> QED BY <4>1 DEF Sent
    <3> QED BY <2>4, <3>1
  <2>3. \A p \in ToSet(link) : Len(p.bytes) \in 1..CRP_MAX_HEADER_LEN
    BY <2>1 DEF LinkTypes, PacketsAreParts, IsPacket, IsPart, ToSet
  <2> QED BY <2>1, <2>2, <2>3, <2>4 DEF LinkTypes, TypeOK, Faults
<1> QED BY <1>1, LinkPartsHold, PTL

\* vserialize writes nothing outside the buffer, for any list of arguments: RESIZE_BUF leaves
\* CRP_BUFPAD bytes behind each argument, which the next one's alignment, type and scalar need.
THEOREM BufferIsEnough == Spec => []BufferHolds
<1>1. PartsInv => BufferHolds
  BY DEF PartsInv, Buffered, BufferHolds
<1> QED BY <1>1, LinkPartsHold, PTL

-----------------------------------------------------------------------------
(* The order of the packets, while no long message is broken off.          *)

\* The packets of one attempt follow one another, attempts are in their order.
Chain(l) ==
  /\ \A i \in 1..Len(l) - 1 : Follows(l[i], l[i + 1])
  /\ \A i, j \in 1..Len(l) : i < j => ~Earlier(l[j], l[i])

\* The receiver has the first n bytes of message m.
Holds(m, n) ==
  /\ want = Len(Bytes(m)) /\ Len(got) = n /\ n \in 1..want - 1
  /\ \A k \in 1..n : got[k] = Bytes(m)[k]

IsCurrent(p) == p.m = Len(sent) /\ p.try = attempts[Len(sent)]

\* When the sender begins an attempt all packets under way are of earlier ones.
BeforeHeader == sender = "header" => \A i \in 1..Len(link) : Earlier(link[i], Current)

\* When it has the rest to send, the first packet is the last one under way or arrived.
BeforeBody ==
  sender = "body" =>
    IF link = <<>>
      THEN /\ receiver = "body" => Holds(Len(sent), CRP_MAX_HEADER_LEN)
           /\ fault = "none" => receiver = "body"
      ELSE IsCurrent(link[Len(link)]) /\ link[Len(link)].at = 0

\* When it has not, the last packet under way ends its message.
Ended == sender # "body" => IF link = <<>> THEN receiver = "header" ELSE Final(link[Len(link)])

\* The receiver in the middle of a message has what comes before the next packet.
GoesOn == receiver = "body" /\ link # <<>> => Holds(link[1].m, link[1].at)

\* As long as nothing was missed, when it waits for a header a header comes.
Begins == fault = "none" /\ receiver = "header" /\ link # <<>> => link[1].at = 0

\* What was accepted was of earlier attempts than what is under way.
NotYet == \A i \in Whole : \A j \in 1..Len(link) : Earlier(accepted[i], link[j])

\* All this until a long message is broken off.
Undamaged ==
  fault # "damaged" => Chain(link) /\ BeforeHeader /\ BeforeBody /\ Ended /\ GoesOn /\ Begins /\ NotYet

\* Of each attempt one message is accepted at most, in the order of attempts.
AcceptedOrder == \A i, j \in Whole : i < j => Earlier(accepted[i], accepted[j])

\* What was accepted is what deserializeParse finds in a message that was sent.
AcceptedFound ==
  \A i \in Whole :
    /\ accepted[i].m \in 1..Len(sent) /\ accepted[i].try \in 1..attempts[accepted[i].m]
    /\ accepted[i].found = FoundIn(Bytes(accepted[i].m)) /\ TooMany \notin ToSet(accepted[i].found)

\* An attempt under way has not been accepted.
AcceptedEarlier == sender # "idle" => \A i \in Whole : Earlier(accepted[i], Current)

UnderWay(m) == \E i \in 1..Len(link) : link[i].m = m /\ Final(link[i])

\* As long as nothing was missed, a message reported as sent was accepted or all of its
\* packets are under way.
Arrives ==
  fault = "none" => \A m \in reported : m >= calm => (\E i \in Whole : accepted[i].m = m) \/ UnderWay(m)

\* What holds of the order: the inductive invariant, together with PartsInv.
LinkInv == Undamaged /\ AcceptedOrder /\ AcceptedFound /\ AcceptedEarlier /\ Arrives

LEMMA LinkInit == Init => LinkInv
<1> SUFFICES ASSUME Init PROVE LinkInv
  OBVIOUS
<1>1. Whole = {}
  BY DEF Init, Whole
<1>2. Len(link) = 0 /\ link = <<>> /\ receiver = "header" /\ sender = "idle" /\ reported = {}
  BY DEF Init
<1>3. 1..Len(link) = {} /\ 1..Len(link) - 1 = {}
  BY <1>2
<1>4. Undamaged
  BY <1>1, <1>2, <1>3 DEF Undamaged, Chain, BeforeHeader, BeforeBody, Ended, GoesOn, Begins, NotYet
<1> QED BY <1>1, <1>2, <1>4 DEF LinkInv, AcceptedOrder, AcceptedFound, AcceptedEarlier, Arrives

\* Attempts are in one order.
LEMMA AttemptOrder ==
  ASSUME NEW p, NEW q, NEW r, p.m \in Int, p.try \in Int, q.m \in Int, q.try \in Int, r.m \in Int, r.try \in Int
  PROVE  /\ Earlier(p, q) /\ ~Earlier(r, q) => Earlier(p, r)
         /\ Earlier(p, q) /\ Earlier(q, r) => Earlier(p, r)
         /\ Earlier(p, q) => ~Earlier(q, p)
         /\ ~Earlier(p, p)
BY DEF Earlier

LEMMA ChainGrows ==
  ASSUME NEW s \in Seq(Carried), Chain(s), NEW Q \in Seq(Carried), Chain(Q), NEW t, t = s \o Q, Q # <<>>,
         s # <<>> => Follows(s[Len(s)], Q[1]),
         \A i \in 1..Len(s) : \A j \in 1..Len(Q) : ~Earlier(Q[j], s[i])
  PROVE  Chain(t)
<1> DEFINE n == Len(s)
           k == Len(Q)
<1>1. /\ n \in Nat /\ k \in Nat /\ k > 0 /\ Len(t) = n + k /\ (n > 0 => s # <<>>)
      /\ \A i \in 1..n : t[i] = s[i]
      /\ \A i \in 1..k : t[n + i] = Q[i]
  OBVIOUS
<1>2. /\ \A i \in 1..n - 1 : Follows(s[i], s[i + 1])
      /\ \A i, j \in 1..n : i < j => ~Earlier(s[j], s[i])
      /\ \A i \in 1..k - 1 : Follows(Q[i], Q[i + 1])
      /\ \A i, j \in 1..k : i < j => ~Earlier(Q[j], Q[i])
      /\ n > 0 => Follows(s[n], Q[1])
      /\ \A i \in 1..n : \A j \in 1..k : ~Earlier(Q[j], s[i])
  BY <1>1 DEF Chain
<1> HIDE DEF n, k
<1>3. \A i \in 1..n + k : (i \in 1..n /\ t[i] = s[i]) \/ (i - n \in 1..k /\ t[i] = Q[i - n])
  <2> SUFFICES ASSUME NEW i \in 1..n + k, i \notin 1..n PROVE i - n \in 1..k /\ t[i] = Q[i - n]
    BY <1>1
  <2> DEFINE q == i - n
  <2>1. q \in 1..k /\ n + q = i
    BY <1>1
  <2> HIDE DEF q
  <2>2. t[n + q] = Q[q]
    BY <1>1, <2>1
  <2> QED BY <2>1, <2>2 DEF q
<1>4. ASSUME NEW i \in 1..n + k - 1 PROVE Follows(t[i], t[i + 1])
  <2>1. CASE i < n
    <3>1. i \in 1..n - 1 /\ i \in 1..n /\ i + 1 \in 1..n
      BY <1>1, <2>1
    <3> QED BY <1>1, <1>2, <3>1
  <2>2. CASE i = n
    <3>1. n \in 1..n /\ 1 \in 1..k /\ n > 0
      BY <1>1, <2>2
    <3> QED BY <1>1, <1>2, <2>2, <3>1
  <2>3. CASE i > n
    <3> DEFINE q == i - n
    <3>1. q \in 1..k - 1 /\ q \in 1..k /\ q + 1 \in 1..k /\ n + q = i /\ n + (q + 1) = i + 1
      BY <1>1, <2>3
    <3> HIDE DEF q
    <3>2. t[n + q] = Q[q] /\ t[n + (q + 1)] = Q[q + 1] /\ Follows(Q[q], Q[q + 1])
      BY <1>1, <1>2, <3>1
    <3> QED BY <3>1, <3>2
  <2> QED BY <1>1, <2>1, <2>2, <2>3
<1>5. ASSUME NEW i \in 1..n + k, NEW j \in 1..n + k, i < j PROVE ~Earlier(t[j], t[i])
  <2>1. CASE j \in 1..n
    <3>1. i \in 1..n
      BY <1>1, <1>5, <2>1
    <3> QED BY <1>1, <1>2, <1>5, <2>1, <3>1
  <2>2. CASE j \notin 1..n /\ i \in 1..n
    BY <1>1, <1>2, <1>3, <2>2
  <2>3. CASE j \notin 1..n /\ i \notin 1..n
    <3>1. i - n \in 1..k /\ t[i] = Q[i - n] /\ j - n \in 1..k /\ t[j] = Q[j - n] /\ i - n < j - n
      BY <1>1, <1>3, <1>5, <2>3
    <3> QED BY <1>2, <3>1
  <2> QED BY <2>1, <2>2, <2>3
<1> QED BY <1>1, <1>4, <1>5 DEF Chain

\* What follows the first packet.
LEMMA ChainShrinks ==
  ASSUME NEW s \in Seq(Carried), s # <<>>, Chain(s), NEW t, t = Tail(s)
  PROVE  /\ Chain(t)
         /\ t # <<>> => Follows(s[1], t[1])
         /\ Final(s[1]) => \A i \in 1..Len(t) : Earlier(s[1], t[i])
<1> DEFINE n == Len(s)
<1>1. /\ n \in Nat \ {0} /\ t \in Seq(Carried) /\ Len(t) = n - 1 /\ (t # <<>> => n > 1)
      /\ \A i \in 1..n - 1 : t[i] = s[i + 1] /\ t[i] \in Carried
      /\ \A i \in 1..n : s[i] \in Carried
  OBVIOUS
<1>2. /\ \A i \in 1..n - 1 : Follows(s[i], s[i + 1])
      /\ \A i, j \in 1..n : i < j => ~Earlier(s[j], s[i])
  BY DEF Chain
<1> HIDE DEF n
<1>3. Chain(t)
  <2>1. ASSUME NEW i \in 1..Len(t) - 1 PROVE Follows(t[i], t[i + 1])
    <3>1. i \in 1..n - 1 /\ i + 1 \in 1..n - 1
      BY <1>1
    <3> DEFINE q == i + 1
    <3>2. t[i] = s[q] /\ t[q] = s[q + 1] /\ q \in 1..n - 1
      BY <1>1, <3>1
    <3> HIDE DEF q
    <3>3. Follows(t[i], t[q])
      BY <1>2, <3>2
    <3> QED BY <3>3 DEF q
  <2>2. ASSUME NEW i \in 1..Len(t), NEW j \in 1..Len(t), i < j PROVE ~Earlier(t[j], t[i])
    <3>1. i + 1 \in 1..n /\ j + 1 \in 1..n /\ i + 1 < j + 1 /\ t[i] = s[i + 1] /\ t[j] = s[j + 1]
      BY <1>1, <2>2
    <3> QED BY <1>2, <3>1
  <2> QED BY <2>1, <2>2 DEF Chain
<1>4. n > 1 => Follows(s[1], t[1])
  <2> SUFFICES ASSUME n > 1 PROVE Follows(s[1], t[1])
    OBVIOUS
  <2>1. 1 \in 1..n - 1 /\ 1 + 1 = 2
    BY <1>1
  <2> QED BY <1>1, <1>2, <2>1
<1>5. ASSUME Final(s[1]), NEW i \in 1..Len(t) PROVE Earlier(s[1], t[i])
  <2>1. n > 1 /\ 1 \in 1..Len(t) /\ 1 \in 1..n - 1 /\ i \in 1..n - 1 /\ 1 \in 1..n
    BY <1>1
  <2>2. Earlier(s[1], t[1])
    BY <1>4, <1>5, <2>1 DEF Follows
  <2>3. i # 1 => ~Earlier(t[i], t[1])
    <3> SUFFICES ASSUME i # 1 PROVE ~Earlier(t[i], t[1])
      OBVIOUS
    <3>1. 1 < i
      BY <2>1
    <3> QED BY <1>3, <2>1, <3>1 DEF Chain
  <2>4. s[1] \in Carried /\ t[1] \in Carried /\ t[i] \in Carried
    BY <1>1, <2>1
  <2>5. \A p \in Carried : p.m \in Int /\ p.try \in Int
    BY DEF Carried
  <2> QED BY <2>2, <2>3, <2>4, <2>5, AttemptOrder
<1> QED BY <1>1, <1>3, <1>4, <1>5

LEMMA SendEffect ==
  ASSUME LinkTypes, NEW msg \in Messages, Send(msg)
  PROVE  /\ sender = "idle" /\ sender' \in {"idle", "header"}
         /\ UNCHANGED <<hinformer, receiverVars, reported, link>>
         /\ \/ Quiet /\ fault' = "none" /\ calm' = Len(sent) + 1
            \/ UNCHANGED <<fault, calm>>
         /\ Len(sent) \in Nat /\ Len(sent') = Len(sent) + 1
         /\ \A k \in 1..Len(sent) : sent'[k] = sent[k] /\ attempts'[k] = attempts[k]
<1> DEFINE new == [msg |-> msg, bytes |-> m_buf'.bytes]
<1>1. /\ sender = "idle" /\ sent' = Append(sent, new) /\ attempts' = Append(attempts, 1)
      /\ sender' \in {"idle", "header"} /\ UNCHANGED <<hinformer, receiverVars, reported, link>>
      /\ \/ Quiet /\ fault' = "none" /\ calm' = Len(sent) + 1
         \/ UNCHANGED <<fault, calm>>
  BY DEF Send
<1> HIDE DEF new
<1>2. /\ Len(sent) \in Nat /\ Len(sent') = Len(sent) + 1
      /\ \A k \in 1..Len(sent) : sent'[k] = sent[k]
  BY <1>1 DEF LinkTypes
<1>3. \A k \in 1..Len(sent) : attempts'[k] = attempts[k]
  BY <1>1 DEF LinkTypes
<1> QED BY <1>1, <1>2, <1>3

\* What is said of a packet stays so when a message is added.
LEMMA FinalStays ==
  ASSUME NEW p, sent'[p.m] = sent[p.m]
  PROVE  Final(p)' <=> Final(p)
BY DEF Final, Bytes

LEMMA ChainStays ==
  ASSUME Chain(link), link' = link, \A i \in 1..Len(link) : sent'[link[i].m] = sent[link[i].m], Len(link) \in Nat
  PROVE  Chain(link)'
<1>1. ASSUME NEW i \in 1..Len(link) - 1 PROVE Follows(link[i], link[i + 1])'
  <2>1. i \in 1..Len(link)
    OBVIOUS
  <2>2. Follows(link[i], link[i + 1]) /\ sent'[link[i].m] = sent[link[i].m]
    BY <2>1 DEF Chain
  <2> QED BY <2>2 DEF Follows, Final, Bytes, Earlier
<1>2. ASSUME NEW i \in 1..Len(link), NEW j \in 1..Len(link), i < j PROVE ~Earlier(link[j], link[i])'
  BY <1>2 DEF Chain, Earlier
<1> QED BY <1>1, <1>2 DEF Chain

\* The labels of what is accepted and under way.
LEMMA Labels ==
  ASSUME PartsInv
  PROVE  /\ Len(sent) \in Nat /\ Len(link) \in Nat /\ Len(accepted) \in Nat
         /\ \A i \in Whole : i \in 1..Len(accepted) /\ accepted[i] \in Taken /\ accepted[i].fault # "damaged"
                             /\ accepted[i].m \in Nat /\ accepted[i].try \in Nat
         /\ \A i \in 1..Len(link) : /\ link[i] \in Carried /\ link[i].m \in 1..Len(sent) /\ link[i].try \in Nat
                                    /\ IsPacket(link[i]) /\ link[i].try <= attempts[link[i].m] /\ link[i].m \in Nat
                                    /\ link[i].at \in Nat /\ link[i].bytes \in Seq(Byte)
         /\ \A k \in 1..Len(sent) : attempts[k] \in Nat
<1>1. LinkTypes /\ PacketsAreParts
  BY DEF PartsInv
<1>2. Len(sent) \in Nat /\ Len(link) \in Nat /\ Len(accepted) \in Nat /\ DOMAIN accepted = 1..Len(accepted)
  BY <1>1 DEF LinkTypes
<1>3. \A k \in 1..Len(sent) : attempts[k] \in Nat
  BY <1>1, Sizes DEF LinkTypes
<1>4. ASSUME NEW i \in Whole
      PROVE  /\ i \in 1..Len(accepted) /\ accepted[i] \in Taken /\ accepted[i].fault # "damaged"
             /\ accepted[i].m \in Nat /\ accepted[i].try \in Nat
  <2>1. i \in 1..Len(accepted) /\ accepted[i].fault # "damaged"
    BY <1>2 DEF Whole
  <2>2. accepted[i] \in Taken
    BY <1>1, <2>1 DEF LinkTypes
  <2> QED BY <2>1, <2>2 DEF Taken
<1>5. ASSUME NEW i \in 1..Len(link)
      PROVE  /\ link[i] \in Carried /\ link[i].m \in 1..Len(sent) /\ link[i].try \in Nat
             /\ IsPacket(link[i]) /\ link[i].try <= attempts[link[i].m] /\ link[i].m \in Nat
             /\ link[i].at \in Nat /\ link[i].bytes \in Seq(Byte)
  <2>1. link[i] \in Carried
    BY <1>1 DEF LinkTypes
  <2>2. link[i].m \in Nat /\ link[i].try \in Nat /\ link[i].at \in Nat /\ link[i].bytes \in Seq(Byte)
    BY <2>1 DEF Carried
  <2>3. IsPacket(link[i])
    BY <1>1 DEF PacketsAreParts
  <2>4. link[i].m \in 1..Len(sent) /\ link[i].try \in 1..attempts[link[i].m]
    BY <2>3 DEF IsPacket, IsPart
  <2> QED BY <1>3, <2>1, <2>2, <2>3, <2>4
<1> QED BY <1>2, <1>3, <1>4, <1>5

LEMMA LinkSend ==
  ASSUME PartsInv, LinkInv, NEW msg \in Messages, Send(msg)
  PROVE  LinkInv'
<1>1. LinkTypes /\ PacketsAreParts /\ SentIsWhole
  BY DEF PartsInv
<1>2. /\ sender = "idle" /\ sender' \in {"idle", "header"}
      /\ hinformer' = hinformer /\ receiver' = receiver /\ got' = got /\ want' = want /\ accepted' = accepted
      /\ reported' = reported /\ link' = link
      /\ \/ Quiet /\ fault' = "none" /\ calm' = Len(sent) + 1
         \/ UNCHANGED <<fault, calm>>
      /\ Len(sent) \in Nat /\ Len(sent') = Len(sent) + 1
      /\ \A k \in 1..Len(sent) : sent'[k] = sent[k] /\ attempts'[k] = attempts[k]
  BY <1>1, SendEffect DEF receiverVars
<1>3. /\ Len(link) \in Nat
      /\ \A i \in 1..Len(link) : link[i] \in Carried /\ link[i].m \in 1..Len(sent)
      /\ \A i \in Whole : accepted[i].m \in Nat
  BY Labels
<1>4. Whole' = Whole /\ Current'.m = Len(sent) + 1
  BY <1>2 DEF Whole, Current
<1>5. \A i \in 1..Len(link) : sent'[link[i].m] = sent[link[i].m]
  BY <1>2, <1>3
<1>6. AcceptedOrder'
  BY <1>2, <1>4 DEF LinkInv, AcceptedOrder, Earlier
<1>7. AcceptedFound'
  <2>1. ASSUME NEW i \in Whole
        PROVE  /\ accepted'[i].m \in 1..Len(sent') /\ accepted'[i].try \in 1..attempts'[accepted'[i].m]
               /\ accepted'[i].found = FoundIn(Bytes(accepted[i].m)') /\ TooMany \notin ToSet(accepted'[i].found)
    <3>1. /\ accepted[i].m \in 1..Len(sent) /\ accepted[i].try \in 1..attempts[accepted[i].m]
          /\ accepted[i].found = FoundIn(sent[accepted[i].m].bytes) /\ TooMany \notin ToSet(accepted[i].found)
      BY DEF LinkInv, AcceptedFound, Bytes
    <3>2. accepted[i].m \in 1..Len(sent')
      BY <1>2, <3>1
    <3> QED BY <1>2, <3>1, <3>2 DEF Bytes
  <2> QED BY <1>4, <2>1 DEF AcceptedFound, Bytes
<1>8. AcceptedEarlier'
  <2>1. ASSUME NEW i \in Whole PROVE Earlier(accepted[i], Current)'
    <3>1. accepted[i].m \in 1..Len(sent)
      BY DEF LinkInv, AcceptedFound
    <3>2. accepted'[i].m < Current'.m
      BY <1>2, <1>4, <3>1
    <3> QED BY <3>2 DEF Earlier
  <2> QED BY <1>4, <2>1 DEF AcceptedEarlier
<1>9. Undamaged'
  <2>1. CASE Quiet
    <3>1. link' = <<>> /\ Len(link') = 0 /\ receiver' = "header"
      BY <1>2, <2>1 DEF Quiet
    <3>2. 1..Len(link') = {} /\ 1..Len(link') - 1 = {}
      BY <3>1
    <3> QED BY <1>2, <3>1, <3>2 DEF Undamaged, Chain, BeforeHeader, BeforeBody, Ended, GoesOn, Begins, NotYet
  <2>2. CASE UNCHANGED <<fault, calm>> /\ fault # "damaged"
    <3>1. Chain(link) /\ Ended /\ GoesOn /\ Begins /\ NotYet
      BY <2>2 DEF LinkInv, Undamaged
    <3>2. Chain(link)'
      BY <1>2, <1>3, <1>5, <3>1, ChainStays
    <3>3. BeforeHeader'
      <4>1. ASSUME NEW i \in 1..Len(link) PROVE Earlier(link[i], Current)'
        <5>1. link'[i].m < Current'.m
          BY <1>2, <1>3, <1>4
        <5> QED BY <5>1 DEF Earlier
      <4> QED BY <1>2, <4>1 DEF BeforeHeader
    <3>4. BeforeBody'
      BY <1>2 DEF BeforeBody
    <3>5. Ended'
      <4>1. CASE link = <<>>
        BY <1>2, <3>1, <4>1 DEF Ended
      <4>2. CASE link # <<>>
        <5>1. Len(link) \in 1..Len(link)
          BY <1>1, <4>2, ListEnds DEF LinkTypes
        <5>2. Final(link[Len(link)]) /\ sent'[link[Len(link)].m] = sent[link[Len(link)].m]
          BY <1>2, <1>5, <3>1, <4>2, <5>1 DEF Ended
        <5> QED BY <1>2, <4>2, <5>2 DEF Ended, Final, Bytes
      <4> QED BY <4>1, <4>2
    <3>6. GoesOn'
      <4>1. CASE receiver = "body" /\ link # <<>>
        <5>1. 1 \in 1..Len(link)
          BY <1>1, <4>1, ListEnds DEF LinkTypes
        <5>2. Holds(link[1].m, link[1].at) /\ sent'[link[1].m] = sent[link[1].m]
          BY <1>5, <3>1, <4>1, <5>1 DEF GoesOn
        <5> QED BY <1>2, <5>2 DEF GoesOn, Holds, Bytes
      <4> QED BY <1>2, <4>1 DEF GoesOn
    <3>7. Begins'
      BY <1>2, <2>2, <3>1 DEF Begins
    <3>8. NotYet'
      BY <1>2, <1>4, <3>1 DEF NotYet, Earlier
    <3> QED BY <3>2, <3>3, <3>4, <3>5, <3>6, <3>7, <3>8 DEF Undamaged
  <2> QED BY <1>2, <2>1, <2>2 DEF Undamaged
<1>10. Arrives'
  <2>1. CASE calm' = Len(sent) + 1
    <3>1. \A m \in reported' : ~(m >= calm')
      BY <1>1, <1>2, <2>1 DEF LinkTypes
    <3> QED BY <3>1 DEF Arrives
  <2>2. CASE UNCHANGED <<fault, calm>>
    <3> SUFFICES ASSUME fault = "none", NEW m \in reported, m >= calm
                 PROVE  (\E i \in Whole : accepted[i].m = m) \/ UnderWay(m)'
      BY <1>2, <1>4, <2>2 DEF Arrives
    <3>1. (\E i \in Whole : accepted[i].m = m) \/ UnderWay(m)
      BY DEF LinkInv, Arrives
    <3>2. ASSUME UnderWay(m) PROVE UnderWay(m)'
      <4>1. PICK i \in 1..Len(link) : link[i].m = m /\ Final(link[i])
        BY <3>2 DEF UnderWay
      <4>2. sent'[link[i].m] = sent[link[i].m]
        BY <1>5
      <4> QED BY <1>2, <4>1, <4>2 DEF UnderWay, Final, Bytes
    <3> QED BY <3>1, <3>2
  <2> QED BY <1>2, <2>1, <2>2
<1> QED BY <1>6, <1>7, <1>8, <1>9, <1>10 DEF LinkInv

LEMMA LinkTransfer ==
  ASSUME PartsInv, LinkInv, sender # "idle", NEW Q \in Seq(Carried), Q # <<>>, Chain(Q), Transfer(Q),
         \A i \in 1..Len(Q) : IsPacket(Q[i]) /\ IsCurrent(Q[i]),
         sender = "header" => Len(Q) = 1 /\ Q[1].at = 0,
         sender = "body" => Q[1].at = CRP_MAX_HEADER_LEN,
         (sender = "header" /\ IsLong) \/ Final(Q[Len(Q)])
  PROVE  LinkInv'
<1> DEFINE n == Len(link)
           k == Len(Q)
<1>1. /\ sent' = sent /\ receiver' = receiver /\ got' = got /\ want' = want /\ accepted' = accepted /\ calm' = calm
      /\ \A i \in 1..Len(sent) : attempts[i] <= attempts'[i] /\ attempts[i] \in Int /\ attempts'[i] \in Int
      /\ sender' \in {"idle", "header", "body"}
      /\ sender' = "header" => attempts'[Len(sent)] = attempts[Len(sent)] + 1
      /\ sender' = "body" => IsLong /\ sender = "header" /\ TransferOk /\ attempts' = attempts
      /\ reported' = reported \/ (sender' = "idle" /\ TransferOk /\ reported' = reported \cup {Len(sent)})
  BY TransferEffect DEF receiverVars
<1>2. PICK c \in 0..k : /\ link' = link \o SubSeq(Q, 1, c)
                        /\ (TransferOk /\ c = k) \/ TransferFails(Q, c)
  BY TransferEffect
<1>3. sender \in {"header", "body"} /\ fault \in Faults /\ link \in Seq(Carried)
  BY DEF PartsInv, LinkTypes
<1>4. k \in Nat \ {0} /\ 1 \in 1..k /\ k \in 1..k /\ c \in Int /\ 0 <= c /\ c <= k
  BY <1>2
<1>5. Whole' = Whole
  BY <1>1 DEF Whole
<1>6. /\ Current.m = Len(sent) /\ Current.try = attempts[Len(sent)]
      /\ Current'.m = Len(sent) /\ Current'.try = attempts'[Len(sent)]
      /\ Len(sent) \in 1..Len(sent) /\ Current.m \in Int /\ Current.try \in Int /\ Current'.try \in Int
      /\ m_buf.bytes = Bytes(Len(sent))
  BY <1>1, AttemptUnderWay DEF Current
<1>7. TransferOk => fault' = fault
  BY DEF TransferOk
<1>8. TransferFails(Q, c) => /\ sender' # "body"
                             /\ fault' # "damaged" => fault' = fault /\ ~(IsLong /\ IF sender = "header" THEN c > 0 ELSE c < k)
  BY DEF TransferFails
<1>9. sender = "body" => IsLong
  BY DEF PartsInv, Buffered
<1>10. fault' # "damaged" => /\ fault' = fault /\ (c = k \/ (c = 0 /\ sender = "header"))
                             /\ sender' # "body" /\ c = k => Final(Q[k])
                             /\ sender' = "body" => c = k
  <2> SUFFICES ASSUME fault' # "damaged"
               PROVE  /\ fault' = fault /\ (c = k \/ (c = 0 /\ sender = "header"))
                      /\ sender' # "body" /\ c = k => Final(Q[k])
                      /\ sender' = "body" => c = k
    OBVIOUS
  <2>1. CASE TransferOk /\ c = k
    <3>1. sender' # "body" => ~(sender = "header" /\ IsLong)
      BY <2>1 DEF TransferOk
    <3> QED BY <1>7, <2>1, <3>1
  <2>2. CASE TransferFails(Q, c)
    <3>1. fault' = fault /\ sender' # "body"
      BY <1>8, <2>2
    <3>2. sender = "body" => c = k
      BY <1>4, <1>8, <1>9, <2>2
    <3>3. sender = "header" => c = 0 \/ c = k
      <4> SUFFICES ASSUME sender = "header" PROVE c = 0 \/ c = k
        OBVIOUS
      <4>1. k = 1
        BY DEF k
      <4>2. c \in Int /\ 0 <= c /\ c <= 1
        BY <1>4, <4>1
      <4> QED BY <4>1, <4>2
    <3>4. c = k => Final(Q[k])
      BY <1>4, <1>8, <2>2
    <3> QED BY <1>3, <3>1, <3>2, <3>3, <3>4
  <2> QED BY <1>2, <2>1, <2>2
<1>11. /\ Len(link') = n + c /\ n \in Nat
       /\ \A i \in 1..n : link'[i] = link[i]
       /\ \A i \in 1..c : link'[n + i] = Q[i]
  BY <1>2, <1>3, LinkGrows
<1>12. /\ n = 0 <=> link = <<>>
       /\ \A i \in Whole : /\ accepted[i].m \in Int /\ accepted[i].try \in Int /\ Earlier(accepted[i], Current)
                           /\ accepted[i].m \in 1..Len(sent) /\ accepted[i].try \in 1..attempts[accepted[i].m]
       /\ \A i \in 1..n : link[i].m \in Int /\ link[i].try \in Int
  <2>1. /\ \A i \in Whole : accepted[i].m \in Nat /\ accepted[i].try \in Nat
        /\ \A i \in 1..n : link[i].m \in Nat /\ link[i].try \in Nat
    BY Labels
  <2>2. n = 0 <=> link = <<>>
    BY <1>3
  <2> QED BY <2>1, <2>2 DEF LinkInv, AcceptedEarlier, AcceptedFound
<1> HIDE DEF n, k
<1>13. \A i \in 1..k : Q[i].m = Current.m /\ Q[i].try = Current.try /\ Q[i].m = Len(sent)
  BY <1>6 DEF IsCurrent, k
<1>14. ASSUME sender' # "idle" PROVE \A p : p.m \in Int /\ p.try \in Int /\ Earlier(p, Current) => Earlier(p, Current')
  <2>1. sender' = "header" => Current'.try = Current.try + 1
    BY <1>1, <1>6
  <2>2. sender' = "body" => Current'.try = Current.try
    BY <1>1, <1>6
  <2> QED BY <1>1, <1>6, <1>14, <2>1, <2>2 DEF Earlier
<1>15. AcceptedOrder'
  BY <1>1, <1>5 DEF LinkInv, AcceptedOrder, Earlier
<1>16. AcceptedFound'
  <2>1. ASSUME NEW i \in Whole PROVE accepted[i].try \in 1..attempts'[accepted[i].m]
    BY <1>1, <1>12
  <2> QED BY <1>1, <1>5, <2>1 DEF LinkInv, AcceptedFound, Bytes
<1>17. AcceptedEarlier'
  <2>1. ASSUME sender' # "idle", NEW i \in Whole PROVE Earlier(accepted[i], Current')
    BY <1>12, <1>14, <2>1
  <2> QED BY <1>1, <1>5, <2>1 DEF AcceptedEarlier, Earlier
<1>18. ASSUME fault' # "damaged"
       PROVE  /\ Chain(link)' /\ BeforeHeader' /\ BeforeBody' /\ Ended' /\ GoesOn' /\ Begins' /\ NotYet'
  <2>1. Chain(link) /\ BeforeHeader /\ BeforeBody /\ Ended /\ GoesOn /\ Begins /\ NotYet /\ fault' = fault
    BY <1>10, <1>18 DEF LinkInv, Undamaged
  <2>2. c = k \/ (c = 0 /\ sender = "header")
    BY <1>10, <1>18
  <2>3. n > 0 => n \in 1..n
    BY <1>11
  <2>4. sender = "body" /\ n > 0 => IsCurrent(link[n]) /\ link[n].at = 0
    BY <1>12, <2>1 DEF BeforeBody, n
  <2>5. ASSUME NEW i \in 1..n PROVE ~Earlier(Current, link[i])
    <3>1. CASE sender = "header"
      <4>1. Earlier(link[i], Current)
        BY <2>1, <3>1 DEF BeforeHeader, n
      <4> QED BY <1>6, <1>12, <4>1 DEF Earlier
    <3>2. CASE sender = "body"
      <4>1. n > 0 /\ n \in Int
        BY <1>11
      <4>2. link[n].m = Current.m /\ link[n].try = Current.try
        BY <1>6, <2>4, <3>2, <4>1 DEF IsCurrent
      <4>3. ~Earlier(link[n], link[i])
        <5>1. CASE i < n
          BY <2>1, <2>3, <4>1, <5>1 DEF Chain, n
        <5>2. CASE i = n
          BY <1>12, <5>2 DEF Earlier
        <5> QED BY <4>1, <5>1, <5>2
      <4> QED BY <4>2, <4>3 DEF Earlier
    <3> QED BY <1>3, <3>1, <3>2
  <2>6. n > 0 => Follows(link[n], Q[1])
    <3> SUFFICES ASSUME n > 0 PROVE Follows(link[n], Q[1])
      OBVIOUS
    <3>1. CASE sender = "header"
      <4>1. Final(link[n])
        BY <1>12, <2>1, <3>1 DEF Ended, n
      <4>2. Earlier(link[n], Current)
        BY <2>1, <2>3, <3>1 DEF BeforeHeader, n
      <4> QED BY <1>4, <1>13, <3>1, <4>1, <4>2 DEF Follows, Earlier
    <3>2. CASE sender = "body"
      <4>1. link[n].m = Len(sent) /\ link[n].try = attempts[Len(sent)] /\ link[n].at = 0
        BY <2>4, <3>2 DEF IsCurrent
      <4>2. IsPart(link[n], Bytes(link[n].m), attempts[link[n].m])
        BY <2>3 DEF PartsInv, PacketsAreParts, IsPacket, n
      <4>3. Len(link[n].bytes) = CRP_MAX_HEADER_LEN
        BY <4>1, <4>2 DEF IsPart
      <4>4. Len(m_buf.bytes) > CRP_MAX_HEADER_LEN /\ Len(m_buf.bytes) \in Nat
        BY <1>9, <3>2, AttemptUnderWay DEF IsLong, WholeMessage
      <4>5. link[n].at + Len(link[n].bytes) = CRP_MAX_HEADER_LEN
        BY <4>1, <4>3, Sizes
      <4>6. ~Final(link[n])
        BY <1>6, <4>1, <4>4, <4>5, Sizes DEF Final
      <4> QED BY <1>4, <1>6, <1>13, <3>2, <4>1, <4>5, <4>6 DEF Follows
    <3> QED BY <1>3, <3>1, <3>2
  <2>7. Chain(link')
    <3>1. CASE c = 0
      <4>1. link' = link
        <5>1. SubSeq(Q, 1, 0) = <<>>
          OBVIOUS
        <5> QED BY <1>2, <1>3, <3>1, <5>1
      <4> QED BY <2>1, <4>1
    <3>2. CASE c = k
      <4>1. SubSeq(Q, 1, k) = Q
        BY DEF k
      <4>2. link' = link \o Q
        BY <1>2, <3>2, <4>1
      <4>3. \A i \in 1..n : \A j \in 1..k : ~Earlier(Q[j], link[i])
        BY <1>13, <2>5 DEF Earlier
      <4>4. link # <<>> => Follows(link[Len(link)], Q[1])
        BY <1>11, <1>12, <2>6 DEF n
      <4> QED BY <1>3, <2>1, <4>2, <4>3, <4>4, ChainGrows DEF n, k
    <3> QED BY <2>2, <3>1, <3>2
  <2>8. Chain(link)'
    BY <1>1, <2>7 DEF Chain, Follows, Final, Bytes, Earlier
  <2>9. \A i \in 1..n + c : \/ i \in 1..n /\ link'[i] = link[i]
                            \/ i - n \in 1..c /\ i - n \in 1..k /\ link'[i] = Q[i - n]
    <3> SUFFICES ASSUME NEW i \in 1..n + c, i \notin 1..n
                 PROVE  i - n \in 1..c /\ i - n \in 1..k /\ link'[i] = Q[i - n]
      BY <1>11
    <3> DEFINE q == i - n
    <3>1. q \in 1..c /\ q \in 1..k /\ n + q = i
      BY <1>4, <1>11
    <3> HIDE DEF q
    <3>2. link'[n + q] = Q[q]
      BY <1>11, <3>1
    <3> QED BY <3>1, <3>2 DEF q
  <2>10. BeforeHeader'
    <3> SUFFICES ASSUME sender' = "header", NEW i \in 1..n + c PROVE Earlier(link[i], Current)'
      BY <1>11 DEF BeforeHeader
    <3>1. Current'.try = Current.try + 1 /\ Current'.m = Current.m
      BY <1>1, <1>6
    <3>2. CASE i \in 1..n /\ link'[i] = link[i]
      <4>1. Earlier(link[i], Current')
        BY <1>6, <1>12, <2>5, <3>1, <3>2 DEF Earlier
      <4> QED BY <3>2, <4>1 DEF Earlier
    <3>3. CASE i - n \in 1..k /\ link'[i] = Q[i - n]
      <4>1. Q[i - n].m = Current.m /\ Q[i - n].try = Current.try
        BY <1>13, <3>3
      <4>2. link'[i].m = Current'.m /\ link'[i].try < Current'.try
        BY <1>6, <3>1, <3>3, <4>1
      <4> QED BY <4>2 DEF Earlier
    <3> QED BY <2>9, <3>2, <3>3
  <2>11. c = k => link' # <<>> /\ Len(link') = n + k /\ link'[Len(link')] = Q[k]
    <3> SUFFICES ASSUME c = k PROVE link' # <<>> /\ Len(link') = n + k /\ link'[Len(link')] = Q[k]
      OBVIOUS
    <3>1. Len(link') = n + k /\ n + k # 0 /\ link'[n + k] = Q[k]
      BY <1>4, <1>11
    <3>2. link' # <<>>
      BY <3>1
    <3> QED BY <3>1, <3>2
  <2>12. BeforeBody'
    <3> SUFFICES ASSUME sender' = "body"
                 PROVE  link' # <<>> /\ IsCurrent(link[Len(link)])' /\ link'[Len(link')].at = 0
      BY DEF BeforeBody
    <3>1. c = k /\ k = 1 /\ Q[1].at = 0
      BY <1>1, <1>10, <1>18 DEF k
    <3>2. link' # <<>> /\ link'[Len(link')] = Q[1] /\ attempts' = attempts
      BY <1>1, <2>11, <3>1
    <3> QED BY <1>1, <1>4, <1>6, <1>13, <3>1, <3>2 DEF IsCurrent
  <2>13. Ended'
    <3> SUFFICES ASSUME sender' # "body"
                 PROVE  IF link' = <<>> THEN receiver' = "header" ELSE Final(link[Len(link)])'
      BY DEF Ended
    <3>1. CASE c = k
      <4>1. Final(Q[k]) /\ link' # <<>> /\ link'[Len(link')] = Q[k]
        BY <1>10, <1>18, <2>11, <3>1
      <4> QED BY <1>1, <4>1 DEF Final, Bytes
    <3>2. CASE c = 0 /\ sender = "header"
      <4>1. link' = link
        <5>1. SubSeq(Q, 1, 0) = <<>>
          OBVIOUS
        <5> QED BY <1>2, <1>3, <3>2, <5>1
      <4> QED BY <1>1, <2>1, <3>2, <4>1 DEF Ended, Final, Bytes
    <3> QED BY <2>2, <3>1, <3>2
  <2>14. link' # <<>> => \/ n > 0 /\ link # <<>> /\ link'[1] = link[1]
                         \/ link = <<>> /\ link'[1] = Q[1]
    <3> SUFFICES ASSUME link' # <<>> PROVE \/ n > 0 /\ link # <<>> /\ link'[1] = link[1]
                                           \/ link = <<>> /\ link'[1] = Q[1]
      OBVIOUS
    <3>1. CASE n > 0
      <4>1. 1 \in 1..n
        BY <1>11, <3>1
      <4> QED BY <1>11, <1>12, <3>1, <4>1
    <3>2. CASE n = 0
      <4>1. link' = SubSeq(Q, 1, c)
        <5>1. link = <<>>
          BY <1>12, <3>2
        <5>2. SubSeq(Q, 1, c) \in Seq(Carried)
          BY <1>4 DEF k
        <5> QED BY <1>2, <5>1, <5>2
      <4>2. c # 0
        BY <4>1
      <4>3. link'[n + 1] = Q[1]
        <5>1. 1 \in 1..c
          BY <1>4, <4>2
        <5> QED BY <1>11, <5>1
      <4> QED BY <1>12, <3>2, <4>3
    <3> QED BY <1>11, <3>1, <3>2
  <2>15. GoesOn'
    <3> SUFFICES ASSUME receiver' = "body", link' # <<>> PROVE Holds(link[1].m, link[1].at)'
      BY DEF GoesOn
    <3>1. CASE link # <<>> /\ link'[1] = link[1]
      BY <1>1, <2>1, <3>1 DEF GoesOn, Holds, Bytes
    <3>2. CASE link = <<>> /\ link'[1] = Q[1]
      <4>1. sender = "body"
        BY <1>1, <1>3, <2>1, <3>2 DEF Ended
      <4>2. Holds(Len(sent), CRP_MAX_HEADER_LEN)
        BY <1>1, <2>1, <3>2, <4>1 DEF BeforeBody
      <4>3. link'[1].m = Len(sent) /\ link'[1].at = CRP_MAX_HEADER_LEN
        BY <1>4, <1>13, <3>2, <4>1
      <4> QED BY <1>1, <4>2, <4>3 DEF Holds, Bytes
    <3> QED BY <2>14, <3>1, <3>2
  <2>16. Begins'
    <3> SUFFICES ASSUME fault' = "none", receiver' = "header", link' # <<>> PROVE link'[1].at = 0
      BY DEF Begins
    <3>1. CASE link # <<>> /\ link'[1] = link[1]
      BY <1>1, <2>1, <3>1 DEF Begins
    <3>2. CASE link = <<>> /\ link'[1] = Q[1]
      <4>1. sender = "header"
        BY <1>1, <1>3, <2>1, <3>2 DEF BeforeBody
      <4> QED BY <3>2, <4>1
    <3> QED BY <2>14, <3>1, <3>2
  <2>17. NotYet'
    <3> SUFFICES ASSUME NEW i \in Whole, NEW j \in 1..n + c PROVE Earlier(accepted[i], link'[j])
      BY <1>1, <1>5, <1>11 DEF NotYet, Earlier
    <3>1. CASE j \in 1..n /\ link'[j] = link[j]
      BY <2>1, <3>1 DEF NotYet, n
    <3>2. CASE j - n \in 1..k /\ link'[j] = Q[j - n]
      <4>1. Q[j - n].m = Current.m /\ Q[j - n].try = Current.try
        BY <1>13, <3>2
      <4> QED BY <1>12, <3>2, <4>1 DEF Earlier
    <3> QED BY <2>9, <3>1, <3>2
  <2> QED BY <2>8, <2>10, <2>12, <2>13, <2>15, <2>16, <2>17
<1>19. Arrives'
  <2> SUFFICES ASSUME fault' = "none", NEW m \in reported', m >= calm
               PROVE  (\E i \in Whole : accepted[i].m = m) \/ UnderWay(m)'
    BY <1>1, <1>5 DEF Arrives
  <2>1. fault = "none"
    BY <1>10
  <2>2. CASE m \in reported
    <3>1. (\E i \in Whole : accepted[i].m = m) \/ UnderWay(m)
      BY <2>1, <2>2 DEF LinkInv, Arrives
    <3>2. ASSUME UnderWay(m) PROVE UnderWay(m)'
      <4>1. PICK i \in 1..n : link[i].m = m /\ Final(link[i])
        BY <3>2 DEF UnderWay, n
      <4>2. i \in 1..Len(link') /\ link'[i] = link[i]
        BY <1>4, <1>11
      <4> QED BY <1>1, <4>1, <4>2 DEF UnderWay, Final, Bytes
    <3> QED BY <3>1, <3>2
  <2>3. CASE m \notin reported
    <3>1. m = Len(sent) /\ sender' = "idle" /\ TransferOk
      BY <1>1, <2>3
    <3>2. sender = "header" => ~IsLong
      BY <3>1 DEF TransferOk
    <3>3. Final(Q[k])
      BY <3>2 DEF k
    <3>4. c = k
      <4>1. CASE TransferFails(Q, c)
        <5>1. IsLong /\ sender = "body" => c = k
          BY <1>4, <1>8, <4>1
        <5>2. sender = "header" => reported' = reported
          BY <4>1 DEF TransferFails
        <5> QED BY <1>3, <1>9, <2>3, <5>1, <5>2
      <4> QED BY <1>2, <4>1
    <3>5. n + k \in 1..Len(link') /\ link'[n + k] = Q[k] /\ Q[k].m = m
      BY <1>4, <1>11, <1>13, <3>1, <3>4
    <3> QED BY <1>1, <3>3, <3>5 DEF UnderWay, Final, Bytes
  <2> QED BY <2>2, <2>3
<1>20. Undamaged'
  BY <1>18 DEF Undamaged
<1> QED BY <1>15, <1>16, <1>17, <1>19, <1>20 DEF LinkInv

LEMMA LinkSendHeader == ASSUME PartsInv, LinkInv, SendHeader PROVE LinkInv'
<1> DEFINE Q == <<HeaderPacket>>
<1>1. sender = "header" /\ sender # "idle" /\ Transfer(Q)
  BY DEF SendHeader
<1>2. /\ HeaderPacket \in Carried /\ IsPacket(HeaderPacket) /\ HeaderPacket.at = 0
      /\ HeaderPacket.m = Len(sent) /\ HeaderPacket.try = attempts[Len(sent)]
  BY <1>1, HeaderPacketEffect
<1>3. Q \in Seq(Carried) /\ Len(Q) = 1 /\ Q # <<>> /\ Q[1] = HeaderPacket
  BY <1>2
<1> HIDE DEF Q
<1>4. Chain(Q)
  BY <1>3 DEF Chain
<1>5. \A i \in 1..Len(Q) : IsPacket(Q[i]) /\ IsCurrent(Q[i])
  BY <1>2, <1>3 DEF IsCurrent
<1>6. IsLong \/ Final(Q[Len(Q)])
  <2>1. Len(HeaderPacket.bytes) = CRP_MAX_HEADER_LEN
    BY <1>2 DEF IsPacket, IsPart
  <2>2. Len(m_buf.bytes) \in Nat /\ m_buf.bytes = Bytes(Len(sent))
    BY <1>1, AttemptUnderWay DEF WholeMessage
  <2>3. ~IsLong => 0 + Len(HeaderPacket.bytes) >= Len(Bytes(Len(sent)))
    BY <2>1, <2>2, Sizes DEF IsLong
  <2> QED BY <1>2, <1>3, <2>3 DEF Final
<1> QED BY <1>1, <1>2, <1>3, <1>4, <1>5, <1>6, LinkTransfer

LEMMA LinkSendBody == ASSUME PartsInv, LinkInv, SendBody PROVE LinkInv'
<1> DEFINE Q == BodyPackets
<1>1. sender = "body" /\ sender # "idle" /\ Transfer(Q)
  BY DEF SendBody
<1>2. /\ Q \in Seq(Carried) /\ Q # <<>> /\ Q[1].at = CRP_MAX_HEADER_LEN
      /\ \A i \in 1..Len(Q) :
           /\ IsPacket(Q[i]) /\ Q[i].m = Len(sent) /\ Q[i].try = attempts[Len(sent)] /\ Q[i].at # 0
           /\ IF i = Len(Q) THEN Final(Q[i])
              ELSE ~Final(Q[i]) /\ Q[i + 1].at = Q[i].at + Len(Q[i].bytes)
  BY <1>1, BodyPacketsEffect
<1> HIDE DEF Q
<1>3. Len(Q) \in Nat /\ Len(Q) \in 1..Len(Q)
  BY <1>2
<1>4. Chain(Q)
  <2>1. ASSUME NEW i \in 1..Len(Q) - 1 PROVE Follows(Q[i], Q[i + 1])
    <3>1. i \in 1..Len(Q) /\ i + 1 \in 1..Len(Q) /\ i # Len(Q)
      BY <1>3
    <3> QED BY <1>2, <3>1 DEF Follows
  <2>2. ASSUME NEW i \in 1..Len(Q), NEW j \in 1..Len(Q) PROVE ~Earlier(Q[j], Q[i])
    <3>1. Q[i].m = Len(sent) /\ Q[j].m = Len(sent) /\ Q[i].try = attempts[Len(sent)] /\ Q[j].try = attempts[Len(sent)]
      BY <1>2
    <3>2. Len(sent) \in Int /\ attempts[Len(sent)] \in Int
      BY <1>1, AttemptUnderWay
    <3> QED BY <3>1, <3>2 DEF Earlier
  <2> QED BY <2>1, <2>2 DEF Chain
<1>5. \A i \in 1..Len(Q) : IsPacket(Q[i]) /\ IsCurrent(Q[i])
  BY <1>2 DEF IsCurrent
<1> QED BY <1>1, <1>2, <1>3, <1>4, <1>5, LinkTransfer

-----------------------------------------------------------------------------
(* What is received.                                                       *)

\* The message that is complete with packet p.
Taking(p) == [m |-> p.m, try |-> p.try, found |-> FoundIn(Bytes(p.m)), fault |-> fault]

\* With it either a message is complete, or a part of one, or what is left of one that
\* the receiver gave up.
Completes(p) ==
  /\ Final(p) /\ receiver' = "header"
  /\ \/ fault' # "none" /\ accepted' = accepted
     \/ /\ fault' = fault /\ accepted' = Append(accepted, Taking(p))
        /\ TooMany \notin ToSet(FoundIn(Bytes(p.m)))
Continues(p) ==
  /\ ~Final(p) /\ receiver' = "body" /\ UNCHANGED <<accepted, fault>>
  /\ want' = Len(Bytes(p.m)) /\ Len(got') = p.at + Len(p.bytes) /\ p.at + Len(p.bytes) \in 1..want' - 1
  /\ \A k \in 1..p.at + Len(p.bytes) : got'[k] = Bytes(p.m)[k]
Remains(p) == p.at # 0 /\ receiver' = "header" /\ fault # "none" /\ UNCHANGED <<accepted, fault>>

LEMMA LinkReceived ==
  ASSUME PartsInv, LinkInv, link # <<>>, link' = Tail(link), NEW p, p = link[1],
         UNCHANGED <<sent, sender, attempts, reported, calm>>,
         fault' = "damaged" <=> fault = "damaged",
         fault = "damaged" => \/ accepted' = accepted
                              \/ \E x : x.fault = "damaged" /\ accepted' = Append(accepted, x),
         fault # "damaged" => Completes(p) \/ Continues(p) \/ Remains(p)
  PROVE  LinkInv'
<1> DEFINE n == Len(link)
           l == Len(accepted)
           new == Taking(p)
           Takes == fault # "damaged" /\ Completes(p) /\ fault' = fault
<1>1. /\ n \in Nat \ {0} /\ link' \in Seq(Carried) /\ Len(link') = n - 1 /\ p \in Carried /\ link \in Seq(Carried)
      /\ \A i \in 1..n - 1 : link'[i] = link[i + 1]
  <2>1. link \in Seq(Carried)
    BY DEF PartsInv, LinkTypes
  <2> QED BY <2>1, ListEnds
<1>2. /\ p.m \in 1..Len(sent) /\ p.try \in Nat /\ IsPacket(p) /\ p.try \in 1..attempts[p.m] /\ p.m \in Nat
      /\ \A i \in 1..n : link[i].m \in Int /\ link[i].try \in Int
  <2>1. 1 \in 1..n
    BY <1>1
  <2>2. IsPacket(p)
    BY <2>1, Labels
  <2> QED BY <2>1, <2>2, Labels DEF IsPacket, IsPart
<1>3. /\ \A i \in Whole : i \in 1..l /\ accepted[i].m \in Int /\ accepted[i].try \in Int
      /\ l \in Nat /\ accepted \in Seq(Taken) /\ sender \in {"idle", "header", "body"}
  <2>1. \A i \in Whole : i \in 1..l /\ accepted[i].m \in Nat /\ accepted[i].try \in Nat
    BY Labels
  <2> QED BY <2>1, Labels DEF PartsInv, LinkTypes
<1>4. fault # "damaged" => Chain(link) /\ BeforeHeader /\ BeforeBody /\ Ended /\ GoesOn /\ Begins /\ NotYet
  BY DEF LinkInv, Undamaged
<1>5. new.m = p.m /\ new.try = p.try /\ new.found = FoundIn(Bytes(p.m)) /\ new.fault = fault
  BY DEF Taking
<1> HIDE DEF new
<1>6. /\ \A i \in Whole : i \in Whole' /\ accepted'[i] = accepted[i]
      /\ \A i \in Whole' : \/ i \in Whole /\ accepted'[i] = accepted[i]
                           \/ /\ Takes /\ i = l + 1 /\ accepted'[i] = new
                              /\ TooMany \notin ToSet(new.found)
      /\ Takes => fault' # "none" \/ \E i \in Whole' : accepted'[i] = new
  <2>1. CASE accepted' = accepted
    <3>1. Whole' = Whole
      BY <2>1 DEF Whole
    <3>2. Takes => fault' # "none"
      <4>1. accepted' # Append(accepted, new)
        BY <1>3, <2>1
      <4> QED BY <4>1 DEF Completes, new
    <3> QED BY <2>1, <3>1, <3>2
  <2>2. ASSUME NEW x, accepted' = Append(accepted, x), x.fault = fault,
               x.fault # "damaged" => x = new /\ Takes /\ TooMany \notin ToSet(new.found)
        PROVE  /\ \A i \in Whole : i \in Whole' /\ accepted'[i] = accepted[i]
               /\ \A i \in Whole' : \/ i \in Whole /\ accepted'[i] = accepted[i]
                                    \/ /\ Takes /\ i = l + 1 /\ accepted'[i] = new
                                       /\ TooMany \notin ToSet(new.found)
               /\ Takes => fault' # "none" \/ \E i \in Whole' : accepted'[i] = new
    <3>1. /\ DOMAIN accepted' = 1..l + 1 /\ DOMAIN accepted = 1..l /\ accepted'[l + 1] = x
          /\ \A i \in 1..l : accepted'[i] = accepted[i]
      BY <1>3, <2>2
    <3> HIDE DEF l, Takes
    <3>2. \A i \in 1..l + 1 : i \in 1..l \/ i = l + 1
      BY <1>3
    <3>3. l + 1 \in 1..l + 1 /\ \A i \in 1..l : i \in 1..l + 1
      BY <1>3
    <3>4. Whole = {i \in 1..l : accepted[i].fault # "damaged"} /\ Whole' = {i \in 1..l + 1 : accepted'[i].fault # "damaged"}
      BY <3>1 DEF Whole
    <3>5. Takes => l + 1 \in Whole' /\ x = new
      BY <2>2, <3>1, <3>3, <3>4 DEF Takes
    <3> QED BY <2>2, <3>1, <3>2, <3>3, <3>4, <3>5
  <2>3. CASE accepted' # accepted
    <3>1. CASE fault = "damaged"
      BY <2>2, <2>3, <3>1
    <3>2. CASE fault # "damaged"
      <4>1. Completes(p) /\ accepted' = Append(accepted, new) /\ fault' = fault /\ TooMany \notin ToSet(new.found)
        BY <1>5, <2>3, <3>2 DEF Completes, Continues, Remains, new
      <4> QED BY <1>5, <2>2, <3>2, <4>1
    <3> QED BY <3>1, <3>2
  <2> QED BY <2>1, <2>3
<1>7. ASSUME fault # "damaged"
      PROVE  /\ Chain(link') /\ (link' # <<>> => Follows(p, link'[1]))
             /\ Final(p) => \A i \in 1..n - 1 : Earlier(p, link'[i])
             /\ \A i \in Whole : Earlier(accepted[i], p) /\ \A j \in 1..n - 1 : Earlier(accepted[i], link'[j])
             /\ n = 1 <=> link' = <<>>
             /\ n > 1 => link'[n - 1] = link[n] /\ n - 1 \in 1..n - 1
  <2>1. Chain(link') /\ (link' # <<>> => Follows(p, link'[1])) /\ (Final(p) => \A i \in 1..Len(link') : Earlier(p, link'[i]))
    BY <1>1, <1>4, <1>7, ChainShrinks
  <2>2. n = 1 <=> link' = <<>>
    <3>1. link' = <<>> <=> Len(link') = 0
      BY <1>1, ListEnds
    <3> QED BY <1>1, <3>1
  <2>3. n > 1 => link'[n - 1] = link[n] /\ n - 1 \in 1..n - 1
    <3> SUFFICES ASSUME n > 1 PROVE link'[n - 1] = link[n] /\ n - 1 \in 1..n - 1
      OBVIOUS
    <3>1. n - 1 \in 1..n - 1 /\ (n - 1) + 1 = n
      BY <1>1
    <3> QED BY <1>1, <3>1
  <2>4. ASSUME NEW i \in Whole PROVE Earlier(accepted[i], p) /\ \A j \in 1..n - 1 : Earlier(accepted[i], link'[j])
    <3>1. 1 \in 1..n /\ \A j \in 1..n - 1 : j + 1 \in 1..n
      BY <1>1
    <3> QED BY <1>1, <1>4, <1>7, <3>1 DEF NotYet
  <2> QED BY <1>1, <2>1, <2>2, <2>3, <2>4
<1>8. fault # "damaged" /\ sender = "body" =>
        IF n = 1 THEN IsCurrent(p) /\ p.at = 0 /\ ~Final(p) ELSE IsCurrent(link[n]) /\ link[n].at = 0
  <2> SUFFICES ASSUME fault # "damaged", sender = "body"
               PROVE  IF n = 1 THEN IsCurrent(p) /\ p.at = 0 /\ ~Final(p) ELSE IsCurrent(link[n]) /\ link[n].at = 0
    OBVIOUS
  <2>1. IsCurrent(link[n]) /\ link[n].at = 0
    BY <1>4 DEF BeforeBody
  <2>2. CASE n = 1
    <3>1. IsCurrent(p) /\ p.at = 0
      BY <2>1, <2>2
    <3>2. Len(p.bytes) = CRP_MAX_HEADER_LEN
      BY <1>2, <3>1 DEF IsPacket, IsPart
    <3>3. Len(m_buf.bytes) > CRP_MAX_HEADER_LEN /\ Len(m_buf.bytes) \in Nat /\ m_buf.bytes = Bytes(Len(sent))
      BY AttemptUnderWay DEF PartsInv, Buffered, IsLong, WholeMessage
    <3>4. p.at + Len(p.bytes) < Len(Bytes(p.m))
      BY <3>1, <3>2, <3>3, Sizes DEF IsCurrent
    <3>5. ~Final(p)
      BY <3>2, <3>3, <3>4, Sizes, <3>1 DEF Final, IsCurrent
    <3> QED BY <2>2, <3>1, <3>5
  <2> QED BY <2>1, <2>2
<1>9. AcceptedOrder'
  <2> SUFFICES ASSUME NEW i \in Whole', NEW j \in Whole', i < j PROVE Earlier(accepted'[i], accepted'[j])
    BY DEF AcceptedOrder, Earlier
  <2>1. CASE j \in Whole /\ accepted'[j] = accepted[j]
    <3>1. i \in Whole /\ accepted'[i] = accepted[i]
      <4>1. j <= l /\ j \in Int
        BY <1>3, <2>1
      <4>2. i # l + 1
        BY <1>3, <4>1
      <4> QED BY <1>6, <4>2
    <3> QED BY <2>1, <3>1 DEF LinkInv, AcceptedOrder
  <2>2. CASE Takes /\ j = l + 1 /\ accepted'[j] = new
    <3>1. i \in Whole /\ accepted'[i] = accepted[i]
      <4>1. i # l + 1
        BY <1>3, <2>2
      <4> QED BY <1>6, <4>1
    <3>2. Earlier(accepted[i], p)
      BY <1>7, <2>2, <3>1
    <3> QED BY <1>5, <2>2, <3>1, <3>2 DEF Earlier
  <2> QED BY <1>6, <2>1, <2>2
<1>10. AcceptedFound'
  <2> SUFFICES ASSUME NEW i \in Whole'
               PROVE  /\ accepted'[i].m \in 1..Len(sent) /\ accepted'[i].try \in 1..attempts[accepted'[i].m]
                      /\ accepted'[i].found = FoundIn(Bytes(accepted'[i].m)) /\ TooMany \notin ToSet(accepted'[i].found)
    BY DEF AcceptedFound, Bytes
  <2>1. CASE i \in Whole /\ accepted'[i] = accepted[i]
    BY <2>1 DEF LinkInv, AcceptedFound
  <2>2. CASE accepted'[i] = new /\ TooMany \notin ToSet(new.found)
    BY <1>2, <1>5, <2>2
  <2> QED BY <1>6, <2>1, <2>2
<1>11. AcceptedEarlier'
  <2> SUFFICES ASSUME sender # "idle", NEW i \in Whole' PROVE Earlier(accepted'[i], Current)
    BY DEF AcceptedEarlier, Earlier, Current
  <2>1. CASE i \in Whole /\ accepted'[i] = accepted[i]
    BY <2>1 DEF LinkInv, AcceptedEarlier
  <2>2. CASE Takes /\ accepted'[i] = new
    <3>1. Earlier(p, Current)
      <4>1. CASE sender = "header"
        <5>1. 1 \in 1..n
          BY <1>1
        <5> QED BY <1>4, <2>2, <4>1, <5>1 DEF BeforeHeader
      <4>2. CASE sender = "body"
        <5>1. Final(p)
          BY <2>2 DEF Completes
        <5>2. n # 1 /\ n > 1 /\ IsCurrent(link[n])
          BY <1>1, <1>8, <2>2, <4>2, <5>1
        <5>3. Earlier(p, link[n])
          BY <1>7, <2>2, <5>1, <5>2
        <5> QED BY <5>2, <5>3 DEF Earlier, IsCurrent, Current
      <4> QED BY <1>3, <4>1, <4>2
    <3> QED BY <1>5, <2>2, <3>1 DEF Earlier
  <2> QED BY <1>6, <2>1, <2>2
<1>12. ASSUME fault # "damaged"
       PROVE  Chain(link)' /\ BeforeHeader' /\ BeforeBody' /\ Ended' /\ GoesOn' /\ Begins' /\ NotYet'
  <2>1. Completes(p) \/ Continues(p) \/ Remains(p)
    BY <1>12
  <2>2. Chain(link)'
    BY <1>7, <1>12 DEF Chain, Follows, Final, Bytes, Earlier
  <2>3. BeforeHeader'
    <3> SUFFICES ASSUME sender = "header", NEW i \in 1..n - 1 PROVE Earlier(link'[i], Current)
      BY <1>1 DEF BeforeHeader, Earlier, Current
    <3>1. i + 1 \in 1..n /\ link'[i] = link[i + 1]
      BY <1>1
    <3> QED BY <1>4, <1>12, <3>1 DEF BeforeHeader
  <2>4. BeforeBody'
    <3> SUFFICES ASSUME sender = "body"
                 PROVE  IF link' = <<>>
                          THEN /\ receiver' = "body" => Holds(Len(sent), CRP_MAX_HEADER_LEN)'
                               /\ fault' = "none" => receiver' = "body"
                          ELSE IsCurrent(link'[Len(link')]) /\ link'[Len(link')].at = 0
      BY DEF BeforeBody, IsCurrent
    <3>1. CASE n = 1
      <4>1. link' = <<>> /\ IsCurrent(p) /\ p.at = 0 /\ ~Final(p)
        BY <1>7, <1>8, <1>12, <3>1
      <4>2. Continues(p)
        BY <2>1, <4>1 DEF Completes, Remains
      <4>3. Len(p.bytes) = CRP_MAX_HEADER_LEN /\ p.at + Len(p.bytes) = CRP_MAX_HEADER_LEN
        BY <1>2, <4>1, Sizes DEF IsPacket, IsPart
      <4> QED BY <4>1, <4>2, <4>3 DEF Continues, Holds, IsCurrent, Bytes
    <3>2. CASE n # 1
      <4>1. n > 1 /\ Len(link') = n - 1 /\ link' # <<>>
        BY <1>1, <1>7, <1>12, <3>2
      <4>2. link'[Len(link')] = link[n]
        BY <1>7, <1>12, <4>1
      <4> QED BY <1>8, <1>12, <3>2, <4>1, <4>2
    <3> QED BY <3>1, <3>2
  <2>5. Ended'
    <3> SUFFICES ASSUME sender # "body"
                 PROVE  IF link' = <<>> THEN receiver' = "header" ELSE Final(link'[Len(link')])
      BY DEF Ended, Final, Bytes
    <3>1. Final(link[n])
      BY <1>4, <1>12 DEF Ended
    <3>2. CASE n = 1
      <4>1. link' = <<>> /\ Final(p)
        BY <1>7, <1>12, <3>1, <3>2
      <4> QED BY <2>1, <4>1 DEF Completes, Continues, Remains
    <3>3. CASE n # 1
      <4>1. n > 1 /\ Len(link') = n - 1 /\ link' # <<>>
        BY <1>1, <1>7, <1>12, <3>3
      <4>2. link'[Len(link')] = link[n]
        BY <1>7, <1>12, <4>1
      <4> QED BY <3>1, <4>1, <4>2
    <3> QED BY <3>2, <3>3
  <2>6. GoesOn'
    <3> SUFFICES ASSUME receiver' = "body", link' # <<>> PROVE Holds(link[1].m, link[1].at)'
      BY DEF GoesOn
    <3>1. Continues(p) /\ ~Final(p)
      BY <2>1 DEF Completes, Continues, Remains
    <3>2. link'[1].m = p.m /\ link'[1].at = p.at + Len(p.bytes)
      BY <1>7, <1>12, <3>1 DEF Follows
    <3> QED BY <3>1, <3>2 DEF Continues, Holds, Bytes
  <2>7. Begins'
    <3> SUFFICES ASSUME fault' = "none", receiver' = "header", link' # <<>> PROVE link'[1].at = 0
      BY DEF Begins
    <3>1. Final(p)
      BY <2>1 DEF Completes, Continues, Remains
    <3> QED BY <1>7, <1>12, <3>1 DEF Follows
  <2>8. NotYet'
    <3> SUFFICES ASSUME NEW i \in Whole', NEW j \in 1..n - 1 PROVE Earlier(accepted'[i], link'[j])
      BY <1>1 DEF NotYet, Earlier
    <3>1. CASE i \in Whole /\ accepted'[i] = accepted[i]
      BY <1>7, <1>12, <3>1
    <3>2. CASE Takes /\ accepted'[i] = new
      <4>1. Earlier(p, link'[j])
        BY <1>7, <3>2 DEF Completes
      <4> QED BY <1>5, <3>2, <4>1 DEF Earlier
    <3> QED BY <1>6, <3>1, <3>2
  <2> QED BY <2>2, <2>3, <2>4, <2>5, <2>6, <2>7, <2>8
<1>13. Arrives'
  <2> SUFFICES ASSUME fault' = "none", NEW m \in reported, m >= calm
               PROVE  (\E i \in Whole' : accepted'[i].m = m) \/ UnderWay(m)'
    BY DEF Arrives
  <2>1. fault # "damaged" /\ (Completes(p) \/ Continues(p) \/ Remains(p))
    OBVIOUS
  <2>2. fault = "none" /\ ~Remains(p)
    BY <2>1 DEF Completes, Continues, Remains
  <2>3. (\E i \in Whole : accepted[i].m = m) \/ UnderWay(m)
    BY <2>2 DEF LinkInv, Arrives
  <2>4. ASSUME NEW i \in Whole, accepted[i].m = m PROVE \E j \in Whole' : accepted'[j].m = m
    BY <1>6, <2>4
  <2>5. ASSUME NEW i \in 1..n, link[i].m = m, Final(link[i])
        PROVE  (\E j \in Whole' : accepted'[j].m = m) \/ UnderWay(m)'
    <3>1. CASE i = 1
      <4>1. Completes(p) /\ Takes /\ p.m = m
        BY <2>1, <2>2, <2>5, <3>1 DEF Completes, Continues
      <4>2. PICK j \in Whole' : accepted'[j] = new
        BY <1>6, <4>1
      <4> QED BY <1>5, <4>1, <4>2
    <3>2. CASE i # 1
      <4> DEFINE j == i - 1
      <4>1. j \in 1..n - 1 /\ j + 1 = i
        BY <1>1, <3>2
      <4> HIDE DEF j
      <4>2. j \in 1..Len(link') /\ link'[j] = link[i]
        BY <1>1, <4>1
      <4> QED BY <2>5, <4>2 DEF UnderWay, Final, Bytes
    <3> QED BY <3>1, <3>2
  <2> QED BY <2>3, <2>4, <2>5 DEF UnderWay
<1>14. Undamaged'
  BY <1>12 DEF Undamaged
<1> QED BY <1>9, <1>10, <1>11, <1>13, <1>14 DEF LinkInv

\* A message taken when one was broken off does not count.
LEMMA AcceptOutcome ==
  ASSUME LinkTypes, NEW p \in Carried, NEW b \in Seq(Byte), Accept(p, b)
  PROVE  /\ fault' = "damaged" <=> fault = "damaged"
         /\ fault = "damaged" => \/ accepted' = accepted
                                 \/ \E x : x.fault = "damaged" /\ accepted' = Append(accepted, x)
         /\ Final(p) /\ b = Bytes(p.m) => Completes(p)
<1> DEFINE new == [m |-> p.m, try |-> p.try, found |-> FoundIn(b), fault |-> fault]
<1>1. /\ receiver' = "header"
      /\ \/ /\ TooMany \in ToSet(FoundIn(b)) /\ accepted' = accepted
            /\ fault' = IF fault = "none" THEN "missed" ELSE fault
         \/ /\ TooMany \notin ToSet(FoundIn(b)) /\ accepted' = Append(accepted, new)
            /\ fault' = fault
  BY AcceptEffect DEF AwaitHeader
<1>2. new.fault = fault
  OBVIOUS
<1>3. b = Bytes(p.m) => new = Taking(p)
  BY DEF Taking
<1> HIDE DEF new
<1> QED BY <1>1, <1>2, <1>3 DEF Completes

LEMMA LinkReceiveHeader == ASSUME PartsInv, LinkInv, ReceiveHeader PROVE LinkInv'
<1> DEFINE len == m_headerLen + Head(link).bytes[2].length
<1>1. /\ LinkTypes /\ link # <<>> /\ link' = Tail(link) /\ receiver = "header"
      /\ UNCHANGED <<sent, sender, attempts, reported, calm>>
  BY DEF PartsInv, ReceiveHeader, senderVars
<1>2. PICK p : p = link[1]
  OBVIOUS
<1>3. p = Head(link) /\ p \in Carried /\ IsPacket(p) /\ p.bytes \in Seq(Byte) /\ p.at \in Nat
  <2>1. Head(link) = link[1] /\ 1 \in 1..Len(link)
    BY <1>1, ListEnds DEF LinkTypes
  <2> QED BY <1>2, <2>1, Labels
<1>4. \/ ~IsHeader(p.bytes) /\ UNCHANGED <<receiverVars, fault>>
      \/ IsHeader(p.bytes) /\ FitsIn(len, p.bytes) /\ Accept(p, SubSeq(p.bytes, 1, len))
      \/ /\ IsHeader(p.bytes) /\ ~FitsIn(len, p.bytes) /\ receiver' = "body" /\ got' = p.bytes /\ want' = len
         /\ UNCHANGED <<accepted, fault>>
  BY <1>3 DEF ReceiveHeader
<1>5. /\ p.at = 0 <=> IsHeader(p.bytes)
      /\ p.at = 0 => len = Len(Bytes(p.m)) /\ Len(p.bytes) = CRP_MAX_HEADER_LEN /\ len \in Nat /\ len >= 12
  BY <1>3, HeaderFound
<1> HIDE DEF len
<1>6. CASE ~IsHeader(p.bytes) /\ UNCHANGED <<receiverVars, fault>>
  <2>1. fault # "damaged" => Remains(p)
    <3>1. fault # "damaged" => Begins
      BY DEF LinkInv, Undamaged
    <3> QED BY <1>1, <1>2, <1>5, <1>6, <3>1 DEF Begins, Remains, receiverVars
  <2> QED BY <1>1, <1>2, <1>6, <2>1, LinkReceived DEF receiverVars
<1>7. CASE IsHeader(p.bytes) /\ FitsIn(len, p.bytes) /\ Accept(p, SubSeq(p.bytes, 1, len))
  <2> DEFINE b == SubSeq(p.bytes, 1, len)
  <2>1. len \in Nat /\ len <= Len(p.bytes) /\ len = Len(Bytes(p.m)) /\ Len(p.bytes) = CRP_MAX_HEADER_LEN /\ p.at = 0
    BY <1>5, <1>7 DEF FitsIn
  <2>2. b \in Seq(Byte) /\ Len(b) = len /\ \A k \in 1..len : b[k] = p.bytes[k]
    <3>1. b \in Seq(Byte) /\ Len(b) = len - 0 /\ \A k \in 1..len - 0 : b[k] = p.bytes[0 + k]
      BY <1>3, <2>1
    <3> QED BY <2>1, <3>1
  <2>3. \A k \in 1..len : p.bytes[k] = Bytes(p.m)[k]
    <3> SUFFICES ASSUME NEW k \in 1..len PROVE p.bytes[k] = Bytes(p.m)[k]
      OBVIOUS
    <3>1. k \in 1..Len(p.bytes) /\ p.at + k = k /\ k <= Len(Bytes(p.m))
      BY <1>3, <2>1
    <3> QED BY <1>3, <3>1 DEF IsPacket, IsPart
  <2>4. Accept(p, b)
    BY <1>7
  <2> HIDE DEF b
  <2>5. Bytes(p.m) \in Seq(Byte)
    BY <1>3 DEF PartsInv, SentIsWhole, IsWhole, WholeMessage, IsPacket, Bytes
  <2>6. b = Bytes(p.m)
    <3>1. Len(b) = Len(Bytes(p.m)) /\ \A k \in 1..Len(b) : b[k] = Bytes(p.m)[k]
      BY <2>1, <2>2, <2>3
    <3> QED BY <2>2, <2>5, <3>1, SameList
  <2>7. Final(p)
    <3>1. p.at + Len(p.bytes) = Len(p.bytes) /\ Len(p.bytes) >= len
      BY <1>3, <2>1
    <3> QED BY <2>1, <3>1 DEF Final
  <2>8. /\ fault' = "damaged" <=> fault = "damaged"
        /\ fault = "damaged" => \/ accepted' = accepted
                                \/ \E x : x.fault = "damaged" /\ accepted' = Append(accepted, x)
        /\ Completes(p)
    BY <1>1, <1>3, <2>2, <2>4, <2>6, <2>7, AcceptOutcome
  <2> QED BY <1>1, <1>2, <2>8, LinkReceived
<1>8. CASE /\ IsHeader(p.bytes) /\ ~FitsIn(len, p.bytes) /\ receiver' = "body" /\ got' = p.bytes /\ want' = len
           /\ UNCHANGED <<accepted, fault>>
  <2>1. /\ len \in Nat /\ len > Len(p.bytes) /\ len = Len(Bytes(p.m)) /\ Len(p.bytes) = CRP_MAX_HEADER_LEN /\ p.at = 0
        /\ p.at + Len(p.bytes) = Len(p.bytes) /\ Len(p.bytes) \in Nat /\ Len(p.bytes) > 0
    BY <1>3, <1>5, <1>8, Sizes DEF FitsIn, m_headerLen
  <2>2. \A k \in 1..Len(p.bytes) : p.bytes[k] = Bytes(p.m)[k]
    <3> SUFFICES ASSUME NEW k \in 1..Len(p.bytes) PROVE p.bytes[k] = Bytes(p.m)[k]
      OBVIOUS
    <3>1. p.at + k = k /\ k <= Len(Bytes(p.m))
      BY <1>3, <2>1
    <3> QED BY <1>3, <3>1 DEF IsPacket, IsPart
  <2>3. ~Final(p)
    BY <2>1 DEF Final
  <2>4. Len(p.bytes) \in 1..len - 1
    BY <2>1
  <2>5. Continues(p)
    BY <1>8, <2>1, <2>2, <2>3, <2>4 DEF Continues
  <2> QED BY <1>1, <1>2, <1>8, <2>5, LinkReceived
<1> QED BY <1>4, <1>6, <1>7, <1>8

LEMMA LinkReceiveBody == ASSUME PartsInv, LinkInv, ReceiveBody PROVE LinkInv'
<1>1. /\ LinkTypes /\ link # <<>> /\ link' = Tail(link) /\ receiver = "body"
      /\ UNCHANGED <<sent, sender, attempts, reported, calm>>
  BY DEF PartsInv, ReceiveBody, senderVars
<1>2. PICK p : p = link[1]
  OBVIOUS
<1>3. p = Head(link) /\ p \in Carried /\ IsPacket(p) /\ p.bytes \in Seq(Byte) /\ p.at \in Nat
  <2>1. Head(link) = link[1] /\ 1 \in 1..Len(link)
    BY <1>1, ListEnds DEF LinkTypes
  <2> QED BY <1>2, <2>1, Labels
<1> DEFINE b == got \o p.bytes
<1>4. \/ Overflows(p.bytes) /\ AwaitHeader /\ UNCHANGED <<accepted, fault>>
      \/ ~Overflows(p.bytes) /\ Len(b) = want /\ Accept(p, b)
      \/ ~Overflows(p.bytes) /\ Len(b) # want /\ got' = b /\ UNCHANGED <<receiver, want, accepted, fault>>
  BY <1>3 DEF ReceiveBody
<1>5. /\ b \in Seq(Byte) /\ Len(b) = Len(got) + Len(p.bytes) /\ Len(b) \in Nat /\ want \in Int /\ Len(got) \in Nat
      /\ \A k \in 1..Len(got) : b[k] = got[k]
      /\ \A k \in 1..Len(p.bytes) : b[Len(got) + k] = p.bytes[k]
  BY <1>1, <1>3 DEF LinkTypes
<1> HIDE DEF b
<1>6. Bytes(p.m) \in Seq(Byte) /\ IsPart(p, Bytes(p.m), attempts[p.m])
  BY <1>3 DEF PartsInv, SentIsWhole, IsWhole, WholeMessage, IsPacket, Bytes
<1>7. ASSUME fault # "damaged"
      PROVE  /\ p.at # 0 /\ Len(b) = p.at + Len(p.bytes) /\ want = Len(Bytes(p.m)) /\ Len(b) <= want /\ Len(b) > 0
             /\ ~Overflows(p.bytes) /\ (Final(p) <=> Len(b) = want)
             /\ \A k \in 1..Len(b) : b[k] = Bytes(p.m)[k]
  <2>1. Holds(p.m, p.at)
    BY <1>1, <1>2, <1>7 DEF LinkInv, Undamaged, GoesOn
  <2>2. want = Len(Bytes(p.m)) /\ Len(got) = p.at /\ p.at # 0 /\ \A k \in 1..p.at : got[k] = Bytes(p.m)[k]
    BY <2>1 DEF Holds
  <2>3. p.at + Len(p.bytes) <= want /\ \A k \in 1..Len(p.bytes) : p.bytes[k] = Bytes(p.m)[p.at + k]
    <3>1. p.at + Len(p.bytes) <= Len(Bytes(p.m))
      BY <1>6, <2>2 DEF IsPart
    <3>2. ASSUME NEW k \in 1..Len(p.bytes) PROVE p.bytes[k] = Bytes(p.m)[p.at + k]
      <4>1. p.at + k <= Len(Bytes(p.m))
        BY <1>3, <1>6, <3>1
      <4> QED BY <1>6, <4>1 DEF IsPart
    <3> QED BY <2>2, <3>1, <3>2
  <2>4. Len(b) = p.at + Len(p.bytes) /\ Len(b) <= want /\ Len(b) > 0 /\ ~Overflows(p.bytes)
    BY <1>3, <1>5, <2>2, <2>3 DEF Overflows
  <2>5. Final(p) <=> Len(b) = want
    BY <1>5, <2>2, <2>4 DEF Final
  <2>6. ASSUME NEW k \in 1..Len(b) PROVE b[k] = Bytes(p.m)[k]
    <3>1. CASE k \in 1..Len(got)
      BY <1>5, <2>2, <3>1
    <3>2. CASE k \notin 1..Len(got)
      <4> DEFINE q == k - Len(got)
      <4>1. q \in 1..Len(p.bytes) /\ Len(got) + q = k
        BY <1>3, <1>5, <3>2
      <4> HIDE DEF q
      <4>2. b[Len(got) + q] = p.bytes[q] /\ p.bytes[q] = Bytes(p.m)[p.at + q]
        BY <1>5, <2>3, <4>1
      <4> QED BY <2>2, <4>1, <4>2
    <3> QED BY <3>1, <3>2
  <2> QED BY <2>2, <2>4, <2>5, <2>6
<1>8. CASE AwaitHeader /\ UNCHANGED <<accepted, fault>> /\ Overflows(p.bytes)
  <2>1. fault = "damaged"
    BY <1>7, <1>8
  <2> QED BY <1>1, <1>2, <1>8, <2>1, LinkReceived
<1>9. CASE Len(b) = want /\ Accept(p, b)
  <2>1. fault # "damaged" => Final(p) /\ b = Bytes(p.m)
    <3> SUFFICES ASSUME fault # "damaged" PROVE Final(p) /\ b = Bytes(p.m)
      OBVIOUS
    <3>1. Final(p) /\ Len(b) = Len(Bytes(p.m)) /\ \A k \in 1..Len(b) : b[k] = Bytes(p.m)[k]
      BY <1>7, <1>9
    <3> QED BY <1>5, <1>6, <3>1, SameList
  <2>2. /\ fault' = "damaged" <=> fault = "damaged"
        /\ fault = "damaged" => \/ accepted' = accepted
                                \/ \E x : x.fault = "damaged" /\ accepted' = Append(accepted, x)
        /\ fault # "damaged" => Completes(p)
    BY <1>1, <1>3, <1>5, <1>9, <2>1, AcceptOutcome
  <2> QED BY <1>1, <1>2, <2>2, LinkReceived
<1>10. CASE Len(b) # want /\ got' = b /\ UNCHANGED <<receiver, want, accepted, fault>>
  <2>1. fault # "damaged" => Continues(p)
    <3> SUFFICES ASSUME fault # "damaged" PROVE Continues(p)
      OBVIOUS
    <3>1. Len(b) \in 1..want - 1
      BY <1>5, <1>7, <1>10
    <3> QED BY <1>1, <1>7, <1>10, <3>1 DEF Continues
  <2> QED BY <1>1, <1>2, <1>10, <2>1, LinkReceived
<1> QED BY <1>4, <1>8, <1>9, <1>10

LEMMA LinkReceiveFails == ASSUME PartsInv, LinkInv, ReceiveFails PROVE LinkInv'
<1>1. /\ receiver' = "header" /\ sent' = sent /\ sender' = sender /\ attempts' = attempts /\ reported' = reported
      /\ accepted' = accepted /\ link' = link /\ calm' = calm
      /\ fault' = IF receiver = "body" /\ fault = "none" THEN "missed" ELSE fault
  BY DEF ReceiveFails, AwaitHeader, Missed, senderVars
<1>2. Whole' = Whole /\ Current' = Current
  BY <1>1 DEF Whole, Current
<1>3. AcceptedOrder' /\ AcceptedFound' /\ AcceptedEarlier'
  BY <1>1, <1>2 DEF LinkInv, AcceptedOrder, AcceptedFound, AcceptedEarlier, Earlier, Bytes
<1>4. Arrives'
  BY <1>1, <1>2 DEF LinkInv, Arrives, UnderWay, Final, Bytes
<1>5. ASSUME fault' # "damaged"
      PROVE  Chain(link)' /\ BeforeHeader' /\ BeforeBody' /\ Ended' /\ GoesOn' /\ Begins' /\ NotYet'
  <2>1. fault # "damaged" /\ (fault' = "none" => fault = "none" /\ receiver # "body")
    BY <1>1, <1>5
  <2>2. Chain(link) /\ BeforeHeader /\ BeforeBody /\ Ended /\ GoesOn /\ Begins /\ NotYet
    BY <2>1 DEF LinkInv, Undamaged
  <2>3. Chain(link)'
    BY <1>1, <2>2 DEF Chain, Follows, Final, Bytes, Earlier
  <2>4. BeforeHeader' /\ NotYet'
    BY <1>1, <1>2, <2>2 DEF BeforeHeader, NotYet, Earlier
  <2>5. BeforeBody'
    BY <1>1, <2>1, <2>2 DEF BeforeBody, IsCurrent
  <2>6. Ended' /\ GoesOn'
    BY <1>1, <2>2 DEF Ended, GoesOn, Final, Bytes
  <2>7. Begins'
    <3>1. receiver \in {"header", "body"}
      BY DEF PartsInv, LinkTypes
    <3> QED BY <1>1, <2>1, <2>2, <3>1 DEF Begins
  <2> QED BY <2>3, <2>4, <2>5, <2>6, <2>7
<1>6. Undamaged'
  BY <1>5 DEF Undamaged
<1> QED BY <1>3, <1>4, <1>6 DEF LinkInv

LEMMA LinkStutters == ASSUME LinkInv, UNCHANGED vars PROVE LinkInv'
<1>1. /\ sent' = sent /\ sender' = sender /\ attempts' = attempts /\ reported' = reported /\ link' = link
      /\ receiver' = receiver /\ got' = got /\ want' = want /\ accepted' = accepted /\ fault' = fault /\ calm' = calm
  BY DEF vars, senderVars, receiverVars
<1>2. Whole' = Whole /\ Current' = Current
  BY <1>1 DEF Whole, Current
<1>3. AcceptedOrder' /\ AcceptedFound' /\ AcceptedEarlier' /\ Arrives'
  BY <1>1, <1>2 DEF LinkInv, AcceptedOrder, AcceptedFound, AcceptedEarlier, Arrives, UnderWay, Earlier, Final, Bytes
<1>4. Undamaged'
  <2>1. Chain(link) => Chain(link)'
    BY <1>1 DEF Chain, Follows, Final, Bytes, Earlier
  <2>2. BeforeHeader = BeforeHeader' /\ NotYet = NotYet'
    BY <1>1, <1>2 DEF BeforeHeader, NotYet, Earlier
  <2>3. (BeforeBody => BeforeBody') /\ (Ended => Ended') /\ (GoesOn => GoesOn') /\ (Begins => Begins')
    BY <1>1 DEF BeforeBody, Ended, GoesOn, Begins, IsCurrent, Holds, Final, Bytes
  <2> QED BY <1>1, <2>1, <2>2, <2>3 DEF LinkInv, Undamaged
<1> QED BY <1>3, <1>4 DEF LinkInv

\* What the properties follow from, in every step.
\* However transfers of sendFull fail and receives of recvFull give up, packets are received as
\* parts of one attempt after the other until a long message is broken off, and what is accepted
\* before is whole messages.
THEOREM LinkHolds == Spec => [](PartsInv /\ LinkInv)
<1>1. Init => PartsInv /\ LinkInv
  BY PartsInit, LinkInit
<1>2. PartsInv /\ LinkInv /\ [Next]_vars => (PartsInv /\ LinkInv)'
  <2> SUFFICES ASSUME PartsInv, LinkInv, [Next]_vars PROVE LinkInv'
    BY PartsStep
  <2>1. ASSUME NEW msg \in Messages, Send(msg) PROVE LinkInv'
    BY <2>1, LinkSend
  <2> QED BY <2>1, LinkSendHeader, LinkSendBody, LinkReceiveHeader, LinkReceiveBody, LinkReceiveFails, LinkStutters
          DEF Next
<1> QED BY <1>1, <1>2, PTL DEF Spec

\* An accepted message is a message that was sent and what is found in it is expected.
LEMMA WhatArrives ==
  ASSUME PartsInv, LinkInv, \A msg \in Messages : Aligns(msg), NEW i \in Whole
  PROVE  accepted[i].m \in DOMAIN sent /\ accepted[i].found = Expected(accepted[i].m)
<1> DEFINE m == accepted[i].m
<1>1. /\ m \in 1..Len(sent) /\ accepted[i].found = FoundIn(sent[m].bytes)
      /\ TooMany \notin ToSet(accepted[i].found)
  BY DEF LinkInv, AcceptedFound, Bytes
<1> HIDE DEF m
<1>2. DOMAIN sent = 1..Len(sent) /\ sent[m] \in Sent
  BY <1>1 DEF PartsInv, LinkTypes
<1>3. Aligns(sent[m].msg)
  BY <1>2 DEF Sent
<1>4. FoundIn(sent[m].bytes) = ToFindBy(m, sent[m].msg, hinformer)
  BY <1>1, <1>3 DEF PartsInv, SentIsWhole, IsWhole
<1>5. Expected(m) = ToFindBy(m, sent[m].msg, hinformer)
  BY DEF Expected, ToFindBy
<1> QED BY <1>1, <1>2, <1>4, <1>5 DEF m

\* What recvChirp accepts is what was given to sendChirpRetry, whatever was resent, missed or
\* cut off, until a long message is broken off: for any messages whose numbers of 8 bytes are in
\* responses, any number of attempts and any size of transfers.
THEOREM WhatIsReceived ==
  ASSUME \A msg \in Messages : Aligns(msg)
  PROVE  Spec => []ReceivedIsSent
<1>1. PartsInv /\ LinkInv => ReceivedIsSent
  BY WhatArrives DEF ReceivedIsSent
<1> QED BY <1>1, LinkHolds, PTL

\* Messages are accepted in the order in which they were sent and each not more often than
\* sendChirpRetry began it, for any messages at all, until a long one is broken off.
THEOREM OrderIsKept == Spec => []InOrder
<1>1. ASSUME PartsInv, LinkInv PROVE InOrder
  <2> SUFFICES ASSUME NEW i \in Whole
               PROVE  /\ \A j \in Whole : j < i => accepted[j].m <= accepted[i].m
                      /\ Cardinality({j \in Whole : accepted[j].m = accepted[i].m}) <= attempts[accepted[i].m]
    BY DEF InOrder
  <2>1. \A j \in Whole : accepted[j].m \in Nat /\ accepted[j].try \in Nat /\ j \in Int
    <3>1. \A j \in Whole : j \in 1..Len(accepted) /\ accepted[j].m \in Nat /\ accepted[j].try \in Nat
      BY <1>1, Labels
    <3> QED BY <3>1
  <2>2. \A j, k \in Whole : j < k => Earlier(accepted[j], accepted[k])
    BY <1>1 DEF LinkInv, AcceptedOrder
  <2>3. \A j \in Whole : j < i => accepted[j].m <= accepted[i].m
    BY <2>1, <2>2 DEF Earlier
  <2>4. Cardinality({j \in Whole : accepted[j].m = accepted[i].m}) <= attempts[accepted[i].m]
    <3> DEFINE m == accepted[i].m
               S == {j \in Whole : accepted[j].m = m}
               t == attempts[m]
               f == [j \in S |-> accepted[j].try]
    <3>1. m \in 1..Len(sent) /\ t \in Nat
      <4>1. m \in 1..Len(sent)
        BY <1>1 DEF LinkInv, AcceptedFound
      <4> QED BY <1>1, <4>1, Labels
    <3>2. \A j \in S : accepted[j].try \in 1..t /\ accepted[j].m = m /\ j \in Whole
      BY <1>1 DEF LinkInv, AcceptedFound
    <3> HIDE DEF m, t, S
    <3>3. f \in [S -> 1..t] /\ \A j \in S : f[j] = accepted[j].try
      BY <3>2
    <3> HIDE DEF f
    <3>4. ASSUME NEW j \in S, NEW k \in S, f[j] = f[k] PROVE j = k
      <4>1. accepted[j].m = accepted[k].m /\ accepted[j].try = accepted[k].try
        BY <3>2, <3>3, <3>4
      <4>2. ~(j < k) /\ ~(k < j)
        BY <2>1, <2>2, <3>2, <4>1 DEF Earlier
      <4> QED BY <2>1, <3>2, <4>2
    <3>5. f \in Injection(S, 1..t)
      BY <3>3, <3>4 DEF Injection, IsInjective
    <3>6. IsFiniteSet(1..t) /\ Cardinality(1..t) = t
      BY <3>1, FS_Interval
    <3>7. Cardinality(S) <= t
      BY <3>5, <3>6, FS_Injection
    <3> QED BY <3>7 DEF S, m, t
  <2> QED BY <2>3, <2>4
<1> QED BY <1>1, LinkHolds, PTL

\* Once the link is quiet, every message that sendChirpRetry reported as sent has been accepted
\* with what was put into it, unless a receive gave up within a message, a list was too long or a
\* long message was broken off; for the messages of WhatIsReceived.
THEOREM WhatIsReported ==
  ASSUME \A msg \in Messages : Aligns(msg)
  PROVE  Spec => []SentIsReceived
<1>1. ASSUME PartsInv, LinkInv PROVE SentIsReceived
  <2> SUFFICES ASSUME Quiet, fault = "none", NEW m \in reported, m >= calm
               PROVE  \E i \in DOMAIN accepted : accepted[i].m = m /\ accepted[i].found = Expected(m)
    BY DEF SentIsReceived
  <2>1. (\E i \in Whole : accepted[i].m = m) \/ UnderWay(m)
    BY <1>1 DEF LinkInv, Arrives
  <2>2. ~UnderWay(m)
    <3>1. 1..Len(link) = {}
      BY DEF Quiet
    <3> QED BY <3>1 DEF UnderWay
  <2>3. PICK i \in Whole : accepted[i].m = m
    BY <2>1, <2>2
  <2>4. accepted[i].found = Expected(m) /\ i \in DOMAIN accepted
    BY <1>1, <2>3, WhatArrives DEF Whole
  <2> QED BY <2>3, <2>4
<1> QED BY <1>1, LinkHolds, PTL
=============================================================================
