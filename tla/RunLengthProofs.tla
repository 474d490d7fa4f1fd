--------------------------- MODULE RunLengthProofs ---------------------------
(***************************************************************************)
(* What is proved of the segments of a frame: runlengthAnalysis gives each *)
(* assembler the segments BlobAssemblerProofs asks for, row by row and     *)
(* from left to right, so that what is proved of Add holds of every blob   *)
(* of every frame.                                                         *)
(***************************************************************************)
EXTENDS RunLength, BlobAssemblerProofs

Handing == INSTANCE Recursion WITH Step <- HandleSegment

-----------------------------------------------------------------------------
(* The invariant.                                                          *)

Variables ==
  /\ phase \in {"frame", "done"} /\ row \in -1..MaxRows - 1 /\ res \in {0, -1}
  /\ prevSig \in Sigs \cup {NoSig} /\ prevStartCol \in Columns \cup {NoCol}
  /\ segment \in [sig : Sigs \cup {NoSig}, startCol : Columns \cup {0}, endCol : Columns \cup {0}]
  /\ m_assembler \in [Sigs -> Assemblers]
  /\ lastCol \in Columns \cup {NoCol} /\ filtered \in 0..MaxFiltered

\* The last pixel that counted is the last one sent, or was before refused ones; the
\* segment under construction ends with it.
ColumnsInOrder ==
  /\ row = -1 => lastCol = NoCol
  /\ lastCol = NoCol => prevSig = NoSig
  /\ prevSig = NoSig <=> prevStartCol = NoCol
  /\ prevSig # NoSig => prevStartCol <= lastCol
  /\ segment.sig # NoSig =>
       /\ prevSig = segment.sig /\ segment.startCol \in Columns /\ segment.startCol < segment.endCol
       /\ segment.endCol = prevStartCol /\ prevStartCol = lastCol

\* Pixels wait only in a segment under construction.
OwedInSegment ==
  /\ segment.sig = NoSig => owed = {}
  /\ \A p \in owed : p.sig = segment.sig /\ p.row = row /\ p.col \in segment.startCol..segment.endCol

\* The next segment of a signature begins, and ends, at these columns or right of them.
From(g) == IF segment.sig = g THEN segment.startCol - 1
           ELSE IF prevSig = g THEN prevStartCol - 1 ELSE lastCol
To(g) == IF segment.sig = g THEN segment.endCol ELSE lastCol + 1

\* The assembler of g is ready for the next segment of the row, or for the next row.
Fed(g) == LET a == m_assembler[g] IN
  /\ Ready(a, NoCol, NoCol + 1)
  /\ -1 <= a.currentRow /\ a.currentRow <= row
  /\ lastCol = NoCol => a.currentRow < row \/ row = -1
  /\ a.currentRow = row => Ready(a, From(g), To(g))

\* The assembler of g has ended the frame.
Over(g) == LET a == m_assembler[g] IN
  /\ a.active = <<>> /\ Ended(a.finished) /\ Descending(a.finished)
  /\ -1 <= a.currentRow /\ a.currentRow <= row

IInv ==
  /\ Variables /\ ColumnsInOrder /\ OwedInSegment
  /\ phase = "frame" => \A g \in Sigs : Fed(g)
  /\ phase = "done" => \A g \in Sigs : Over(g)

-----------------------------------------------------------------------------
(* Handing on segments.                                                    *)

LEMMA Constants ==
  /\ \A g \in Sigs : g \in 1..7 /\ g # NoSig
  /\ \A c \in Columns : c \in 1..MaxCol /\ c # NoCol /\ c # 0 /\ c \in Nat
  /\ NoSig \notin Sigs /\ NoCol \notin Columns
  /\ \A c \in Coloured : c[1] \in Sigs /\ c[2] \in Columns
<1>1. Coloured \subseteq (1..7) \X (1..MaxCol)
  BY SegmentsAssumption
<1>2. \A c \in Coloured : c[1] \in 1..7 /\ c[2] \in 1..MaxCol
  BY <1>1
<1>3. \A g \in Sigs : g \in 1..7
  BY <1>2 DEF Sigs
<1>4. \A c \in Columns : c \in 1..MaxCol
  BY <1>2 DEF Columns
<1>5. \A c \in Coloured : c[1] \in Sigs /\ c[2] \in Columns
  BY DEF Sigs, Columns
<1> QED BY <1>3, <1>4, <1>5 DEF NoSig, NoCol, MaxCol

\* The segment s of signature s.sig in the given row.
Given(given, s) == [row |-> given.row, startCol |-> s.startCol, endCol |-> s.endCol]

\* The pixels that wait for other segments.
StillOwed(owe, given, s) ==
  {p \in owe : ~(p.sig = s.sig /\ p.row = given.row /\ p.col \in s.startCol..s.endCol)}

\* The assembler may be given the segment.
Accepts(a, s) ==
  /\ Working(a, {}) /\ a.currentRow <= s.row
  /\ a.currentRow = s.row => Ready(a, s.startCol, s.endCol)

\* What handing on s to its assembler leaves.
Handles(n, given, st, s) ==
  /\ n.asm \in [Sigs -> Assemblers] /\ n.res \in {0, -1} /\ n.owed = StillOwed(st.owed, given, s)
  /\ Ready(n.asm[s.sig], s.startCol, s.endCol) /\ n.asm[s.sig].currentRow = given.row
  /\ \A g \in Sigs : g # s.sig => n.asm[g] = st.asm[g]

LEMMA HandleSegmentKeeps ==
  ASSUME NEW given, NEW st, NEW k, st.asm \in [Sigs -> Assemblers], given.segs[k].sig \in Sigs,
         Given(given, given.segs[k]) \in Segments,
         Accepts(st.asm[given.segs[k].sig], Given(given, given.segs[k]))
  PROVE  Handles(HandleSegment(given, st, k), given, st, given.segs[k])
<1> DEFINE s == given.segs[k]
           d == Given(given, s)
           added == Add(st.asm[s.sig], d, given.heapFull[k])
           n == HandleSegment(given, st, k)
<1>1. n = [asm |-> [st.asm EXCEPT ![s.sig] = added.asm], res |-> added.res,
           owed |-> StillOwed(st.owed, given, s)]
  BY DEF HandleSegment, Given, StillOwed
<1>2. d.row = given.row /\ d.startCol = s.startCol /\ d.endCol = s.endCol
  BY DEF Given
<1>3. d \in Segments /\ s.sig \in Sigs /\ Accepts(st.asm[s.sig], d)
  OBVIOUS
<1> HIDE DEF n, d, s
<1>4. /\ Ready(added.asm, d.startCol, d.endCol) /\ added.asm.currentRow = d.row
      /\ added.res = 0 \/ added.res = -1
  <2> HIDE DEF added
  <2>1. /\ Working(st.asm[s.sig], {}) /\ st.asm[s.sig].currentRow <= d.row
        /\ st.asm[s.sig].currentRow = d.row => Ready(st.asm[s.sig], d.startCol, d.endCol)
    BY <1>3 DEF Accepts
  <2> QED BY <1>3, <2>1, AddKeeps, Zenon DEF added
<1> HIDE DEF added
<1>5. added.asm \in Assemblers
  BY <1>4 DEF Ready, Working
<1>6. n.asm \in [Sigs -> Assemblers]
  BY <1>1, <1>3, <1>5
<1>7. n.asm[s.sig] = added.asm /\ \A g \in Sigs : g # s.sig => n.asm[g] = st.asm[g]
  BY <1>1, <1>3
<1>8. n.res \in {0, -1} /\ n.owed = StillOwed(st.owed, given, s)
  BY <1>1, <1>4
<1>9. Ready(n.asm[s.sig], s.startCol, s.endCol) /\ n.asm[s.sig].currentRow = given.row
  BY <1>2, <1>4, <1>7
<1>10. Handles(n, given, st, s)
  BY <1>6, <1>7, <1>8, <1>9 DEF Handles
<1> QED BY <1>10 DEF n, s

\* What handing on no segment, one and two does.
Handed(given, st) == Loop(HandleSegment, given, st, 0, Len(given.segs))

LEMMA HandedSteps ==
  ASSUME NEW given, NEW st
  PROVE  /\ Len(given.segs) = 0 => Handed(given, st) = st
         /\ Len(given.segs) = 1 => Handed(given, st) = HandleSegment(given, st, 1)
         /\ Len(given.segs) = 2 => Handed(given, st) = HandleSegment(given, HandleSegment(given, st, 1), 2)
<1> DEFINE len == Len(given.segs)
<1>1. SUFFICES ASSUME len \in {0, 1, 2}
               PROVE  /\ len = 0 => Handed(given, st) = st
                      /\ len = 1 => Handed(given, st) = HandleSegment(given, st, 1)
                      /\ len = 2 => Handed(given, st) = HandleSegment(given, HandleSegment(given, st, 1), 2)
  OBVIOUS
<1>2. Handed(given, st) = Handing!Iterate(given, st, 0, len)
  BY Zenon DEF Handed, Loop, Handing!Iterate
<1> HIDE DEF len
<1>3. PICK f : /\ Handing!IsIteration(f, given, st, 0, len)
               /\ Handing!Iterate(given, st, 0, len) = f[len]
  <2>1. 0 \in Int /\ len \in Int
    BY <1>1
  <2> QED BY <2>1, Handing!LoopValues
<1>4. f = [k \in 0..len |-> IF k = 0 THEN st ELSE HandleSegment(given, f[k - 1], k)]
  BY <1>3, Zenon DEF Handing!IsIteration
<1>5. f[0] = st
  <2>1. 0 \in 0..len
    BY <1>1
  <2> QED BY <1>4, <2>1
<1>6. len # 0 => f[1] = HandleSegment(given, st, 1)
  <2>1. len # 0 => 1 \in 0..len /\ 1 # 0 /\ 1 - 1 = 0
    BY <1>1
  <2> QED BY <1>4, <1>5, <2>1
<1>7. len = 2 => f[2] = HandleSegment(given, f[1], 2)
  <2>1. len = 2 => 2 \in 0..len /\ 2 # 0 /\ 2 - 1 = 1
    BY <1>1
  <2> QED BY <1>4, <2>1
<1> QED BY <1>2, <1>3, <1>5, <1>6, <1>7

\* Once the segment under construction is handed on, to which row or signature a
\* pixel belongs no longer matters.
AfterPending(asm) ==
  /\ asm \in [Sigs -> Assemblers]
  /\ \A g \in Sigs : g = segment.sig => /\ Ready(asm[g], segment.startCol - 1, segment.endCol)
                                        /\ asm[g].currentRow = row
  /\ \A g \in Sigs : g # segment.sig => asm[g] = m_assembler[g]

Begun == [asm |-> m_assembler, res |-> res, owed |-> owed]

LEMMA SegmentColumns ==
  ASSUME IInv, segment.sig # NoSig
  PROVE  /\ segment.sig \in Sigs /\ row \in 0..MaxRows - 1 /\ row < NoRow
         /\ prevSig = segment.sig /\ prevStartCol = segment.endCol /\ lastCol = segment.endCol
         /\ segment.startCol \in Columns /\ segment.endCol \in Columns
         /\ segment.startCol < segment.endCol
<1>1. Variables /\ ColumnsInOrder
  BY DEF IInv
<1>2. /\ prevSig = segment.sig /\ segment.startCol \in Columns /\ segment.startCol < segment.endCol
      /\ segment.endCol = prevStartCol /\ prevStartCol = lastCol
  BY <1>1 DEF ColumnsInOrder
<1>3. segment.sig \in Sigs
  BY <1>1 DEF Variables
<1>4. prevStartCol # NoCol /\ prevStartCol \in Columns
  BY <1>1, <1>2 DEF Variables, ColumnsInOrder
<1>5. row # -1
  BY <1>1, <1>2, <1>4 DEF ColumnsInOrder
<1>6. row \in 0..MaxRows - 1 /\ row < NoRow
  BY <1>1, <1>5, SegmentsAssumption DEF Variables, NoRow
<1> QED BY <1>2, <1>3, <1>4, <1>6

\* A segment is handed on from the column before its first pixel.
LEMMA FromColumnBefore ==
  ASSUME NEW r \in Nat, r < NoRow, NEW lo \in 1..1022, NEW hi \in 1..1022, lo < hi
  PROVE  [row |-> r, startCol |-> lo - 1, endCol |-> hi] \in Segments
BY DEF Segments, Bottom

LEMMA PendingKeeps ==
  ASSUME IInv, phase = "frame", segment.sig # NoSig, NEW given, given.row = row,
         given.segs[1] = [segment EXCEPT !.startCol = @ - 1]
  PROVE  LET n == HandleSegment(given, Begun, 1) IN
         AfterPending(n.asm) /\ n.res \in {0, -1} /\ n.owed = {}
<1> DEFINE s == given.segs[1]
           g == segment.sig
           d == Given(given, s)
           n == HandleSegment(given, Begun, 1)
<1>1. /\ g \in Sigs /\ row \in 0..MaxRows - 1 /\ row < NoRow
      /\ prevSig = g /\ prevStartCol = segment.endCol /\ lastCol = segment.endCol
      /\ segment.startCol \in Columns /\ segment.endCol \in Columns
      /\ segment.startCol < segment.endCol
  BY SegmentColumns
<1>2. m_assembler \in [Sigs -> Assemblers] /\ DOMAIN segment = {"sig", "startCol", "endCol"}
  BY DEF IInv, Variables
<1>3. s.sig = g /\ s.startCol = segment.startCol - 1 /\ s.endCol = segment.endCol
  BY <1>2
<1>4. d = [row |-> row, startCol |-> segment.startCol - 1, endCol |-> segment.endCol]
  BY <1>3 DEF Given
<1>5. segment.startCol \in 1..1022 /\ segment.endCol \in 1..1022
  BY <1>1, Constants DEF MaxCol
<1>6. row \in Nat
  BY <1>1
<1>7. d \in Segments
  <2> DEFINE lo == segment.startCol  hi == segment.endCol
  <2>1. lo \in 1..1022 /\ hi \in 1..1022 /\ lo < hi
    BY <1>1, <1>5
  <2>2. d = [row |-> row, startCol |-> lo - 1, endCol |-> hi]
    BY <1>4
  <2> HIDE DEF lo, hi, d
  <2>3. row < NoRow
    BY <1>1
  <2>4. [row |-> row, startCol |-> lo - 1, endCol |-> hi] \in Segments
    BY <1>6, <2>1, <2>3, FromColumnBefore, ZenonT(60)
  <2> QED BY <2>2, <2>4
<1>8. Accepts(m_assembler[g], d)
  <2>1. Fed(g)
    BY <1>1 DEF IInv
  <2>2. /\ Working(m_assembler[g], {}) /\ m_assembler[g].currentRow <= row
        /\ m_assembler[g].currentRow = row => Ready(m_assembler[g], From(g), To(g))
    BY <2>1 DEF Fed, Ready
  <2>3. From(g) = segment.startCol - 1 /\ To(g) = segment.endCol
    BY DEF From, To
  <2> QED BY <1>4, <2>2, <2>3 DEF Accepts
<1>9. Begun.asm = m_assembler /\ Begun.owed = owed
  BY DEF Begun
<1> HIDE DEF d, g, s
<1>10. /\ n.asm \in [Sigs -> Assemblers] /\ n.res \in {0, -1} /\ n.owed = StillOwed(owed, given, s)
       /\ Ready(n.asm[g], s.startCol, s.endCol) /\ n.asm[g].currentRow = row
       /\ \A h \in Sigs : h # g => n.asm[h] = m_assembler[h]
  <2>1. Begun.asm \in [Sigs -> Assemblers] /\ s.sig \in Sigs /\ d \in Segments /\ Accepts(Begun.asm[s.sig], d)
    BY <1>1, <1>2, <1>3, <1>7, <1>8, <1>9
  <2>2. Handles(n, given, Begun, s)
    BY <2>1, HandleSegmentKeeps DEF d, s, n
  <2> HIDE DEF n
  <2> QED BY <1>3, <1>9, <2>2 DEF Handles
<1> HIDE DEF n
<1>11. AfterPending(n.asm)
  BY <1>3, <1>10 DEF AfterPending, g
<1>12. StillOwed(owed, given, s) = {}
  <2>1. ASSUME NEW p \in owed
        PROVE  p.sig = s.sig /\ p.row = given.row /\ p.col \in s.startCol..s.endCol
    <3>1. p.sig = g /\ p.row = row /\ p.col \in segment.startCol..segment.endCol
      BY DEF IInv, OwedInSegment, g
    <3>2. p.col \in segment.startCol - 1..segment.endCol
      <4> DEFINE lo == segment.startCol  hi == segment.endCol
      <4>1. lo \in Int /\ hi \in Int /\ p.col \in lo..hi
        BY <1>5, <3>1
      <4> HIDE DEF lo, hi
      <4>2. p.col \in lo - 1..hi
        BY <4>1
      <4> QED BY <4>2 DEF lo, hi
    <3> QED BY <1>3, <3>1, <3>2
  <2> QED BY <2>1 DEF StillOwed
<1> QED BY <1>10, <1>11, <1>12 DEF n

\* What handing on a pixel leaves.
TakesPixel(n, st, sig, col) ==
  /\ n.asm \in [Sigs -> Assemblers] /\ n.res \in {0, -1} /\ n.owed = {}
  /\ Ready(n.asm[sig], col - 1, col + 1) /\ n.asm[sig].currentRow = row
  /\ \A h \in Sigs : h # sig => n.asm[h] = st.asm[h]

LEMMA SingleKeeps ==
  ASSUME IInv, phase = "frame", row >= 0, NEW c \in Coloured, NextColumn(c[2]),
         NEW given, given.row = row, NEW k, given.segs[k] = Single(c[1], c[2]),
         NEW st, AfterPending(st.asm), st.owed = {}
  PROVE  TakesPixel(HandleSegment(given, st, k), st, c[1], c[2])
<1> DEFINE g == c[1]
           col == c[2]
           s == given.segs[k]
           d == Given(given, s)
           n == HandleSegment(given, st, k)
<1>1. /\ s.sig = g /\ s.startCol = col - 1 /\ s.endCol = col + 1
      /\ d = [row |-> row, startCol |-> col - 1, endCol |-> col + 1]
  BY DEF Single, Given
<1>2. g \in Sigs /\ col \in Columns /\ col \in 1..1022 /\ g # NoSig
  BY Constants DEF MaxCol
<1>3. Variables /\ ColumnsInOrder /\ row \in Nat /\ row < NoRow
  BY SegmentsAssumption DEF IInv, Variables, NoRow
<1> HIDE DEF g, col, s, d, n
<1>4. d \in Segments
  BY <1>1, <1>2, <1>3 DEF Segments, Bottom
<1>5. lastCol = NoCol \/ (lastCol \in 1..1022 /\ lastCol < col)
  BY <1>3, Constants DEF NextColumn, Variables, MaxCol, col
<1>6. Accepts(st.asm[g], d)
  <2>1. CASE g = segment.sig
    <3>1. Ready(st.asm[g], segment.startCol - 1, segment.endCol) /\ st.asm[g].currentRow = row
      BY <1>2, <2>1 DEF AfterPending
    <3>2. /\ lastCol = segment.endCol /\ segment.startCol \in 1..1022 /\ segment.endCol \in 1..1022
          /\ segment.startCol < segment.endCol
      <4>1. segment.sig # NoSig
        BY <1>2, <2>1
      <4>2. /\ lastCol = segment.endCol /\ segment.startCol \in Columns /\ segment.endCol \in Columns
            /\ segment.startCol < segment.endCol
        BY <4>1, SegmentColumns, Zenon
      <4>3. \A x \in Columns : x \in 1..1022
        BY Constants DEF MaxCol
      <4>4. segment.startCol \in 1..1022 /\ segment.endCol \in 1..1022
        BY <4>2, <4>3
      <4> QED BY <4>2, <4>4
    <3>3. /\ segment.startCol - 1 \in Int /\ segment.endCol \in Int /\ col - 1 \in Int /\ col + 1 \in Int
          /\ segment.startCol - 1 <= col - 1 /\ segment.endCol <= col + 1
      <4> DEFINE lo == segment.startCol  hi == segment.endCol
      <4>1. lastCol = hi /\ lo \in 1..1022 /\ hi \in 1..1022 /\ lo < hi
        BY <3>2
      <4> HIDE DEF lo, hi
      <4>2. /\ lo - 1 \in Int /\ hi \in Int /\ col - 1 \in Int /\ col + 1 \in Int
            /\ lo - 1 <= col - 1 /\ hi <= col + 1
        BY <1>2, <1>5, <4>1 DEF NoCol
      <4> QED BY <4>2 DEF lo, hi
    <3>4. Ready(st.asm[g], col - 1, col + 1)
      BY <3>1, <3>3, ReadyLater
    <3> QED BY <1>1, <1>3, <3>1, <3>4 DEF Accepts, Ready
  <2>2. CASE g # segment.sig
    <3>1. st.asm[g] = m_assembler[g] /\ Fed(g)
      BY <1>2, <2>2 DEF AfterPending, IInv
    <3>2. /\ Working(m_assembler[g], {}) /\ m_assembler[g].currentRow <= row
          /\ lastCol = NoCol => m_assembler[g].currentRow < row \/ row = -1
          /\ m_assembler[g].currentRow = row => Ready(m_assembler[g], From(g), To(g))
      BY <3>1 DEF Fed, Ready
    <3>3. ASSUME m_assembler[g].currentRow = row PROVE Ready(m_assembler[g], col - 1, col + 1)
      <4>1. lastCol # NoCol
        BY <1>3, <3>2, <3>3
      <4>2. lastCol \in 1..1022 /\ lastCol < col
        BY <1>5, <4>1
      <4>3. To(g) = lastCol + 1 /\ From(g) = IF prevSig = g THEN prevStartCol - 1 ELSE lastCol
        BY <2>2 DEF From, To
      <4>4. prevSig = g => prevStartCol \in 1..1022 /\ prevStartCol <= lastCol
        BY <1>2, <1>3, Constants DEF ColumnsInOrder, Variables, MaxCol
      <4>5. From(g) \in Int /\ To(g) \in Int /\ From(g) <= col - 1 /\ To(g) <= col + 1
        <5>1. CASE prevSig = g
          <6>1. From(g) = prevStartCol - 1
            BY <4>3, <5>1
          <6>2. prevStartCol \in 1..1022 /\ prevStartCol <= lastCol
            BY <4>4, <5>1
          <6> QED BY <1>2, <4>2, <4>3, <6>1, <6>2
        <5>2. CASE prevSig # g
          <6>1. From(g) = lastCol
            BY <4>3, <5>2
          <6> QED BY <1>2, <4>2, <4>3, <6>1
        <5> QED BY <5>1, <5>2
      <4>6. col - 1 \in Int /\ col + 1 \in Int
        BY <1>2
      <4> QED BY <3>2, <3>3, <4>5, <4>6, ReadyLater
    <3> QED BY <1>1, <3>1, <3>2, <3>3 DEF Accepts
  <2> QED BY <2>1, <2>2
<1>7. /\ n.asm \in [Sigs -> Assemblers] /\ n.res \in {0, -1} /\ n.owed = StillOwed(st.owed, given, s)
      /\ Ready(n.asm[s.sig], s.startCol, s.endCol) /\ n.asm[s.sig].currentRow = given.row
      /\ \A h \in Sigs : h # s.sig => n.asm[h] = st.asm[h]
  <2>1. st.asm \in [Sigs -> Assemblers] /\ s.sig \in Sigs /\ d \in Segments /\ Accepts(st.asm[s.sig], d)
    BY <1>1, <1>2, <1>4, <1>6 DEF AfterPending
  <2>2. Handles(n, given, st, s)
    BY <2>1, HandleSegmentKeeps DEF d, s, n
  <2> QED BY <2>2 DEF Handles
<1>8. StillOwed(st.owed, given, s) = {}
  BY DEF StillOwed
<1>9. TakesPixel(n, st, g, col)
  BY <1>1, <1>7, <1>8 DEF TakesPixel
<1> QED BY <1>9 DEF n, g, col

\* Handing on the segment under construction, if there is one.
LEMMA PendingHanded ==
  ASSUME IInv, phase = "frame", HandOn(Pending)
  PROVE  AfterPending(m_assembler') /\ res' \in {0, -1} /\ owed' = {}
<1>1. PICK heapFull \in [1..Len(Pending) -> {FALSE, HeapFails}] :
        LET st == HandleSegments(Pending, heapFull)
        IN m_assembler' = st.asm /\ res' = st.res /\ owed' = st.owed
  BY Zenon DEF HandOn
<1> DEFINE given == [segs |-> Pending, row |-> row, heapFull |-> heapFull]
           st == Handed(given, Begun)
<1>2. m_assembler' = st.asm /\ res' = st.res /\ owed' = st.owed
  <2>1. HandleSegments(Pending, heapFull) = st
    BY Zenon DEF HandleSegments, Handed, Begun
  <2> QED BY <1>1, <2>1, Zenon
<1>3. given.segs = Pending /\ given.row = row
  OBVIOUS
<1> HIDE DEF st, given
<1>4. CASE segment.sig = NoSig
  <2>1. Pending = <<>> /\ Len(Pending) = 0
    BY <1>4 DEF Pending
  <2>2. st = Begun
    BY <1>3, <2>1, HandedSteps DEF st
  <2>3. st.asm = m_assembler /\ st.res = res /\ st.owed = owed
    BY <2>2 DEF Begun
  <2>4. m_assembler \in [Sigs -> Assemblers] /\ res \in {0, -1} /\ owed = {}
    BY <1>4 DEF IInv, Variables, OwedInSegment
  <2>5. AfterPending(m_assembler)
    BY <1>4, <2>4, Constants DEF AfterPending
  <2>6. m_assembler' = m_assembler /\ res' = res /\ owed' = owed
    BY <1>2, <2>3
  <2> QED BY <2>4, <2>5, <2>6
<1>5. CASE segment.sig # NoSig
  <2> DEFINE s == [segment EXCEPT !.startCol = @ - 1]
             n == HandleSegment(given, Begun, 1)
  <2>1. Pending = <<s>> /\ Len(Pending) = 1 /\ Pending[1] = s
    BY <1>5 DEF Pending
  <2>2. st = n
    BY <1>3, <2>1, HandedSteps DEF st
  <2>3. given.segs[1] = s
    BY <1>3, <2>1
  <2>4. AfterPending(n.asm) /\ n.res \in {0, -1} /\ n.owed = {}
    BY <1>3, <1>5, <2>3, PendingKeeps
  <2> HIDE DEF n, s
  <2> QED BY <1>2, <2>2, <2>4
<1> QED BY <1>4, <1>5

LEMMA PairAppended ==
  ASSUME NEW x, NEW y
  PROVE  LET s == Append(<<x>>, y) IN Len(s) = 2 /\ s[1] = x /\ s[2] = y
<1> DEFINE S == {x, y}
           one == <<x>>
<1>1. one \in Seq(S) /\ Len(one) = 1 /\ one[1] = x /\ y \in S
  OBVIOUS
<1> HIDE DEF S, one
<1>2. /\ Len(Append(one, y)) = Len(one) + 1
      /\ \A i \in 1..Len(one) + 1 : Append(one, y)[i] = IF i = Len(one) + 1 THEN y ELSE one[i]
  BY <1>1, OneMore, ZenonT(60)
<1>3. Len(one) + 1 = 2 /\ 1 \in 1..2 /\ 2 \in 1..2 /\ 1 # 2
  BY <1>1
<1>4. Len(Append(one, y)) = 2 /\ Append(one, y)[1] = one[1] /\ Append(one, y)[2] = y
  <2> DEFINE s == Append(one, y)
  <2> HIDE DEF s
  <2>1. Len(s) = 2 /\ \A i \in 1..2 : s[i] = IF i = 2 THEN y ELSE one[i]
    BY <1>2, <1>3 DEF s
  <2>2. Len(s) = 2 /\ s[1] = one[1] /\ s[2] = y
    BY <1>3, <2>1
  <2> QED BY <2>2 DEF s
<1> QED BY <1>1, <1>2, <1>3, <1>4 DEF one

\* Handing on that segment and then a pixel.
LEMMA SingleHanded ==
  ASSUME IInv, phase = "frame", row >= 0, NEW c \in Coloured, NextColumn(c[2]),
         HandOn(Append(Pending, Single(c[1], c[2])))
  PROVE  /\ m_assembler' \in [Sigs -> Assemblers] /\ res' \in {0, -1} /\ owed' = {}
         /\ Ready(m_assembler'[c[1]], c[2] - 1, c[2] + 1) /\ m_assembler'[c[1]].currentRow = row
         /\ \A g \in Sigs : g # c[1] /\ g = segment.sig =>
              Ready(m_assembler'[g], segment.startCol - 1, segment.endCol) /\ m_assembler'[g].currentRow = row
         /\ \A g \in Sigs : g # c[1] /\ g # segment.sig => m_assembler'[g] = m_assembler[g]
<1> DEFINE one == Single(c[1], c[2])
           segs == Append(Pending, one)
<1>1. PICK heapFull \in [1..Len(segs) -> {FALSE, HeapFails}] :
        LET st == HandleSegments(segs, heapFull)
        IN m_assembler' = st.asm /\ res' = st.res /\ owed' = st.owed
  BY Zenon DEF HandOn
<1> DEFINE given == [segs |-> segs, row |-> row, heapFull |-> heapFull]
           st == Handed(given, Begun)
           \* What is left by the segments before the pixel.
           After(b) == AfterPending(b.asm) /\ b.owed = {}
<1>2. m_assembler' = st.asm /\ res' = st.res /\ owed' = st.owed
  <2>1. HandleSegments(segs, heapFull) = st
    BY Zenon DEF HandleSegments, Handed, Begun
  <2> QED BY <1>1, <2>1, Zenon
<1>3. given.segs = segs /\ given.row = row
  OBVIOUS
<1> HIDE DEF st, given, one
<1>4. \E b, k : After(b) /\ given.segs[k] = one /\ st = HandleSegment(given, b, k)
  <2>1. CASE segment.sig = NoSig
    <3>1. segs = <<one>> /\ Len(segs) = 1 /\ segs[1] = one
      BY <2>1 DEF Pending
    <3> HIDE DEF segs
    <3>2. st = HandleSegment(given, Begun, 1)
      BY <1>3, <3>1, HandedSteps DEF st
    <3>3. m_assembler \in [Sigs -> Assemblers] /\ owed = {}
      BY <2>1 DEF IInv, Variables, OwedInSegment
    <3>4. Begun.asm = m_assembler /\ Begun.owed = owed
      BY DEF Begun
    <3>5. AfterPending(m_assembler)
      BY <2>1, <3>3, Constants DEF AfterPending
    <3>6. After(Begun)
      BY <3>3, <3>4, <3>5
    <3>7. given.segs[1] = one
      BY <1>3, <3>1
    <3> HIDE DEF After
    <3> QED BY <3>2, <3>6, <3>7, Zenon
  <2>2. CASE segment.sig # NoSig
    <3> DEFINE s == [segment EXCEPT !.startCol = @ - 1]
               b == HandleSegment(given, Begun, 1)
    <3>1. Pending = <<s>>
      BY <2>2 DEF Pending
    <3> HIDE DEF s, b
    <3>2. Len(segs) = 2 /\ segs[1] = s /\ segs[2] = one
      <4>1. segs = Append(<<s>>, one)
        BY <3>1
      <4> HIDE DEF segs
      <4> QED BY <4>1, PairAppended
    <3> HIDE DEF segs
    <3>3. st = HandleSegment(given, b, 2)
      BY <1>3, <3>2, HandedSteps DEF st, b
    <3>4. given.segs[1] = s /\ given.segs[2] = one
      BY <1>3, <3>2
    <3>5. AfterPending(b.asm) /\ b.res \in {0, -1} /\ b.owed = {}
      BY <1>3, <2>2, <3>4, PendingKeeps DEF s, b
    <3>6. After(b)
      BY <3>5
    <3> HIDE DEF After
    <3> QED BY <3>3, <3>4, <3>6, Zenon
  <2> QED BY <2>1, <2>2
<1>5. PICK b, k : After(b) /\ given.segs[k] = one /\ st = HandleSegment(given, b, k)
  <2> HIDE DEF After
  <2> QED BY <1>4, Zenon
<1>6. /\ st.asm \in [Sigs -> Assemblers] /\ st.res \in {0, -1} /\ st.owed = {}
      /\ Ready(st.asm[c[1]], c[2] - 1, c[2] + 1) /\ st.asm[c[1]].currentRow = row
      /\ \A h \in Sigs : h # c[1] => st.asm[h] = b.asm[h]
  <2>1. given.segs[k] = Single(c[1], c[2]) /\ AfterPending(b.asm) /\ b.owed = {}
    BY <1>5 DEF one
  <2> DEFINE n == HandleSegment(given, b, k)
  <2>2. TakesPixel(n, b, c[1], c[2])
    BY <1>3, <2>1, SingleKeeps
  <2> HIDE DEF n
  <2>3. st = n
    BY <1>5 DEF n
  <2> QED BY <2>2, <2>3 DEF TakesPixel
<1>7. /\ \A g \in Sigs : g = segment.sig => /\ Ready(b.asm[g], segment.startCol - 1, segment.endCol)
                                            /\ b.asm[g].currentRow = row
      /\ \A g \in Sigs : g # segment.sig => b.asm[g] = m_assembler[g]
  BY <1>5 DEF AfterPending
<1>8. ASSUME NEW g \in Sigs, g # c[1]
      PROVE  /\ g = segment.sig => /\ Ready(st.asm[g], segment.startCol - 1, segment.endCol)
                                   /\ st.asm[g].currentRow = row
             /\ g # segment.sig => st.asm[g] = m_assembler[g]
  BY <1>6, <1>7, <1>8
<1> QED BY <1>2, <1>6, <1>8

-----------------------------------------------------------------------------
(* Every step keeps the invariant.                                         *)

LEMMA InitHolds ==
  ASSUME Init
  PROVE  IInv
<1>1. /\ phase = "frame" /\ row = -1 /\ res = 0 /\ prevSig = NoSig /\ prevStartCol = NoCol
      /\ segment = NoSegment /\ m_assembler = [g \in Sigs |-> EmptyAssembler]
      /\ lastCol = NoCol /\ filtered = 0 /\ owed = {}
  BY DEF Init
<1>2. /\ \A lo, hi : Ready(EmptyAssembler, lo, hi)
      /\ EmptyAssembler.currentRow = -1 /\ EmptyAssembler \in Assemblers
  BY EmptyIsReady DEF Ready, Working
<1>3. segment.sig = NoSig /\ segment \in [sig : Sigs \cup {NoSig}, startCol : Columns \cup {0}, endCol : Columns \cup {0}]
  BY <1>1 DEF NoSegment
<1>4. MaxRows \in Nat /\ MaxFiltered \in Nat
  BY SegmentsAssumption
<1>5. Variables
  BY <1>1, <1>2, <1>3, <1>4 DEF Variables
<1>6. ColumnsInOrder /\ OwedInSegment
  BY <1>1, <1>3 DEF ColumnsInOrder, OwedInSegment
<1>7. ASSUME NEW g \in Sigs PROVE Fed(g)
  <2>1. m_assembler[g] = EmptyAssembler
    BY <1>1
  <2> QED BY <1>1, <1>2, <2>1 DEF Fed
<1> QED BY <1>1, <1>5, <1>6, <1>7 DEF IInv

\* However little of a row is left, the assembler is ready for the next.
LEMMA ReadyForRow ==
  ASSUME IInv, phase = "frame", AfterPending(m_assembler'), NEW g \in Sigs
  PROVE  /\ Ready(m_assembler'[g], NoCol, NoCol + 1)
         /\ m_assembler'[g].currentRow \in Int /\ -1 <= m_assembler'[g].currentRow
         /\ m_assembler'[g].currentRow <= row
<1>1. Fed(g) /\ row \in Int
  BY DEF IInv, Variables
<1>2. CASE g = segment.sig
  <2>1. Ready(m_assembler'[g], segment.startCol - 1, segment.endCol) /\ m_assembler'[g].currentRow = row
    BY <1>2 DEF AfterPending
  <2>2. /\ segment.startCol \in 1..1022 /\ segment.endCol \in 1..1022 /\ row \in 0..MaxRows - 1
    BY <1>2, SegmentColumns, Constants DEF MaxCol
  <2>3. /\ segment.startCol - 1 \in Int /\ segment.endCol \in Int /\ NoCol \in Int /\ NoCol + 1 \in Int
        /\ segment.startCol - 1 <= NoCol /\ segment.endCol <= NoCol + 1
    <3> DEFINE lo == segment.startCol  hi == segment.endCol
    <3> HIDE DEF lo, hi
    <3>1. lo \in 1..1022 /\ hi \in 1..1022
      BY <2>2 DEF lo, hi
    <3>2. /\ lo - 1 \in Int /\ hi \in Int /\ NoCol \in Int /\ NoCol + 1 \in Int
          /\ lo - 1 <= NoCol /\ hi <= NoCol + 1
      BY <3>1 DEF NoCol
    <3> QED BY <3>2 DEF lo, hi
  <2>4. Ready(m_assembler'[g], NoCol, NoCol + 1)
    BY <2>1, <2>3, ReadyLater
  <2> QED BY <2>1, <2>2, <2>4
<1>3. CASE g # segment.sig
  <2>1. m_assembler'[g] = m_assembler[g]
    BY <1>3 DEF AfterPending
  <2>2. m_assembler[g].currentRow \in Int
    BY <1>1 DEF Fed, Ready, Working, Assemblers
  <2> QED BY <1>1, <2>1, <2>2 DEF Fed
<1> QED BY <1>2, <1>3

LEMMA StartRowKeeps ==
  ASSUME IInv, StartRow
  PROVE  IInv'
<1>1. /\ phase = "frame" /\ row < MaxRows - 1 /\ HandOn(Pending)
      /\ segment' = NoSegment /\ prevSig' = NoSig /\ prevStartCol' = NoCol
      /\ row' = row + 1 /\ lastCol' = NoCol /\ phase' = phase /\ filtered' = filtered
  BY DEF StartRow
<1>2. AfterPending(m_assembler') /\ res' \in {0, -1} /\ owed' = {}
  BY <1>1, PendingHanded
<1>3. Variables /\ MaxRows \in Nat /\ row \in Int
  BY SegmentsAssumption DEF IInv, Variables
<1>4. segment'.sig = NoSig
      /\ segment' \in [sig : Sigs \cup {NoSig}, startCol : Columns \cup {0}, endCol : Columns \cup {0}]
  BY <1>1 DEF NoSegment
<1>5. row' \in -1..MaxRows - 1 /\ row' # -1 /\ row < row' /\ row' \in Int
  BY <1>1, <1>3 DEF Variables
<1>6. m_assembler' \in [Sigs -> Assemblers]
  BY <1>2 DEF AfterPending
<1>7. Variables'
  BY <1>1, <1>2, <1>3, <1>4, <1>5, <1>6 DEF Variables
<1>8. ColumnsInOrder' /\ OwedInSegment'
  BY <1>1, <1>2, <1>4, <1>5 DEF ColumnsInOrder, OwedInSegment
<1>9. ASSUME NEW g \in Sigs PROVE Fed(g)'
  <2>1. /\ Ready(m_assembler'[g], NoCol, NoCol + 1)
        /\ m_assembler'[g].currentRow \in Int /\ -1 <= m_assembler'[g].currentRow
        /\ m_assembler'[g].currentRow <= row
    BY <1>1, <1>2, ReadyForRow
  <2> DEFINE r == m_assembler'[g].currentRow
  <2>2. r <= row' /\ r < row'
    <3> HIDE DEF r
    <3>1. r \in Int /\ r <= row
      BY <2>1 DEF r
    <3> QED BY <1>3, <1>5, <3>1
  <2>3. r # row'
    BY <1>5, <2>1, <2>2
  <2> QED BY <2>1, <2>2, <2>3 DEF Fed
<1> QED BY <1>1, <1>7, <1>8, <1>9 DEF IInv

\* A refused pixel: the pixel that counted last may still begin a segment.
LEMMA FilteredPixelKeeps ==
  ASSUME IInv, NEW c \in Coloured, FilteredPixel(c[2])
  PROVE  IInv'
<1> DEFINE col == c[2]
<1>1. /\ phase = "frame" /\ row >= 0 /\ NextColumn(col) /\ filtered < MaxFiltered /\ HandOn(Pending)
      /\ segment' = NoSegment /\ lastCol' = col /\ filtered' = filtered + 1
      /\ phase' = phase /\ row' = row /\ prevSig' = prevSig /\ prevStartCol' = prevStartCol
  BY DEF FilteredPixel
<1>2. AfterPending(m_assembler') /\ res' \in {0, -1} /\ owed' = {}
  BY <1>1, PendingHanded
<1>3. Variables /\ ColumnsInOrder /\ MaxRows \in Nat /\ MaxFiltered \in Nat /\ row \in Int
  BY SegmentsAssumption DEF IInv, Variables
<1>4. segment'.sig = NoSig
      /\ segment' \in [sig : Sigs \cup {NoSig}, startCol : Columns \cup {0}, endCol : Columns \cup {0}]
  BY <1>1 DEF NoSegment
<1>5. col \in Columns /\ col \in 1..1022 /\ col # NoCol
  BY Constants DEF MaxCol
<1> HIDE DEF col
<1>6. lastCol = NoCol \/ (lastCol \in 1..1022 /\ lastCol < col)
  BY <1>1, <1>3, Constants DEF NextColumn, Variables, MaxCol
<1>7. m_assembler' \in [Sigs -> Assemblers] /\ filtered' \in 0..MaxFiltered
  BY <1>1, <1>2, <1>3 DEF AfterPending, Variables
<1>8. Variables'
  BY <1>1, <1>2, <1>3, <1>4, <1>5, <1>7 DEF Variables
<1>9. ASSUME prevSig # NoSig
      PROVE  prevStartCol \in 1..1022 /\ prevStartCol <= lastCol /\ lastCol \in 1..1022 /\ lastCol < col
  BY <1>3, <1>6, <1>9, Constants DEF ColumnsInOrder, Variables, MaxCol
<1>10. ColumnsInOrder' /\ OwedInSegment'
  <2>1. ASSUME prevSig # NoSig PROVE prevStartCol <= col
    <3>1. prevStartCol \in 1..1022 /\ prevStartCol <= lastCol /\ lastCol \in 1..1022 /\ lastCol < col
      BY <1>9, <2>1
    <3> QED BY <1>5, <3>1
  <2> QED BY <1>1, <1>2, <1>3, <1>4, <1>5, <2>1 DEF ColumnsInOrder, OwedInSegment
<1>11. ASSUME NEW g \in Sigs PROVE Fed(g)'
  <2>1. /\ Ready(m_assembler'[g], NoCol, NoCol + 1)
        /\ m_assembler'[g].currentRow \in Int /\ -1 <= m_assembler'[g].currentRow
        /\ m_assembler'[g].currentRow <= row
    BY <1>1, <1>2, ReadyForRow
  <2> DEFINE lo == IF prevSig = g THEN prevStartCol - 1 ELSE col
             hi == col + 1
  <2>2. From(g)' = lo /\ To(g)' = hi
    BY <1>1, <1>4, Constants DEF From, To
  <2>3. lo \in Int /\ hi \in Int
    BY <1>5, <1>9, Constants
  <2>4. ASSUME m_assembler'[g].currentRow = row PROVE Ready(m_assembler'[g], lo, hi)
    <3>1. CASE g = segment.sig
      <4>1. Ready(m_assembler'[g], segment.startCol - 1, segment.endCol)
        BY <1>2, <3>1 DEF AfterPending
      <4> DEFINE first == segment.startCol  end == segment.endCol
      <4>2. /\ first \in 1..1022 /\ end \in 1..1022 /\ first < end
            /\ prevSig = g /\ prevStartCol = end /\ lastCol = end
        BY <3>1, SegmentColumns, Constants DEF MaxCol
      <4> HIDE DEF first, end
      <4>3. lo = end - 1 /\ first - 1 <= lo /\ end <= hi /\ first - 1 \in Int /\ end \in Int
        BY <1>5, <1>6, <4>2 DEF NoCol
      <4>4. Ready(m_assembler'[g], first - 1, end)
        BY <4>1 DEF first, end
      <4> HIDE DEF lo, hi
      <4> QED BY <2>3, <4>3, <4>4, ReadyLater
    <3>2. CASE g # segment.sig
      <4>1. m_assembler'[g] = m_assembler[g] /\ Fed(g)
        BY <1>1, <1>2, <3>2 DEF AfterPending, IInv
      <4>2. Ready(m_assembler[g], From(g), To(g)) /\ lastCol # NoCol
        BY <1>1, <1>3, <2>4, <4>1 DEF Fed
      <4>3. lastCol \in 1..1022 /\ lastCol < col
        BY <1>6, <4>2
      <4>4. To(g) = lastCol + 1 /\ From(g) = IF prevSig = g THEN prevStartCol - 1 ELSE lastCol
        BY <3>2 DEF From, To
      <4>5. From(g) \in Int /\ To(g) \in Int /\ From(g) <= lo /\ To(g) <= hi
        <5>1. CASE prevSig = g
          <6>1. prevStartCol \in 1..1022 /\ From(g) = prevStartCol - 1
            BY <1>9, <4>4, <5>1, Constants
          <6> QED BY <1>5, <4>3, <4>4, <5>1, <6>1
        <5>2. CASE prevSig # g
          <6>1. From(g) = lastCol
            BY <4>4, <5>2
          <6> QED BY <1>5, <4>3, <4>4, <5>2, <6>1
        <5> QED BY <5>1, <5>2
      <4> HIDE DEF lo, hi
      <4> QED BY <2>3, <4>1, <4>2, <4>5, ReadyLater
    <3> QED BY <3>1, <3>2
  <2>5. lastCol' # NoCol
    BY <1>1, <1>5
  <2> HIDE DEF lo, hi
  <2> QED BY <1>1, <2>1, <2>2, <2>4, <2>5 DEF Fed
<1> QED BY <1>1, <1>8, <1>10, <1>11 DEF IInv

\* The first alternative of Pixel.
Merged(sig, col) ==
  /\ Merges(sig, col)
  /\ segment' = IF segment.sig = NoSig
                  THEN [sig |-> sig, startCol |-> prevStartCol, endCol |-> col]
                  ELSE [segment EXCEPT !.endCol = col]
  /\ owed' = owed \cup {[sig |-> sig, row |-> row, col |-> col]}
  /\ m_assembler' = m_assembler /\ res' = res

\* A pixel of a segment: it is owed until the segment is handed on.
LEMMA MergedPixelKeeps ==
  ASSUME IInv, NEW c \in Coloured, Pixel(c[1], c[2]), Merged(c[1], c[2])
  PROVE  IInv'
<1> DEFINE sig == c[1]
           col == c[2]
<1>1. /\ phase = "frame" /\ row >= 0 /\ NextColumn(col)
      /\ prevSig' = sig /\ prevStartCol' = col /\ lastCol' = col
      /\ phase' = phase /\ row' = row /\ filtered' = filtered
      /\ m_assembler' = m_assembler /\ res' = res
  BY DEF Pixel, Merged
<1>2. Variables /\ ColumnsInOrder /\ OwedInSegment /\ row \in Int
  BY DEF IInv, Variables
<1>3. sig \in Sigs /\ sig # NoSig /\ col \in Columns /\ col \in 1..1022 /\ col # NoCol
  BY Constants DEF MaxCol
<1>4. /\ segment' = IF segment.sig = NoSig
                      THEN [sig |-> sig, startCol |-> prevStartCol, endCol |-> col]
                      ELSE [segment EXCEPT !.endCol = col]
      /\ owed' = owed \cup {[sig |-> sig, row |-> row, col |-> col]}
      /\ col - prevStartCol \in 0..MaxGap /\ prevSig = sig
  BY DEF Merges, Merged
<1> HIDE DEF sig, col
<1>5. /\ prevStartCol \in Columns /\ prevStartCol \in 1..1022 /\ prevStartCol <= lastCol
      /\ lastCol \in 1..1022 /\ lastCol < col /\ lastCol # NoCol
  <2>1. prevStartCol # NoCol /\ prevStartCol \in Columns /\ prevStartCol <= lastCol /\ lastCol # NoCol
    BY <1>2, <1>3, <1>4 DEF ColumnsInOrder, Variables
  <2>2. lastCol \in Columns /\ lastCol < col
    BY <1>1, <1>2, <2>1 DEF NextColumn, Variables
  <2> QED BY <2>1, <2>2, Constants DEF MaxCol
<1>6. /\ segment'.sig = sig /\ segment'.endCol = col
      /\ segment'.startCol = IF segment.sig = NoSig THEN prevStartCol ELSE segment.startCol
      /\ segment' \in [sig : Sigs \cup {NoSig}, startCol : Columns \cup {0}, endCol : Columns \cup {0}]
  <2>1. CASE segment.sig = NoSig
    BY <1>3, <1>4, <1>5, <2>1
  <2>2. CASE segment.sig # NoSig
    <3>1. segment.sig = sig
      BY <1>2, <1>4, <2>2 DEF ColumnsInOrder
    <3>2. segment \in [sig : Sigs \cup {NoSig}, startCol : Columns \cup {0}, endCol : Columns \cup {0}]
      BY <1>2 DEF Variables
    <3>3. segment' = [segment EXCEPT !.endCol = col]
      BY <1>4, <2>2
    <3> QED BY <1>3, <2>2, <3>1, <3>2, <3>3
  <2> QED BY <2>1, <2>2
<1>7. /\ segment'.startCol \in Columns /\ segment'.startCol \in 1..1022 /\ segment'.startCol < col
      /\ segment.sig # NoSig => segment.sig = sig /\ segment.endCol \in 1..1022 /\ segment.endCol < col
  <2>1. CASE segment.sig = NoSig
    BY <1>3, <1>5, <1>6, <2>1
  <2>2. CASE segment.sig # NoSig
    <3> DEFINE lo == segment.startCol  hi == segment.endCol
    <3>1. /\ lo \in Columns /\ lo \in 1..1022 /\ hi \in 1..1022 /\ lo < hi /\ hi = lastCol
          /\ segment.sig = sig
      BY <1>4, <2>2, SegmentColumns, Constants DEF MaxCol
    <3>2. segment'.startCol = lo
      BY <1>6, <2>2
    <3> HIDE DEF lo, hi
    <3>3. lo < col /\ hi < col
      BY <1>3, <1>5, <3>1
    <3> QED BY <3>1, <3>2, <3>3 DEF hi
  <2> QED BY <2>1, <2>2
<1>8. Variables'
  BY <1>1, <1>2, <1>3, <1>6 DEF Variables
<1>9. ColumnsInOrder'
  <2>1. col <= col
    BY <1>3
  <2> QED BY <1>1, <1>2, <1>3, <1>6, <1>7, <2>1 DEF ColumnsInOrder
<1>10. OwedInSegment'
  <2>1. ASSUME NEW p \in owed'
        PROVE  p.sig = sig /\ p.row = row /\ p.col \in segment'.startCol..col
    <3>1. CASE p = [sig |-> sig, row |-> row, col |-> col]
      <4>1. col \in segment'.startCol..col
        <5> DEFINE first == segment'.startCol
        <5>1. first \in 1..1022 /\ first < col
          BY <1>7
        <5> HIDE DEF first
        <5>2. col \in first..col
          BY <1>3, <5>1
        <5> QED BY <5>2 DEF first
      <4> QED BY <3>1, <4>1
    <3>2. CASE p \in owed
      <4>1. segment.sig # NoSig
        BY <1>2, <3>2 DEF OwedInSegment
      <4>2. p.sig = sig /\ p.row = row /\ p.col \in segment.startCol..segment.endCol
        BY <1>2, <1>7, <3>2, <4>1 DEF OwedInSegment
      <4>3. segment'.startCol = segment.startCol
        BY <1>6, <4>1
      <4> DEFINE lo == segment'.startCol  hi == segment.endCol
      <4>4. p.col \in lo..hi /\ lo \in 1..1022 /\ hi \in 1..1022 /\ hi < col
        BY <1>7, <4>1, <4>2, <4>3
      <4> HIDE DEF lo, hi
      <4>5. p.col \in lo..col
        BY <1>3, <4>4
      <4> QED BY <4>2, <4>5 DEF lo
    <3> QED BY <1>4, <2>1, <3>1, <3>2
  <2>2. segment'.sig # NoSig
    BY <1>3, <1>6
  <2> QED BY <1>1, <1>6, <2>1, <2>2 DEF OwedInSegment
<1>11. ASSUME NEW g \in Sigs PROVE Fed(g)'
  <2> DEFINE lo == IF sig = g THEN segment'.startCol - 1 ELSE col
             hi == IF sig = g THEN col ELSE col + 1
  <2>1. From(g)' = lo /\ To(g)' = hi
    BY <1>1, <1>6 DEF From, To
  <2>2. lo \in Int /\ hi \in Int /\ col \in Int
    <3> DEFINE first == segment'.startCol
    <3>1. first \in 1..1022
      BY <1>7
    <3> HIDE DEF first
    <3>2. first - 1 \in Int /\ col + 1 \in Int /\ col \in Int
      BY <1>3, <3>1
    <3> QED BY <3>2 DEF first
  <2>3. Fed(g)
    BY <1>1 DEF IInv
  <2>4. ASSUME m_assembler[g].currentRow = row PROVE Ready(m_assembler[g], lo, hi)
    <3>1. Ready(m_assembler[g], From(g), To(g))
      BY <2>3, <2>4 DEF Fed
    <3>2. CASE sig = g
      <4>1. From(g) = segment'.startCol - 1
        <5>1. CASE segment.sig = NoSig
          <6>1. segment.sig # g /\ prevSig = g /\ segment'.startCol = prevStartCol
            BY <1>3, <1>4, <1>6, <3>2, <5>1
          <6> QED BY <6>1 DEF From
        <5>2. CASE segment.sig # NoSig
          BY <1>6, <1>7, <3>2, <5>2 DEF From
        <5> QED BY <5>1, <5>2
      <4>2. To(g) \in Int /\ To(g) <= col
        <5>1. CASE segment.sig = NoSig
          <6>1. To(g) = lastCol + 1
            BY <1>3, <3>2, <5>1 DEF To
          <6> QED BY <1>3, <1>5, <6>1
        <5>2. CASE segment.sig # NoSig
          <6> DEFINE end == segment.endCol
          <6>1. To(g) = end /\ end \in 1..1022 /\ end < col
            BY <1>7, <3>2, <5>2 DEF To
          <6> HIDE DEF end
          <6> QED BY <1>3, <6>1
        <5> QED BY <5>1, <5>2
      <4>3. lo = From(g) /\ hi = col
        BY <3>2, <4>1
      <4>4. From(g) <= lo /\ To(g) <= hi /\ From(g) \in Int
        BY <2>2, <4>2, <4>3
      <4> HIDE DEF lo, hi
      <4> QED BY <2>2, <3>1, <4>2, <4>4, ReadyLater
    <3>3. CASE sig # g
      <4>1. segment.sig # g /\ prevSig # g
        BY <1>3, <1>4, <1>7, <3>3, Constants
      <4>2. From(g) = lastCol /\ To(g) = lastCol + 1 /\ lo = col /\ hi = col + 1
        BY <3>3, <4>1 DEF From, To
      <4>3. From(g) \in Int /\ To(g) \in Int /\ From(g) <= lo /\ To(g) <= hi
        BY <1>3, <1>5, <4>2
      <4> HIDE DEF lo, hi
      <4> QED BY <2>2, <3>1, <4>3, ReadyLater
    <3> QED BY <3>2, <3>3
  <2>5. lastCol' # NoCol
    BY <1>1, <1>3
  <2> HIDE DEF lo, hi
  <2> QED BY <1>1, <2>1, <2>3, <2>4, <2>5 DEF Fed
<1> QED BY <1>1, <1>8, <1>9, <1>10, <1>11 DEF IInv

\* The second alternative of Pixel.
Alone(sig, col) ==
  /\ ~Merges(sig, col) /\ segment' = NoSegment
  /\ HandOn(Append(Pending, Single(sig, col)))

\* A pixel that is a segment of its own, until the next one joins it.
LEMMA SinglePixelKeeps ==
  ASSUME IInv, NEW c \in Coloured, Pixel(c[1], c[2]), Alone(c[1], c[2])
  PROVE  IInv'
<1> DEFINE sig == c[1]
           col == c[2]
<1>1. /\ phase = "frame" /\ row >= 0 /\ NextColumn(col)
      /\ prevSig' = sig /\ prevStartCol' = col /\ lastCol' = col
      /\ phase' = phase /\ row' = row /\ filtered' = filtered /\ segment' = NoSegment
  BY DEF Pixel, Alone
<1>2. Variables /\ ColumnsInOrder /\ OwedInSegment /\ row \in Int
  BY DEF IInv, Variables
<1>3. sig \in Sigs /\ sig # NoSig /\ col \in Columns /\ col \in 1..1022 /\ col # NoCol
  BY Constants DEF MaxCol
<1>4. /\ m_assembler' \in [Sigs -> Assemblers] /\ res' \in {0, -1} /\ owed' = {}
      /\ Ready(m_assembler'[sig], col - 1, col + 1) /\ m_assembler'[sig].currentRow = row
      /\ \A g \in Sigs : g # sig /\ g = segment.sig =>
           Ready(m_assembler'[g], segment.startCol - 1, segment.endCol) /\ m_assembler'[g].currentRow = row
      /\ \A g \in Sigs : g # sig /\ g # segment.sig => m_assembler'[g] = m_assembler[g]
  <2>1. HandOn(Append(Pending, Single(c[1], c[2])))
    BY DEF Alone
  <2> QED BY <1>1, <2>1, SingleHanded
<1> HIDE DEF sig, col
<1>5. segment'.sig = NoSig
      /\ segment' \in [sig : Sigs \cup {NoSig}, startCol : Columns \cup {0}, endCol : Columns \cup {0}]
  BY <1>1 DEF NoSegment
<1>6. lastCol = NoCol \/ (lastCol \in 1..1022 /\ lastCol < col)
  BY <1>1, <1>2, Constants DEF NextColumn, Variables, MaxCol
<1>7. Variables'
  BY <1>1, <1>2, <1>3, <1>4, <1>5 DEF Variables
<1>8. ColumnsInOrder' /\ OwedInSegment'
  <2>1. col <= col
    BY <1>3
  <2> QED BY <1>1, <1>2, <1>3, <1>4, <1>5, <2>1 DEF ColumnsInOrder, OwedInSegment
<1>9. ASSUME NEW g \in Sigs PROVE Fed(g)'
  <2> DEFINE lo == IF sig = g THEN col - 1 ELSE col
             hi == col + 1
  <2>1. From(g)' = lo /\ To(g)' = hi
    BY <1>1, <1>5, Constants DEF From, To
  <2>2. lo \in Int /\ hi \in Int /\ lo <= NoCol /\ hi <= NoCol + 1 /\ NoCol \in Int /\ NoCol + 1 \in Int
    BY <1>3 DEF NoCol
  <2>3. CASE g = sig
    <3>1. lo = col - 1
      BY <2>3
    <3>2. Ready(m_assembler'[g], lo, hi) /\ m_assembler'[g].currentRow = row
      BY <1>4, <2>3, <3>1
    <3> HIDE DEF lo, hi
    <3>3. Ready(m_assembler'[g], NoCol, NoCol + 1)
      BY <2>2, <3>2, ReadyLater
    <3>4. -1 <= row /\ row <= row
      BY <1>1, <1>2
    <3> QED BY <1>1, <1>3, <2>1, <3>2, <3>3, <3>4 DEF Fed
  <2>4. CASE g # sig /\ g = segment.sig
    <3> DEFINE first == segment.startCol  end == segment.endCol
    <3>1. Ready(m_assembler'[g], first - 1, end) /\ m_assembler'[g].currentRow = row
      BY <1>4, <2>4
    <3>2. first \in 1..1022 /\ end \in 1..1022 /\ first < end /\ lastCol = end
      BY <2>4, SegmentColumns, Constants DEF MaxCol
    <3>3. lo = col
      BY <2>4
    <3> HIDE DEF first, end
    <3>4. first - 1 \in Int /\ end \in Int /\ first - 1 <= col /\ end <= col + 1
      BY <1>3, <1>6, <3>2 DEF NoCol
    <3>5. first - 1 <= lo /\ end <= hi
      BY <3>3, <3>4
    <3> HIDE DEF lo, hi
    <3>6. Ready(m_assembler'[g], lo, hi)
      BY <2>2, <3>1, <3>4, <3>5, ReadyLater
    <3>7. Ready(m_assembler'[g], NoCol, NoCol + 1)
      BY <2>2, <3>6, ReadyLater
    <3>8. -1 <= row /\ row <= row
      BY <1>1, <1>2
    <3> QED BY <1>1, <1>3, <2>1, <3>1, <3>6, <3>7, <3>8 DEF Fed
  <2>5. CASE g # sig /\ g # segment.sig
    <3>1. m_assembler'[g] = m_assembler[g] /\ Fed(g)
      BY <1>1, <1>4, <2>5 DEF IInv
    <3>2. ASSUME m_assembler[g].currentRow = row PROVE Ready(m_assembler[g], lo, hi)
      <4>1. Ready(m_assembler[g], From(g), To(g)) /\ lastCol # NoCol
        BY <1>1, <1>2, <3>1, <3>2 DEF Fed
      <4>2. lastCol \in 1..1022 /\ lastCol < col
        BY <1>6, <4>1
      <4>3. To(g) = lastCol + 1 /\ From(g) = IF prevSig = g THEN prevStartCol - 1 ELSE lastCol
        BY <2>5 DEF From, To
      <4>4. lo = col
        BY <2>5
      <4>5. From(g) \in Int /\ From(g) <= col
        <5>1. CASE prevSig = g
          <6>1. prevSig # NoSig
            BY <5>1, Constants
          <6>2. prevStartCol \in 1..1022 /\ prevStartCol <= lastCol
            BY <1>2, <6>1, Constants DEF ColumnsInOrder, Variables, MaxCol
          <6>3. From(g) = prevStartCol - 1
            BY <4>3, <5>1
          <6> QED BY <1>3, <4>2, <6>2, <6>3
        <5>2. CASE prevSig # g
          BY <1>3, <4>2, <4>3, <5>2
        <5> QED BY <5>1, <5>2
      <4>6. To(g) \in Int /\ To(g) <= col + 1
        BY <1>3, <4>2, <4>3
      <4>7. From(g) <= lo /\ To(g) <= hi
        BY <4>4, <4>5, <4>6
      <4> HIDE DEF lo, hi
      <4> QED BY <2>2, <4>1, <4>5, <4>6, <4>7, ReadyLater
    <3> HIDE DEF lo, hi
    <3>3. lastCol' # NoCol
      BY <1>1, <1>3
    <3> QED BY <1>1, <2>1, <3>1, <3>2, <3>3 DEF Fed
  <2> QED BY <2>3, <2>4, <2>5
<1> QED BY <1>1, <1>7, <1>8, <1>9 DEF IInv

LEMMA EndOfFrameKeeps ==
  ASSUME IInv, EndOfFrame
  PROVE  IInv'
<1>1. /\ phase = "frame" /\ phase' = "done"
      /\ m_assembler' = [g \in Sigs |-> SortFinished(EndFrame(m_assembler[g]))]
      /\ UNCHANGED <<row, res, prevSig, prevStartCol, segment, lastCol, filtered, owed>>
  BY DEF EndOfFrame
<1>2. ASSUME NEW g \in Sigs
      PROVE  LET n == m_assembler'[g] IN
             /\ n \in Assemblers
             /\ n.currentRow = m_assembler[g].currentRow /\ n.active = <<>>
             /\ Ended(n.finished) /\ Descending(n.finished)
  <2>1. Working(m_assembler[g], {})
    BY <1>1 DEF IInv, Fed, Ready
  <2> DEFINE a == m_assembler[g]
             n == SortFinished(EndFrame(a))
  <2>2. /\ n \in Assemblers /\ n.currentRow = a.currentRow /\ n.active = <<>>
        /\ Ended(n.finished) /\ Descending(n.finished)
    BY <2>1, FrameEnds
  <2> HIDE DEF n
  <2>3. m_assembler'[g] = n
    BY <1>1 DEF n
  <2> QED BY <2>2, <2>3
<1>3. m_assembler' \in [Sigs -> Assemblers]
  <2> DEFINE F(g) == SortFinished(EndFrame(m_assembler[g]))
  <2>1. m_assembler' = [g \in Sigs |-> F(g)]
    BY <1>1
  <2> HIDE DEF F
  <2>2. \A g \in Sigs : F(g) \in Assemblers
    BY <1>2, <2>1
  <2> QED BY <2>1, <2>2
<1>4. Variables'
  BY <1>1, <1>3 DEF IInv, Variables
<1>5. ColumnsInOrder' /\ OwedInSegment'
  BY <1>1 DEF IInv, ColumnsInOrder, OwedInSegment
<1>6. ASSUME NEW g \in Sigs PROVE Over(g)'
  <2>1. -1 <= m_assembler[g].currentRow /\ m_assembler[g].currentRow <= row
    BY <1>1 DEF IInv, Fed
  <2>2. row' = row
    BY <1>1
  <2> QED BY <1>2, <2>1, <2>2 DEF Over
<1> QED BY <1>1, <1>4, <1>5, <1>6 DEF IInv

LEMMA NextFrameKeeps ==
  ASSUME NextFrame
  PROVE  IInv'
<1>1. Init'
  BY DEF NextFrame, Init
<1> QED BY <1>1, InitHolds, PTL

LEMMA StepKeeps ==
  ASSUME IInv, [Next]_vars
  PROVE  IInv'
<1>1. CASE StartRow
  BY <1>1, StartRowKeeps
<1>2. ASSUME NEW c \in Coloured, Pixel(c[1], c[2]) PROVE IInv'
  <2>1. Merged(c[1], c[2]) \/ Alone(c[1], c[2])
    BY <1>2 DEF Pixel, Merged, Alone
  <2> QED BY <1>2, <2>1, MergedPixelKeeps, SinglePixelKeeps
<1>3. ASSUME NEW c \in Coloured, FilteredPixel(c[2]) PROVE IInv'
  BY <1>3, FilteredPixelKeeps
<1>4. CASE EndOfFrame
  BY <1>4, EndOfFrameKeeps
<1>5. CASE NextFrame
  BY <1>5, NextFrameKeeps
<1>6. CASE UNCHANGED vars
  <2>1. UNCHANGED <<phase, row, res, prevSig, prevStartCol, segment, m_assembler, lastCol, filtered, owed>>
    BY <1>6 DEF vars
  <2> QED BY <2>1 DEF IInv, Variables, ColumnsInOrder, OwedInSegment, Fed, From, To, Over
<1> QED BY <1>1, <1>2, <1>3, <1>4, <1>5, <1>6 DEF Next

LEMMA Invariant == Spec => []IInv
<1>1. Init => IInv
  BY InitHolds
<1>2. IInv /\ [Next]_vars => IInv'
  BY StepKeeps
<1> QED BY <1>1, <1>2, PTL DEF Spec

-----------------------------------------------------------------------------
(* What the runs check, for every frame.                                   *)

LEMMA ExtremeOf ==
  ASSUME NEW S \in SUBSET Int, NEW m \in S
  PROVE  /\ (\A x \in S : m <= x) => Min(S) = m
         /\ (\A x \in S : x <= m) => Max(S) = m
<1>1. ASSUME \A x \in S : m <= x PROVE Min(S) = m
  <2>1. \E n \in S : \A x \in S : n <= x
    BY <1>1
  <2>2. Min(S) \in S /\ \A x \in S : Min(S) <= x
    BY <2>1 DEF Min
  <2>3. m <= Min(S) /\ Min(S) <= m /\ Min(S) \in Int /\ m \in Int
    BY <1>1, <2>2
  <2> QED BY <2>3
<1>2. ASSUME \A x \in S : x <= m PROVE Max(S) = m
  <2>1. \E n \in S : \A x \in S : n >= x
    BY <1>2
  <2>2. Max(S) \in S /\ \A x \in S : Max(S) >= x
    BY <2>1 DEF Max
  <2>3. m <= Max(S) /\ Max(S) <= m /\ Max(S) \in Int /\ m \in Int
    BY <1>2, <2>2
  <2> QED BY <2>3
<1> QED BY <1>1, <1>2

LEMMA SoundIsOK ==
  ASSUME NEW b, Sound(b)
  PROVE  BlobOK(b)
BY DEF Sound, BlobRecords, BlobOK

\* The blobs of an assembler, in either phase.
LEMMA BlobsOf ==
  ASSUME IInv, NEW g \in Sigs
  PROVE  LET a == m_assembler[g] IN
         /\ a \in Assemblers
         /\ \A i \in 1..Len(a.active) : Sound(a.active[i])
         /\ \A i \in 1..Len(a.finished) : Sound(a.finished[i]) /\ a.finished[i].nextBottom.row = NoRow
         /\ \A i, j \in 1..Len(AllBlobs(g)) : i # j => Apart(AllBlobs(g)[i], AllBlobs(g)[j])
         /\ AllBlobs(g) \in Seq(BlobRecords)
<1> DEFINE a == m_assembler[g]
           all == a.active \o a.finished
<1>1. a \in Assemblers /\ phase \in {"frame", "done"} /\ AllBlobs(g) = all
  BY DEF IInv, Variables, AllBlobs
<1>2. CASE phase = "frame"
  <2>1. Working(a, {})
    BY <1>2 DEF IInv, Fed, Ready
  <2> HIDE DEF a
  <2>2. /\ all \in Seq(BlobRecords) /\ Len(all) = Len(a.active) + Len(a.finished)
        /\ \A i, j \in 1..Len(all) : i # j => Apart(all[i], all[j])
    BY <2>1, AllApart
  <2>3. \A i \in 1..Len(a.active) : Sound(a.active[i])
    BY <2>1 DEF Working, ActiveSound, Active
  <2>4. \A i \in 1..Len(a.finished) : Sound(a.finished[i]) /\ a.finished[i].nextBottom.row = NoRow
    BY <2>1 DEF Working, FinishedSound, Finished
  <2> HIDE DEF all
  <2> QED BY <1>1, <2>2, <2>3, <2>4 DEF a
<1>3. CASE phase = "done"
  <2>1. a.active = <<>> /\ Ended(a.finished)
    BY <1>3 DEF IInv, Over
  <2>2. all = a.finished /\ Len(a.active) = 0
    BY <1>1, <2>1 DEF Assemblers
  <2> HIDE DEF a, all
  <2> QED BY <1>1, <2>1, <2>2 DEF a, Ended
<1> QED BY <1>1, <1>2, <1>3

LEMMA ElementsSatisfy ==
  ASSUME NEW S, NEW s \in Seq(S), NEW b \in ToSet(s)
  PROVE  \E i \in 1..Len(s) : b = s[i]
<1>1. DOMAIN s = 1..Len(s)
  OBVIOUS
<1> QED BY <1>1 DEF ToSet

\* Every variable has its type, of an assembler whatever was given to it.
THEOREM TypesHold == Spec => []TypeOK
<1>1. IInv => TypeOK
  <2> SUFFICES ASSUME IInv PROVE TypeOK
    OBVIOUS
  <2>1. ASSUME NEW g \in Sigs
        PROVE  LET a == m_assembler[g] IN
               /\ a.currentRow \in -1..MaxRows - 1
               /\ a.active # <<>> => a.cur \in 1..Len(a.active) + 1
               /\ \A b \in ToSet(a.active) \cup ToSet(a.finished) : BlobOK(b)
    <3> DEFINE a == m_assembler[g]
    <3>1. /\ a \in Assemblers
          /\ \A i \in 1..Len(a.active) : Sound(a.active[i])
          /\ \A i \in 1..Len(a.finished) : Sound(a.finished[i])
      BY BlobsOf
    <3>2. /\ -1 <= a.currentRow /\ a.currentRow <= row
          /\ a.active # <<>> => a.cur \in 1..Len(a.active) + 1
      BY DEF IInv, Variables, Fed, Ready, Over
    <3> HIDE DEF a
    <3>3. a.currentRow \in -1..MaxRows - 1
      <4>1. row \in -1..MaxRows - 1 /\ a.currentRow \in Int /\ MaxRows \in Nat
        BY <3>1, SegmentsAssumption DEF IInv, Variables, Assemblers
      <4> QED BY <3>2, <4>1
    <3>4. ASSUME NEW b \in ToSet(a.active) \cup ToSet(a.finished) PROVE BlobOK(b)
      <4>1. a.active \in Seq(BlobRecords) /\ a.finished \in Seq(BlobRecords)
        BY <3>1 DEF Assemblers
      <4>2. Sound(b)
        <5>1. CASE b \in ToSet(a.active)
          BY <3>1, <4>1, <5>1, ElementsSatisfy
        <5>2. CASE b \in ToSet(a.finished)
          BY <3>1, <4>1, <5>2, ElementsSatisfy
        <5> QED BY <3>4, <5>1, <5>2
      <4> QED BY <4>2, SoundIsOK
    <3> QED BY <3>2, <3>3, <3>4 DEF a
  <2> QED BY <2>1 DEF IInv, Variables, TypeOK
<1> QED BY <1>1, Invariant, PTL

\* No pixel that counted is lost when a segment, a row or a signature ends.
THEOREM PixelsAreKept == Spec => []PixelsKept
<1>1. IInv => PixelsKept
  BY DEF IInv, OwedInSegment, PixelsKept
<1> QED BY <1>1, Invariant, PTL

\* What Add and Assimilate rely on holds of the blob under the cursor and the one
\* after it, after whatever segments.
THEOREM CurrentStaysFresh == Spec => []CurrentIsFresh
<1>1. IInv => CurrentIsFresh
  <2> SUFFICES ASSUME IInv, NEW g \in Sigs, NEW k \in DOMAIN m_assembler[g].active,
                      k = m_assembler[g].cur \/ k = m_assembler[g].cur + 1
               PROVE  LET a == m_assembler[g] IN
                      /\ a.active[k].nextBottom.row
                           \in {NoRow} \cup (IF k = a.cur THEN {a.currentRow} ELSE {})
                      /\ a.currentRow - a.active[k].lastBottom.row <= maxRowDelta
    BY DEF CurrentIsFresh
  <2> DEFINE a == m_assembler[g]
  <2>1. a \in Assemblers /\ DOMAIN a.active = 1..Len(a.active)
    <3>1. a \in Assemblers
      BY DEF IInv, Variables
    <3> QED BY <3>1 DEF Assemblers
  <2>2. CASE phase = "done"
    <3>1. a.active = <<>>
      BY <2>2 DEF IInv, Over
    <3> QED BY <3>1
  <2>3. CASE phase = "frame"
    <3>1. CurrentFresh(a) /\ k \in Active(a)
      BY <2>1, <2>3 DEF IInv, Fed, Ready, Active
    <3> HIDE DEF a
    <3>2. k = a.cur \/ k = a.cur + 1
      BY DEF a
    <3>3. /\ a.active[k].lastBottom.row = a.currentRow - 1
          /\ a.active[k].nextBottom.row = NoRow \/ (k = a.cur /\ a.active[k].nextBottom.row = a.currentRow)
      BY <3>1, <3>2 DEF CurrentFresh
    <3>4. a.currentRow \in Int /\ a.currentRow - (a.currentRow - 1) = 1
      BY <2>1 DEF Assemblers
    <3>5. a.currentRow - a.active[k].lastBottom.row <= maxRowDelta
      BY <3>3, <3>4 DEF maxRowDelta
    <3> QED BY <3>3, <3>5 DEF a
  <2> QED BY <2>2, <2>3 DEF IInv, Variables
<1> QED BY <1>1, Invariant, PTL

\* The active blobs of a signature stay in left to right order, whichever are joined,
\* inserted or retired.
THEOREM ActiveStaysOrdered == Spec => []ActiveOrdered
<1>1. IInv => ActiveOrdered
  <2> SUFFICES ASSUME IInv, NEW g \in Sigs,
                      NEW i \in DOMAIN m_assembler[g].active, NEW j \in DOMAIN m_assembler[g].active, i < j
               PROVE  Surface(m_assembler[g].active[i]).startCol <= Surface(m_assembler[g].active[j]).startCol
    BY DEF ActiveOrdered
  <2> DEFINE a == m_assembler[g]
  <2>1. a \in Assemblers /\ DOMAIN a.active = 1..Len(a.active)
    <3>1. a \in Assemblers
      BY DEF IInv, Variables
    <3> QED BY <3>1 DEF Assemblers
  <2>2. CASE phase = "done"
    <3>1. a.active = <<>>
      BY <2>2 DEF IInv, Over
    <3> QED BY <3>1
  <2>3. CASE phase = "frame"
    <3>1. ActiveInOrder(a, {}) /\ i \in Active(a) /\ j \in Active(a)
      BY <2>1, <2>3 DEF IInv, Fed, Ready, Working, Active
    <3> HIDE DEF a
    <3>2. Surface(a.active[i]).startCol <= Surface(a.active[j]).startCol
      BY <3>1 DEF ActiveInOrder
    <3> QED BY <3>2 DEF a
  <2> QED BY <2>2, <2>3 DEF IInv, Variables
<1> QED BY <1>1, Invariant, PTL

\* Segments of one signature that touch are in one blob, however they overlap and
\* whichever blobs merge.
THEOREM TouchingIsNeverSplit == Spec => []NeverSplit
<1>1. IInv => NeverSplit
  <2> SUFFICES ASSUME IInv, NEW g \in Sigs,
                      NEW i \in DOMAIN AllBlobs(g), NEW j \in DOMAIN AllBlobs(g), i # j,
                      NEW s \in ToSet(AllBlobs(g)[i].segments), NEW t \in ToSet(AllBlobs(g)[j].segments)
               PROVE  ~Touch(s, t)
    BY DEF NeverSplit
  <2> DEFINE all == AllBlobs(g)
  <2>1. all \in Seq(BlobRecords) /\ \A k, l \in 1..Len(all) : k # l => Apart(all[k], all[l])
    BY BlobsOf
  <2> HIDE DEF all
  <2>2. i \in 1..Len(all) /\ j \in 1..Len(all)
    BY <2>1 DEF all
  <2>3. Apart(all[i], all[j])
    BY <2>1, <2>2
  <2> QED BY <2>3 DEF Apart, Segs, all
<1> QED BY <1>1, Invariant, PTL

\* The box, and the last row, of a finished blob are those of its segments.
THEOREM BoxesAreExact == Spec => []BoxIsExact
<1>1. IInv => BoxIsExact
  <2> SUFFICES ASSUME IInv, NEW g \in Sigs, NEW b \in ToSet(m_assembler[g].finished)
               PROVE  LET all == ToSet(b.segments) IN
                      /\ b.left = Min({s.startCol : s \in all}) /\ b.right = Max({s.endCol : s \in all})
                      /\ b.top = Min({s.row : s \in all}) /\ b.lastBottom.row = Max({s.row : s \in all})
    BY DEF BoxIsExact
  <2>1. Sound(b) /\ b.nextBottom.row = NoRow
    <3> DEFINE f == m_assembler[g].finished
    <3>1. f \in Seq(BlobRecords) /\ \A i \in 1..Len(f) : Sound(f[i]) /\ f[i].nextBottom.row = NoRow
      BY BlobsOf DEF Assemblers
    <3> HIDE DEF f
    <3>2. b \in ToSet(f)
      BY DEF f
    <3> QED BY <3>1, <3>2, ElementsSatisfy
  <2> DEFINE all == Segs(b)
  <2>2. \A s \in all : s.row \in Int /\ s.startCol \in Int /\ s.endCol \in Int
    BY <2>1 DEF Sound, Segments, Bottom
  <2>3. /\ \A s \in all : b.left <= s.startCol /\ b.top <= s.row /\ s.endCol <= b.right
        /\ \E s \in all : b.left = s.startCol
        /\ \E s \in all : b.top = s.row
        /\ \E s \in all : b.right = s.endCol
    BY <2>1 DEF Sound, Boxed
  <2>4. (\E s \in all : b.lastBottom.row = s.row) /\ \A s \in all : s.row <= b.lastBottom.row
    BY <2>1 DEF Sound, Hulls, Surface
  <2> HIDE DEF all
  <2>5. b.left = Min({s.startCol : s \in all})
    <3> DEFINE S == {s.startCol : s \in all}
    <3>1. S \in SUBSET Int /\ b.left \in S /\ \A x \in S : b.left <= x
      BY <2>2, <2>3
    <3> HIDE DEF S
    <3>2. b.left = Min(S)
      BY <3>1, ExtremeOf
    <3> QED BY <3>2 DEF S
  <2>6. b.right = Max({s.endCol : s \in all})
    <3> DEFINE S == {s.endCol : s \in all}
    <3>1. S \in SUBSET Int /\ b.right \in S /\ \A x \in S : x <= b.right
      BY <2>2, <2>3
    <3> HIDE DEF S
    <3>2. b.right = Max(S)
      BY <3>1, ExtremeOf
    <3> QED BY <3>2 DEF S
  <2>7. b.top = Min({s.row : s \in all})
    <3> DEFINE S == {s.row : s \in all}
    <3>1. S \in SUBSET Int /\ b.top \in S /\ \A x \in S : b.top <= x
      BY <2>2, <2>3
    <3> HIDE DEF S
    <3>2. b.top = Min(S)
      BY <3>1, ExtremeOf
    <3> QED BY <3>2 DEF S
  <2>8. b.lastBottom.row = Max({s.row : s \in all})
    <3> DEFINE S == {s.row : s \in all}
    <3>1. S \in SUBSET Int /\ b.lastBottom.row \in S /\ \A x \in S : x <= b.lastBottom.row
      BY <2>2, <2>4
    <3> HIDE DEF S
    <3>2. b.lastBottom.row = Max(S)
      BY <3>1, ExtremeOf
    <3> QED BY <3>2 DEF S
  <2> QED BY <2>5, <2>6, <2>7, <2>8 DEF all, Segs
<1> QED BY <1>1, Invariant, PTL

\* Of every number of blobs, merging runs of two lists until one is left sorts them.
THEOREM FinishedIsSorted == Spec => []FinishedSorted
<1>1. IInv => FinishedSorted
  <2> SUFFICES ASSUME IInv, phase = "done", NEW g \in Sigs
               PROVE  IsSorted(m_assembler[g].finished, LAMBDA b, c : b.area >= c.area)
    BY DEF FinishedSorted
  <2>1. Descending(m_assembler[g].finished)
    BY DEF IInv, Over
  <2> QED BY <2>1 DEF Descending, IsSorted
<1> QED BY <1>1, Invariant, PTL

\* The end of a frame neither loses nor doubles a blob, of however many.
THEOREM FrameKeepsEveryBlob == Spec => FrameKeepsBlobs
<1> DEFINE A == phase = "frame" /\ phase' = "done" =>
       \A g \in Sigs :
         LET all == {b.segments : b \in ToSet(AllBlobs(g))} IN
           /\ all = {b.segments : b \in ToSet(m_assembler'[g].finished)}
           /\ Len(AllBlobs(g)) = Len(m_assembler'[g].finished)
<1>1. IInv /\ [Next]_vars => [A]_vars
  <2> SUFFICES ASSUME IInv, Next, phase = "frame", phase' = "done", NEW g \in Sigs
               PROVE  /\ {b.segments : b \in ToSet(AllBlobs(g))}
                         = {b.segments : b \in ToSet(m_assembler'[g].finished)}
                      /\ Len(AllBlobs(g)) = Len(m_assembler'[g].finished)
    OBVIOUS
  <2>1. EndOfFrame
    BY DEF Next, StartRow, Pixel, FilteredPixel, NextFrame
  <2>2. m_assembler'[g] = SortFinished(EndFrame(m_assembler[g]))
    BY <2>1 DEF EndOfFrame
  <2> DEFINE a == m_assembler[g]
             n == SortFinished(EndFrame(a))
             all == a.active \o a.finished
  <2>3. Working(a, {})
    BY DEF IInv, Fed, Ready
  <2>4. Len(n.finished) = Len(all) /\ SegmentLists(n.finished) = SegmentLists(all)
    BY <2>3, FrameEnds
  <2> QED BY <2>2, <2>4 DEF SegmentLists, AllBlobs
<1> QED BY <1>1, Invariant, PTL DEF Spec, FrameKeepsBlobs
=============================================================================
