------------------------------ MODULE RunLength ------------------------------
(***************************************************************************)
(* The segments of a frame: Blobs::runlengthAnalysis reads the values that *)
(* Pixy's other core queues (the start of a row, a coloured pixel, the end *)
(* of the frame), joins pixels of one signature to segments and gives them *)
(* to the assembler of that signature.  One step per value; the queue      *)
(* itself is Qqueue.                                                       *)
(***************************************************************************)
EXTENDS BlobAssembler

CONSTANTS
  Coloured,     \* the <<signature, column>> pairs that may occur; the other core sends no
                \* column 0, nor a pixel before the start of the first row
  MaxRows,      \* bound: rows of a frame
  MaxFiltered,  \* bound: pixels of a frame the runtime signature refuses
  HeapFails     \* may new fail?

MaxCol == 1022    \* an endCol, one more than a column, has 10 bits

ASSUME SegmentsAssumption ==
  /\ Coloured \subseteq (1..7) \X (1..MaxCol) /\ MaxRows \in Nat /\ MaxRows < NoRow /\ MaxFiltered \in Nat
  /\ HeapFails \in BOOLEAN

Sigs == {c[1] : c \in Coloured}
Columns == {c[2] : c \in Coloured}

NoSig == 0
NoCol == 65535
MaxGap == 5     \* pixels of one signature that are no further apart are joined

VARIABLES
  phase,                  \* "frame", or "done" between runlengthAnalysis and Reset
  row, res,               \* locals of runlengthAnalysis
  prevSig, prevStartCol,  \* the last pixel that counted
  segment,                \* segmentSig, segmentStartCol, segmentEndCol
  m_assembler,
  lastCol, filtered,      \* external: the column sent last in this row, pixels refused so far
  owed                    \* history: pixels that counted and are in no segment handed on yet

vars == <<phase, row, res, prevSig, prevStartCol, segment, m_assembler, lastCol, filtered, owed>>

NoSegment == [sig |-> NoSig, startCol |-> 0, endCol |-> 0]

Init ==
  /\ phase = "frame" /\ row = -1 /\ res = 0
  /\ prevSig = NoSig /\ prevStartCol = NoCol /\ segment = NoSegment
  /\ m_assembler = [g \in Sigs |-> EmptyAssembler]
  /\ lastCol = NoCol /\ filtered = 0 /\ owed = {}

-----------------------------------------------------------------------------
\* A segment goes to the assembler of its signature: segment k of those given.  new may
\* fail for one and not for the other.
HandleSegment(given, st, k) ==
  LET s == given.segs[k]
      added == Add(st.asm[s.sig], [row |-> given.row, startCol |-> s.startCol, endCol |-> s.endCol],
                   given.heapFull[k])
  IN [asm |-> [st.asm EXCEPT ![s.sig] = added.asm], res |-> added.res,
      owed |-> {p \in st.owed : ~(/\ p.sig = s.sig /\ p.row = given.row
                                  /\ p.col \in s.startCol..s.endCol)}]

\* What handing on segments, from left to right, leaves: of the results the last.
HandleSegments(segs, heapFull) ==
  Loop(HandleSegment, [segs |-> segs, row |-> row, heapFull |-> heapFull],
       [asm |-> m_assembler, res |-> res, owed |-> owed], 0, Len(segs))

\* Mutant: handleSegment gets the length for the last column's offset.
Pending_Short == IF segment.sig = NoSig THEN <<>>
                 ELSE <<[segment EXCEPT !.startCol = @ - 1, !.endCol = @ - 1]>>

\* The segment under construction, as it is handed on: from a column before its first.
Pending == IF segment.sig = NoSig THEN <<>> ELSE <<[segment EXCEPT !.startCol = @ - 1]>>

\* handleSegment(sig, row, startCol-1, 2).
Single(sig, col) == [sig |-> sig, startCol |-> col - 1, endCol |-> col + 1]

HandOn(segs) ==
  \E heapFull \in [1..Len(segs) -> {FALSE, HeapFails}] :
    LET st == HandleSegments(segs, heapFull)
    IN m_assembler' = st.asm /\ res' = st.res /\ owed' = st.owed

\* The other core sends no value twice and the columns of a row from left to right.
NextColumn(col) == lastCol = NoCol \/ col > lastCol

\* The start of a row ends the segment under construction.
StartRow ==
  /\ phase = "frame" /\ res >= 0 /\ row < MaxRows - 1
  /\ HandOn(Pending)
  /\ segment' = NoSegment
  /\ prevSig' = NoSig /\ prevStartCol' = NoCol
  /\ row' = row + 1 /\ lastCol' = NoCol
  /\ UNCHANGED <<phase, filtered>>

\* Is the pixel near enough to the last one that counted?  (The difference is unsigned.)
Merges(sig, col) == col - prevStartCol \in 0..MaxGap /\ prevSig = sig

\* A pixel within the bounds of its signature: it goes on with a segment or begins
\* one, or ends the one under construction and is a segment of its own.
Pixel(sig, col) ==
  /\ phase = "frame" /\ res >= 0 /\ row >= 0 /\ NextColumn(col)
  /\ \/ /\ Merges(sig, col)
        /\ segment' = IF segment.sig = NoSig
                        THEN [sig |-> sig, startCol |-> prevStartCol, endCol |-> col]
                        ELSE [segment EXCEPT !.endCol = col]
        /\ owed' = owed \cup {[sig |-> sig, row |-> row, col |-> col]}
        /\ UNCHANGED <<m_assembler, res>>
     \/ /\ ~Merges(sig, col)
        /\ segment' = NoSegment
        /\ HandOn(Append(Pending, Single(sig, col)))
  /\ prevSig' = sig /\ prevStartCol' = col /\ lastCol' = col
  /\ UNCHANGED <<phase, row, filtered>>

\* A pixel the runtime signature refuses ends the segment under construction; the
\* last pixel that counted stays what it was.
FilteredPixel(col) ==
  /\ phase = "frame" /\ res >= 0 /\ row >= 0 /\ NextColumn(col) /\ filtered < MaxFiltered
  /\ HandOn(Pending)
  /\ segment' = NoSegment
  /\ lastCol' = col /\ filtered' = filtered + 1
  /\ UNCHANGED <<phase, row, prevSig, prevStartCol>>

\* endFrame: the segment under construction is not handed on.  It comes at the end
\* of the frame, or when the queue overran; after a failed Add nothing else counts.
EndOfFrame ==
  /\ phase = "frame"
  /\ phase' = "done"
  /\ m_assembler' = [g \in Sigs |-> SortFinished(EndFrame(m_assembler[g]))]
  /\ UNCHANGED <<row, res, prevSig, prevStartCol, segment, lastCol, filtered, owed>>

\* blobify has copied the blobs (or the queue overran) and resets the assemblers; the
\* next runlengthAnalysis begins.
NextFrame ==
  /\ phase = "done"
  /\ phase' = "frame" /\ row' = -1 /\ res' = 0
  /\ prevSig' = NoSig /\ prevStartCol' = NoCol /\ segment' = NoSegment
  /\ m_assembler' = [g \in Sigs |-> EmptyAssembler]
  /\ lastCol' = NoCol /\ filtered' = 0 /\ owed' = {}

Next ==
  \/ StartRow
  \/ \E c \in Coloured : Pixel(c[1], c[2]) \/ FilteredPixel(c[2])
  \/ EndOfFrame
  \/ NextFrame

Spec == Init /\ [][Next]_vars

-----------------------------------------------------------------------------
(* Properties.                                                             *)

\* Every variable has its type.
TypeOK ==
  /\ phase \in {"frame", "done"} /\ row \in -1..MaxRows - 1 /\ res \in {0, -1}
  /\ prevSig \in Sigs \cup {NoSig} /\ prevStartCol \in Columns \cup {NoCol}
  /\ segment \in [sig : Sigs \cup {NoSig}, startCol : Columns \cup {0}, endCol : Columns \cup {0}]
  /\ \A g \in Sigs : LET a == m_assembler[g] IN
       /\ a.currentRow \in -1..MaxRows - 1
       /\ a.active # <<>> => a.cur \in 1..Len(a.active) + 1
       /\ \A b \in ToSet(a.active) \cup ToSet(a.finished) : BlobOK(b)
  /\ lastCol \in Columns \cup {NoCol} /\ filtered \in 0..MaxFiltered

AllBlobs(g) == m_assembler[g].active \o m_assembler[g].finished

\* Segments of one signature that touch in consecutive rows are in one blob, however
\* the segments of a row overlap each other and whichever blobs merge.
NeverSplit ==
  \A g \in Sigs : LET blobs == AllBlobs(g) IN
    \A i, j \in DOMAIN blobs : i # j =>
      \A s \in ToSet(blobs[i].segments), t \in ToSet(blobs[j].segments) : ~Touch(s, t)

\* The current blob and the one after it have had NewRow() for the current row and
\* still belong on the active list, which is what Add relies on; a blob to be
\* assimilated has no segment in the current row, which Assimilate relies on.
CurrentIsFresh ==
  \A g \in Sigs : LET a == m_assembler[g] IN
    \A k \in {a.cur, a.cur + 1} \cap DOMAIN a.active :
      /\ a.active[k].nextBottom.row \in {NoRow} \cup (IF k = a.cur THEN {a.currentRow} ELSE {})
      /\ a.currentRow - a.active[k].lastBottom.row <= maxRowDelta

\* Active blobs are in left to right order.
ActiveOrdered ==
  \A g \in Sigs : LET active == m_assembler[g].active IN
    \A i, j \in DOMAIN active : i < j => Surface(active[i]).startCol <= Surface(active[j]).startCol

\* The box blobify reads from a finished blob is the box of its segments.
BoxIsExact ==
  \A g \in Sigs : \A b \in ToSet(m_assembler[g].finished) : LET all == ToSet(b.segments) IN
    /\ b.left = Min({s.startCol : s \in all}) /\ b.right = Max({s.endCol : s \in all})
    /\ b.top = Min({s.row : s \in all}) /\ b.lastBottom.row = Max({s.row : s \in all})

\* blobify finds the blobs of a signature in order of descending area.
FinishedSorted ==
  phase = "done" => \A g \in Sigs : IsSorted(m_assembler[g].finished, LAMBDA b, c : b.area >= c.area)

\* Until the frame ends, every pixel that counted is in a segment that was handed on or
\* is under construction: none is lost when a segment, a row or a signature ends.  (At
\* the end of the frame the segment under construction is dropped: endFrame.)
PixelsKept ==
  phase = "frame" =>
    \A p \in owed : /\ p.sig = segment.sig /\ p.row = row
                    /\ p.col \in segment.startCol..segment.endCol

\* The end of a frame neither loses nor doubles a blob.
FrameKeepsBlobs ==
  [][phase = "frame" /\ phase' = "done" =>
       \A g \in Sigs :
         LET all == {b.segments : b \in ToSet(AllBlobs(g))} IN
           /\ all = {b.segments : b \in ToSet(m_assembler'[g].finished)}
           /\ Len(AllBlobs(g)) = Len(m_assembler'[g].finished)]_vars
=============================================================================
