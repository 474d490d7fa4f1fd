---------------------------- MODULE BlobAssembler ----------------------------
(***************************************************************************)
(* CBlobAssembler: blobs are grown from the segments of one signature,     *)
(* which come top to bottom.  An assembler is a record: its currentRow,    *)
(* the list activeBlobs, the index cur of currentBlob in it (Len + 1 when  *)
(* it is NULL; previousBlobPtr is always the link to it), and              *)
(* finishedBlobs.  A blob keeps its segments, as with recordSegments.      *)
(***************************************************************************)
EXTENDS Integers, SequencesExt, Loops

maxRowDelta == 1
NoRow == 511                                    \* SSegment::invalid_row
NoBottom == [row |-> NoRow, startCol |-> 0, endCol |-> 0]

\* Mutant: the ends are swapped.
Area_Swapped(s) == s.startCol - 1 - s.endCol

\* GetMoments: the columns from startCol to endCol.
Area(s) == s.endCol - s.startCol + 1

NewBlob == [left |-> 32767, top |-> 32767, right |-> -1, area |-> 0, segments |-> <<>>,
            lastBottom |-> NoBottom, nextBottom |-> NoBottom]

\* As constructed, and after Reset.
EmptyAssembler == [currentRow |-> -1, active |-> <<>>, cur |-> 1, finished |-> <<>>]

-----------------------------------------------------------------------------
(* One blob.                                                               *)

\* The row that was under construction is the bottom to attach to.
NewRow(b) ==
  IF b.nextBottom.row # NoRow
    THEN [b EXCEPT !.lastBottom = b.nextBottom, !.nextBottom.row = NoRow]
    ELSE b

\* Only updates left, top, and right.
UpdateBoundingBox(b, left, top, right) ==
  [b EXCEPT !.left = Min({@, left}), !.top = Min({@, top}), !.right = Max({@, right})]

\* The hull of the row under construction grows to the right.
AddToBlob(b, s) ==
  [UpdateBoundingBox(b, s.startCol, s.row, s.endCol) EXCEPT
     !.nextBottom = IF @.row = NoRow THEN s ELSE [@ EXCEPT !.endCol = s.endCol],
     !.area = @ + Area(s),
     !.segments = Append(@, s)]

\* Mutant: the surface to attach to stays that of the left blob.
Assimilate_KeepsSurface(b, f) ==
  [UpdateBoundingBox(b, f.left, f.top, f.right) EXCEPT
     !.area = @ + f.area, !.segments = @ \o f.segments]

\* Blob f, right of b, becomes part of it.
Assimilate(b, f) ==
  [UpdateBoundingBox(b, f.left, f.top, f.right) EXCEPT
     !.lastBottom.endCol = Max({@, f.lastBottom.endCol}),
     !.area = @ + f.area,
     !.segments = @ \o f.segments]

\* Blobs of one or two rows are given up.
Tall(b) == b.lastBottom.row - b.top > 1

-----------------------------------------------------------------------------
(* The active list and the blob under the cursor.                          *)

\* The blob at index i, if any, is too far above the row.
TooFar(a, i) ==
  /\ i <= Len(a.active)
  /\ a.currentRow - NewRow(a.active[i]).lastBottom.row > maxRowDelta

\* Such a blob leaves the list, as a finished one if it is tall.
Retire(i, a, turn) ==
  IF TooFar(a, i)
    THEN LET b == NewRow(a.active[i])
         IN [a EXCEPT !.active = RemoveAt(@, i), !.finished = IF Tall(b) THEN <<b>> \o @ ELSE @]
    ELSE a

\* From index i on blobs leave, up to the first that is near enough.
BlobNewRow(a, i) ==
  LET rest == Loop(Retire, i, a, 0, Len(a.active))
  IN IF i <= Len(rest.active) THEN [rest EXCEPT !.active[i] = NewRow(@)] ELSE rest

\* The current blob and the one after it are brought up to date.
RewindCurrent(a) ==
  LET first == BlobNewRow([a EXCEPT !.cur = 1], 1)
  IN IF first.active # <<>> THEN BlobNewRow(first, 2) ELSE first

\* Mutant: the blob after the current one is left as the last row left it.
AdvanceCurrent_NoNewRow(a) == [a EXCEPT !.cur = @ + 1]

\* The next blob, and the one after it is brought up to date.
AdvanceCurrent(a) ==
  LET next == [a EXCEPT !.cur = @ + 1]
  IN IF next.cur <= Len(next.active) THEN BlobNewRow(next, next.cur + 1) ELSE next

\* The cursor passes the blobs that end left of the segment.
Pass(s, a, turn) ==
  IF a.cur <= Len(a.active) /\ s.startCol > a.active[a.cur].lastBottom.endCol
    THEN AdvanceCurrent(a)
    ELSE a

Seek(a, s) == Loop(Pass, s, a, 0, Len(a.active))

\* Blobs to the right that the segment touches too become part of the current one.
Join(s, a, turn) ==
  IF a.cur < Len(a.active) /\ s.endCol >= a.active[a.cur + 1].lastBottom.startCol
    THEN LET joined == [a.active EXCEPT ![a.cur] = Assimilate(@, a.active[a.cur + 1])]
         IN BlobNewRow([a EXCEPT !.active = RemoveAt(joined, a.cur + 1)], a.cur + 1)
    ELSE a

Absorb(a, s) == Loop(Join, s, a, 0, Len(a.active))

\* Mutant: the new blob goes behind the current one.
InsertNew_Behind(a, s) ==
  [a EXCEPT !.active = InsertAt(@, Min({a.cur, Len(@)} ) + 1, AddToBlob(NewBlob, s))]

\* A segment that touches no blob starts one, before the current blob.
InsertNew(a, s) ==
  [a EXCEPT !.active = InsertAt(@, a.cur, AddToBlob(NewBlob, s)), !.cur = @ + 1]

\* Add: the assembler and the result it leaves.  heapFull says that new fails.
Add(a, s, heapFull) ==
  LET rewound == IF s.row = a.currentRow THEN a ELSE RewindCurrent([a EXCEPT !.currentRow = s.row])
      at == Seek(rewound, s)
      touches == at.cur <= Len(at.active) /\ s.endCol >= at.active[at.cur].lastBottom.startCol
  IN IF touches
       THEN [asm |-> Absorb([at EXCEPT !.active[at.cur] = AddToBlob(@, s)], s), res |-> 0]
       ELSE IF heapFull THEN [asm |-> at, res |-> -1]
                        ELSE [asm |-> InsertNew(at, s), res |-> 0]

-----------------------------------------------------------------------------
(* The end of the frame.                                                   *)

\* Mutant: a blob's last row stays under construction.
EndFrame_NoNewRow(a) == [a EXCEPT !.active = <<>>, !.finished = Reverse(a.active) \o @]

\* All that is active is finished, of whatever height.
EndFrame(a) ==
  [a EXCEPT !.active = <<>>,
            !.finished = Reverse([k \in DOMAIN a.active |-> NewRow(a.active[k])]) \o @]

\* At most n elements of s, and the others.
Front_n(s, n) == SubSeq(s, 1, Min({n, Len(s)}))
Rest_n(s, n) == SubSeq(s, n + 1, Len(s))

\* The next of two sorted runs is old2's only if that is larger.
Choose(sizes, m, turn) ==
  IF \/ m.old1 = <<>>
     \/ m.old2 # <<>> /\ Head(m.old2).area > Head(m.old1).area
    THEN [m EXCEPT !.new = Append(@, Head(m.old2)), !.old2 = Tail(@)]
    ELSE [m EXCEPT !.new = Append(@, Head(m.old1)), !.old1 = Tail(@)]

MergeLists(old1, old2) ==
  Loop(Choose, 0, [old1 |-> old1, old2 |-> old2, new |-> <<>>], 0, Len(old1) + Len(old2)).new

\* Runs of n of both lists are merged, in turn, into two new lists.
MergeRuns(n, m, turn) ==
  LET merged == MergeLists(Front_n(m.old1, n), Front_n(m.old2, n))
  IN [old1 |-> Rest_n(m.old1, n), old2 |-> Rest_n(m.old2, n),
      new1 |-> IF turn % 2 = 1 THEN m.new1 \o merged ELSE m.new1,
      new2 |-> IF turn % 2 = 0 THEN m.new2 \o merged ELSE m.new2]

\* One pass, while a list has something left.
MergePass(old1, old2, n) ==
  Loop(MergeRuns, n, [old1 |-> old1, old2 |-> old2, new1 |-> <<>>, new2 |-> <<>>],
       0, Max({Len(old1), Len(old2)}))

\* Runs of twice the size, until a pass makes one list of all.
SortPass(all, m, turn) ==
  IF m.second = <<>>
    THEN m
    ELSE LET pass == MergePass(m.first, m.second, m.blocksize)
         IN [first |-> pass.new1, second |-> pass.new2, blocksize |-> 2 * m.blocksize]

SortLists(first, second) ==
  Loop(SortPass, 0, [first |-> first, second |-> second, blocksize |-> 1],
       0, Len(first) + Len(second)).first

\* Mutant: a split in halves that forgets the last blob of an odd number.
SplitList_LosesLast(all) ==
  LET half == Len(all) \div 2 IN <<Front_n(all, half), SubSeq(all, half + 1, 2 * half)>>

\* The halves of a list; one blob is the first half, of an odd number the second
\* half has more.
SplitList(all) ==
  LET half == Max({1, Len(all) \div 2}) IN <<Front_n(all, half), Rest_n(all, half)>>

\* Mutant: one pass of merging.
SortFinished_OnePass(a) ==
  LET halves == SplitList(a.finished)
      new == MergePass(halves[1], halves[2], 1)
  IN [a EXCEPT !.finished = new.new1 \o new.new2]

\* In order of descending area.
SortFinished(a) ==
  LET halves == SplitList(a.finished)
  IN [a EXCEPT !.finished = SortLists(halves[1], halves[2])]

-----------------------------------------------------------------------------
(* What the properties and the proofs say of blobs.                        *)

Bottom == [row : Nat, startCol : Int, endCol : Int]

BlobOK(b) ==
  /\ b.left \in Int /\ b.top \in Nat /\ b.right \in Int /\ b.area \in Nat
  /\ b.segments \in Seq(Bottom) /\ b.lastBottom \in Bottom /\ b.nextBottom \in Bottom

\* Where the next segments attach to a blob.
Surface(b) == IF b.nextBottom.row = NoRow THEN b.lastBottom ELSE b.nextBottom

\* Segments of consecutive rows.
Touch(s, t) == t.row = s.row + 1 /\ s.startCol <= t.endCol /\ t.startCol <= s.endCol
=============================================================================
