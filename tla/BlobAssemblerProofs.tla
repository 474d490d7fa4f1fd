------------------------ MODULE BlobAssemblerProofs ------------------------
(***************************************************************************)
(* What is proved of CBlobAssembler for segments that come row by row and  *)
(* from left to right: however they overlap and whichever blobs merge, the *)
(* blobs are the connected sets of segments, their boxes are exact, and    *)
(* the active list stays in order.                                         *)
(***************************************************************************)
EXTENDS BlobAssembler, FiniteSetTheorems, FunctionTheorems, TLAPS

Retiring == INSTANCE Recursion WITH Step <- Retire
Passing == INSTANCE Recursion WITH Step <- Pass
Joining == INSTANCE Recursion WITH Step <- Join
Choosing == INSTANCE Recursion WITH Step <- Choose
Merging == INSTANCE Recursion WITH Step <- MergeRuns
Sorting == INSTANCE Recursion WITH Step <- SortPass

-----------------------------------------------------------------------------
(* Lists.                                                                  *)

LEMMA Concat ==
  ASSUME NEW S, NEW s \in Seq(S), NEW t \in Seq(S)
  PROVE  /\ s \o t \in Seq(S) /\ Len(s \o t) = Len(s) + Len(t)
         /\ \A j \in 1..Len(s) + Len(t) : (s \o t)[j] = IF j <= Len(s) THEN s[j] ELSE t[j - Len(s)]
OBVIOUS

LEMMA Removed ==
  ASSUME NEW S, NEW s \in Seq(S), NEW k \in 1..Len(s)
  PROVE  /\ RemoveAt(s, k) \in Seq(S) /\ Len(RemoveAt(s, k)) = Len(s) - 1
         /\ \A j \in 1..Len(s) - 1 : RemoveAt(s, k)[j] = s[IF j < k THEN j ELSE j + 1]
<1> DEFINE front == SubSeq(s, 1, k - 1)  back == SubSeq(s, k + 1, Len(s))
<1>1. front \in Seq(S) /\ Len(front) = k - 1 /\ \A j \in 1..k - 1 : front[j] = s[j]
  OBVIOUS
<1>2. back \in Seq(S) /\ Len(back) = Len(s) - k /\ \A j \in 1..Len(s) - k : back[j] = s[k + j]
  OBVIOUS
<1>3. RemoveAt(s, k) = front \o back
  BY DEF RemoveAt
<1> HIDE DEF front, back
<1>4. \A j \in 1..Len(s) - 1 : (front \o back)[j] = IF j < k THEN front[j] ELSE back[j - (k - 1)]
  BY <1>1, <1>2
<1>5. ASSUME NEW j \in 1..Len(s) - 1 PROVE RemoveAt(s, k)[j] = s[IF j < k THEN j ELSE j + 1]
  <2>1. CASE j < k
    BY <1>1, <1>3, <1>4, <2>1
  <2>2. CASE ~(j < k)
    <3>1. j - (k - 1) \in 1..Len(s) - k /\ k + (j - (k - 1)) = j + 1
      BY <2>2
    <3> QED BY <1>2, <1>3, <1>4, <2>2, <3>1
  <2> QED BY <2>1, <2>2
<1>6. (front \o back) \in Seq(S) /\ Len(front \o back) = Len(s) - 1
  BY <1>1, <1>2
<1> QED BY <1>3, <1>5, <1>6

LEMMA Inserted ==
  ASSUME NEW S, NEW s \in Seq(S), NEW k \in 1..Len(s) + 1, NEW e \in S
  PROVE  /\ InsertAt(s, k, e) \in Seq(S) /\ Len(InsertAt(s, k, e)) = Len(s) + 1
         /\ \A j \in 1..Len(s) + 1 :
              InsertAt(s, k, e)[j] = IF j < k THEN s[j] ELSE IF j = k THEN e ELSE s[j - 1]
<1> DEFINE front == SubSeq(s, 1, k - 1)  back == SubSeq(s, k, Len(s))
<1>1. front \in Seq(S) /\ Len(front) = k - 1 /\ \A j \in 1..k - 1 : front[j] = s[j]
  OBVIOUS
<1>2. back \in Seq(S) /\ Len(back) = Len(s) - k + 1 /\ \A j \in 1..Len(s) - k + 1 : back[j] = s[k + j - 1]
  OBVIOUS
<1>3. InsertAt(s, k, e) = front \o <<e>> \o back
  BY DEF InsertAt
<1> HIDE DEF front, back
<1> DEFINE start == front \o <<e>>
<1>4. /\ start \in Seq(S) /\ Len(start) = k
      /\ \A j \in 1..k : start[j] = IF j < k THEN s[j] ELSE e
  BY <1>1
<1> HIDE DEF start
<1>5. /\ start \o back \in Seq(S) /\ Len(start \o back) = Len(s) + 1
      /\ \A j \in 1..Len(s) + 1 : (start \o back)[j] = IF j <= k THEN start[j] ELSE back[j - k]
  <2>1. Len(s) \in Nat /\ Len(start) + Len(back) = Len(s) + 1
    BY <1>2, <1>4
  <2>2. /\ start \o back \in Seq(S) /\ Len(start \o back) = Len(start) + Len(back)
        /\ \A j \in 1..Len(start) + Len(back) :
             (start \o back)[j] = IF j <= Len(start) THEN start[j] ELSE back[j - Len(start)]
    BY <1>2, <1>4, Concat, Zenon
  <2> QED BY <1>4, <2>1, <2>2
<1>6. ASSUME NEW j \in k + 1..Len(s) + 1 PROVE back[j - k] = s[j - 1]
  <2>1. j - k \in 1..Len(s) - k + 1 /\ k + (j - k) - 1 = j - 1
    OBVIOUS
  <2> QED BY <1>2, <2>1
<1>7. ASSUME NEW j \in 1..Len(s) + 1
      PROVE  (start \o back)[j] = IF j < k THEN s[j] ELSE IF j = k THEN e ELSE s[j - 1]
  <2>1. CASE j <= k
    BY <1>4, <1>5, <2>1
  <2>2. CASE ~(j <= k)
    BY <1>5, <1>6, <2>2
  <2> QED BY <2>1, <2>2
<1>8. InsertAt(s, k, e) = start \o back
  BY <1>3 DEF start
<1> QED BY <1>5, <1>7, <1>8

LEMMA SetOfAppend ==
  ASSUME NEW S, NEW s \in Seq(S), NEW e \in S
  PROVE  ToSet(Append(s, e)) = ToSet(s) \cup {e}
<1>1. /\ DOMAIN s = 1..Len(s) /\ DOMAIN Append(s, e) = 1..Len(s) + 1 /\ Len(s) \in Nat
      /\ \A i \in 1..Len(s) : Append(s, e)[i] = s[i]
      /\ Append(s, e)[Len(s) + 1] = e
  OBVIOUS
<1> QED BY <1>1 DEF ToSet

LEMMA SetOfConcat ==
  ASSUME NEW S, NEW s \in Seq(S), NEW t \in Seq(S)
  PROVE  ToSet(s \o t) = ToSet(s) \cup ToSet(t)
<1>1. /\ DOMAIN s = 1..Len(s) /\ DOMAIN t = 1..Len(t) /\ Len(s) \in Nat /\ Len(t) \in Nat
      /\ DOMAIN (s \o t) = 1..Len(s) + Len(t)
      /\ \A i \in 1..Len(s) : (s \o t)[i] = s[i]
      /\ \A i \in 1..Len(s) + Len(t) : i > Len(s) => (s \o t)[i] = t[i - Len(s)]
  OBVIOUS
<1>2. \A i \in 1..Len(t) : Len(s) + i \in 1..Len(s) + Len(t) /\ (s \o t)[Len(s) + i] = t[i]
  BY <1>1
<1>3. \A i \in 1..Len(s) + Len(t) : i <= Len(s) \/ i - Len(s) \in 1..Len(t)
  BY <1>1
<1>4. ASSUME NEW x \in ToSet(s \o t) PROVE x \in ToSet(s) \cup ToSet(t)
  <2>1. PICK i \in 1..Len(s) + Len(t) : x = (s \o t)[i]
    BY <1>1, <1>4 DEF ToSet
  <2>2. CASE i <= Len(s)
    BY <1>1, <2>1, <2>2 DEF ToSet
  <2>3. CASE ~(i <= Len(s))
    <3>1. i - Len(s) \in 1..Len(t)
      BY <1>3, <2>3
    <3>2. x = t[i - Len(s)]
      BY <1>1, <2>1, <2>3
    <3> QED BY <1>1, <3>1, <3>2 DEF ToSet
  <2> QED BY <2>2, <2>3
<1>5. ASSUME NEW x \in ToSet(s) PROVE x \in ToSet(s \o t)
  <2>1. PICK i \in 1..Len(s) : x = s[i]
    BY <1>1, <1>5 DEF ToSet
  <2>2. i \in 1..Len(s) + Len(t)
    BY <1>1
  <2> QED BY <1>1, <2>1, <2>2 DEF ToSet
<1>6. ASSUME NEW x \in ToSet(t) PROVE x \in ToSet(s \o t)
  <2>1. PICK i \in 1..Len(t) : x = t[i]
    BY <1>1, <1>6 DEF ToSet
  <2> QED BY <1>1, <1>2, <2>1 DEF ToSet
<1> QED BY <1>4, <1>5, <1>6

LEMMA Extremes ==
  ASSUME NEW x \in Int, NEW y \in Int
  PROVE  /\ Max({x, y}) = IF x >= y THEN x ELSE y
         /\ Min({x, y}) = IF x <= y THEN x ELSE y
<1>1. \E m \in {x, y} : \A n \in {x, y} : m >= n
  <2>1. CASE x >= y
    BY <2>1
  <2>2. CASE ~(x >= y)
    BY <2>2
  <2> QED BY <2>1, <2>2
<1>2. \E m \in {x, y} : \A n \in {x, y} : m <= n
  <2>1. CASE x <= y
    BY <2>1
  <2>2. CASE ~(x <= y)
    BY <2>2
  <2> QED BY <2>1, <2>2
<1>3. Max({x, y}) \in {x, y} /\ \A n \in {x, y} : Max({x, y}) >= n
  BY <1>1 DEF Max
<1>4. Min({x, y}) \in {x, y} /\ \A n \in {x, y} : Min({x, y}) <= n
  BY <1>2 DEF Min
<1> QED BY <1>3, <1>4

-----------------------------------------------------------------------------
(* One blob.                                                               *)

BlobRecords ==
  [left : Int, top : Nat, right : Int, area : Nat, segments : Seq(Bottom),
   lastBottom : Bottom, nextBottom : Bottom]

\* What is given to Add: columns have 10 bits, rows 9.
Segments == {s \in Bottom : s.row < NoRow /\ 0 <= s.startCol /\ s.startCol <= s.endCol /\ s.endCol < 1024}

Segs(b) == ToSet(b.segments)

\* The row s is in, if it is that of the hull h, lies within the hull.
Within(s, h) == s.row = h.row => h.startCol <= s.startCol /\ s.endCol <= h.endCol

\* The box is that of the segments.
Boxed(b) ==
  /\ \A s \in Segs(b) : b.left <= s.startCol /\ b.top <= s.row /\ s.endCol <= b.right
  /\ \E s \in Segs(b) : b.left = s.startCol
  /\ \E s \in Segs(b) : b.top = s.row
  /\ \E s \in Segs(b) : b.right = s.endCol

\* The surface is the hull of the segments of the last row, and under a row that
\* is under construction lastBottom is the hull of the row before it.
Hulls(b) ==
  /\ Surface(b).startCol <= Surface(b).endCol
  /\ \E s \in Segs(b) : Surface(b).row = s.row
  /\ \A s \in Segs(b) : s.row <= Surface(b).row /\ Within(s, Surface(b))
  /\ b.nextBottom.row # NoRow =>
       /\ b.lastBottom.row = NoRow \/ b.lastBottom.row < b.nextBottom.row
       /\ \A s \in Segs(b) : s.row # b.nextBottom.row =>
            b.lastBottom.row # NoRow /\ s.row <= b.lastBottom.row /\ Within(s, b.lastBottom)

Sound(b) == b \in BlobRecords /\ Segs(b) \subseteq Segments /\ Boxed(b) /\ Hulls(b)

LEMMA SurfaceRow ==
  ASSUME NEW b, Sound(b)
  PROVE  /\ Surface(b) \in Bottom /\ Surface(b).row < NoRow
         /\ b.nextBottom.row = NoRow => b.lastBottom.row < NoRow /\ Surface(b) = b.lastBottom
         /\ b.nextBottom.row # NoRow => Surface(b) = b.nextBottom /\ b.nextBottom.row < NoRow
BY DEF Sound, Hulls, Surface, BlobRecords, Segments

LEMMA NewRowSound ==
  ASSUME NEW b, Sound(b)
  PROVE  /\ Sound(NewRow(b)) /\ Segs(NewRow(b)) = Segs(b)
         /\ NewRow(b).nextBottom.row = NoRow
         /\ NewRow(b).lastBottom = Surface(b) /\ Surface(NewRow(b)) = Surface(b)
<1>1. b \in BlobRecords
  BY DEF Sound
<1>2. CASE b.nextBottom.row = NoRow
  BY <1>2 DEF NewRow, Surface
<1>3. CASE b.nextBottom.row # NoRow
  <2> DEFINE n == NewRow(b)
  <2>1. n = [b EXCEPT !.lastBottom = b.nextBottom, !.nextBottom.row = NoRow]
    BY <1>3 DEF NewRow
  <2>2. /\ n \in BlobRecords
        /\ n.left = b.left /\ n.top = b.top /\ n.right = b.right /\ n.segments = b.segments
        /\ n.lastBottom = b.nextBottom /\ n.nextBottom.row = NoRow
    <3> DEFINE open == [b.nextBottom EXCEPT !.row = NoRow]
    <3>1. b.nextBottom \in Bottom
      BY <1>1 DEF BlobRecords
    <3>2. open \in Bottom /\ open.row = NoRow
      BY <3>1 DEF Bottom, NoRow
    <3>3. n = [b EXCEPT !.lastBottom = b.nextBottom, !.nextBottom = open]
      BY <1>1, <2>1 DEF BlobRecords
    <3> HIDE DEF open, n
    <3> QED BY <1>1, <3>1, <3>2, <3>3 DEF BlobRecords
  <2>3. Segs(n) = Segs(b)
    BY <2>2 DEF Segs
  <2> HIDE DEF n
  <2>4. Surface(n) = b.nextBottom /\ Surface(b) = b.nextBottom
    BY <1>3, <2>2 DEF Surface
  <2>5. Hulls(n)
    BY <2>2, <2>3, <2>4 DEF Hulls, Sound
  <2>6. Boxed(n)
    BY <2>2, <2>3 DEF Boxed, Sound
  <2>7. Sound(n)
    BY <2>2, <2>3, <2>5, <2>6 DEF Sound
  <2> QED BY <2>2, <2>3, <2>4, <2>7 DEF n
<1> QED BY <1>2, <1>3

LEMMA AreaOfSegment ==
  ASSUME NEW s \in Segments
  PROVE  Area(s) \in Nat
BY DEF Area, Segments, Bottom

\* What AddToBlob writes, field by field.
LEMMA AddToBlobFields ==
  ASSUME NEW b \in BlobRecords, NEW s \in Segments
  PROVE  LET n == AddToBlob(b, s) IN
         /\ n \in BlobRecords
         /\ n.left = (IF b.left <= s.startCol THEN b.left ELSE s.startCol)
         /\ n.top = (IF b.top <= s.row THEN b.top ELSE s.row)
         /\ n.right = (IF b.right >= s.endCol THEN b.right ELSE s.endCol)
         /\ Segs(n) = Segs(b) \cup {s}
         /\ n.lastBottom = b.lastBottom
         /\ b.nextBottom.row = NoRow => n.nextBottom = s
         /\ b.nextBottom.row # NoRow =>
              /\ n.nextBottom.row = b.nextBottom.row
              /\ n.nextBottom.startCol = b.nextBottom.startCol
              /\ n.nextBottom.endCol = s.endCol
<1> DEFINE left == Min({b.left, s.startCol})
           top == Min({b.top, s.row})
           right == Max({b.right, s.endCol})
           n == AddToBlob(b, s)
           next == IF b.nextBottom.row = NoRow THEN s ELSE [b.nextBottom EXCEPT !.endCol = s.endCol]
<1>1. /\ b.left \in Int /\ b.top \in Nat /\ b.right \in Int /\ b.area \in Nat
      /\ b.segments \in Seq(Bottom) /\ b.lastBottom \in Bottom /\ b.nextBottom \in Bottom
      /\ s \in Bottom /\ s.startCol \in Int /\ s.row \in Nat /\ s.endCol \in Int
  BY DEF BlobRecords, Segments, Bottom
<1>2. /\ left = (IF b.left <= s.startCol THEN b.left ELSE s.startCol)
      /\ top = (IF b.top <= s.row THEN b.top ELSE s.row)
      /\ right = (IF b.right >= s.endCol THEN b.right ELSE s.endCol)
  <2>1. b.top \in Int /\ s.row \in Int
    BY <1>1
  <2>2. Min({b.left, s.startCol}) = (IF b.left <= s.startCol THEN b.left ELSE s.startCol)
    BY <1>1, Extremes, Zenon
  <2>3. Min({b.top, s.row}) = (IF b.top <= s.row THEN b.top ELSE s.row)
    BY <2>1, Extremes, Zenon
  <2>4. Max({b.right, s.endCol}) = (IF b.right >= s.endCol THEN b.right ELSE s.endCol)
    BY <1>1, Extremes, Zenon
  <2> QED BY <2>2, <2>3, <2>4
<1> HIDE DEF left, top, right
<1>3. n = [[b EXCEPT !.left = left, !.top = top, !.right = right] EXCEPT
             !.nextBottom = next, !.area = b.area + Area(s), !.segments = Append(b.segments, s)]
  BY <1>1 DEF AddToBlob, UpdateBoundingBox, left, top, right, BlobRecords
<1>4. next \in Bottom
  BY <1>1 DEF Bottom
<1>5. left \in Int /\ top \in Nat /\ right \in Int /\ b.area + Area(s) \in Nat
  BY <1>1, <1>2, AreaOfSegment
<1>6. Append(b.segments, s) \in Seq(Bottom) /\ ToSet(Append(b.segments, s)) = Segs(b) \cup {s}
  BY <1>1, SetOfAppend DEF Segs
<1> HIDE DEF n, next
<1>7. /\ n \in BlobRecords /\ n.left = left /\ n.top = top /\ n.right = right
      /\ n.segments = Append(b.segments, s) /\ n.lastBottom = b.lastBottom /\ n.nextBottom = next
  BY <1>1, <1>3, <1>4, <1>5, <1>6 DEF BlobRecords
<1>8. Segs(n) = Segs(b) \cup {s}
  BY <1>6, <1>7 DEF Segs
<1>9. /\ b.nextBottom.row = NoRow => next = s
      /\ b.nextBottom.row # NoRow =>
           /\ next.row = b.nextBottom.row
           /\ next.startCol = b.nextBottom.startCol
           /\ next.endCol = s.endCol
  BY <1>1 DEF next, Bottom
<1>10. n = AddToBlob(b, s)
  BY DEF n
<1> QED BY <1>2, <1>7, <1>8, <1>9, <1>10

\* A blob whose segments lie above the row, or in it and not right of the new one.
LEMMA AddSound ==
  ASSUME NEW b, Sound(b), NEW s \in Segments,
         b.nextBottom.row = NoRow => b.lastBottom.row < s.row,
         b.nextBottom.row # NoRow => /\ b.nextBottom.row = s.row
                                     /\ b.nextBottom.startCol <= s.startCol
                                     /\ b.nextBottom.endCol <= s.endCol
  PROVE  LET n == AddToBlob(b, s) IN
         /\ Sound(n) /\ Segs(n) = Segs(b) \cup {s} /\ n.lastBottom = b.lastBottom
         /\ n.nextBottom.row = s.row /\ n.nextBottom.startCol <= s.startCol
         /\ n.nextBottom.endCol = s.endCol
<1> DEFINE n == AddToBlob(b, s)
<1>1. b \in BlobRecords /\ Boxed(b) /\ Hulls(b) /\ Segs(b) \subseteq Segments
  BY DEF Sound
<1>2. /\ n \in BlobRecords
      /\ n.left = (IF b.left <= s.startCol THEN b.left ELSE s.startCol)
      /\ n.top = (IF b.top <= s.row THEN b.top ELSE s.row)
      /\ n.right = (IF b.right >= s.endCol THEN b.right ELSE s.endCol)
      /\ Segs(n) = Segs(b) \cup {s}
      /\ n.lastBottom = b.lastBottom
      /\ b.nextBottom.row = NoRow => n.nextBottom = s
      /\ b.nextBottom.row # NoRow =>
           /\ n.nextBottom.row = b.nextBottom.row
           /\ n.nextBottom.startCol = b.nextBottom.startCol
           /\ n.nextBottom.endCol = s.endCol
  BY <1>1, AddToBlobFields, Zenon
<1> HIDE DEF n
<1>3. /\ s.row \in Nat /\ s.row < NoRow /\ s.startCol \in Int /\ s.endCol \in Int
      /\ s.startCol <= s.endCol
      /\ \A t \in Segs(b) : t.row \in Nat /\ t.row < NoRow /\ t.startCol \in Int /\ t.endCol \in Int
      /\ b.left \in Int /\ b.top \in Nat /\ b.right \in Int
      /\ b.lastBottom \in Bottom /\ b.nextBottom \in Bottom
  BY <1>1 DEF Segments, Bottom, BlobRecords
<1>4. Boxed(n)
  <2>1. \A t \in Segs(n) : n.left <= t.startCol /\ n.top <= t.row /\ t.endCol <= n.right
    BY <1>1, <1>2, <1>3 DEF Boxed
  <2>2. \E t \in Segs(n) : n.left = t.startCol
    BY <1>1, <1>2, <1>3 DEF Boxed
  <2>3. \E t \in Segs(n) : n.top = t.row
    BY <1>1, <1>2, <1>3 DEF Boxed
  <2>4. \E t \in Segs(n) : n.right = t.endCol
    BY <1>1, <1>2, <1>3 DEF Boxed
  <2> QED BY <2>1, <2>2, <2>3, <2>4 DEF Boxed
<1>5. /\ n.nextBottom.row = s.row /\ n.nextBottom.startCol <= s.startCol
      /\ n.nextBottom.endCol = s.endCol /\ n.nextBottom.startCol \in Int
  BY <1>2, <1>3 DEF Bottom
<1>6. Surface(n) = n.nextBottom
  BY <1>3, <1>5 DEF Surface
<1>7. ASSUME NEW t \in Segs(n) PROVE t.row <= Surface(n).row /\ Within(t, Surface(n))
  <2>1. CASE t = s
    BY <1>3, <1>5, <1>6, <2>1 DEF Within
  <2>2. CASE t # s /\ b.nextBottom.row = NoRow
    <3>1. t \in Segs(b) /\ t.row <= b.lastBottom.row
      BY <1>1, <1>2, <2>2 DEF Hulls, Surface
    <3>2. t.row < s.row
      BY <1>3, <2>2, <3>1 DEF Bottom
    <3> QED BY <1>3, <1>5, <1>6, <3>1, <3>2 DEF Within
  <2>3. CASE t # s /\ b.nextBottom.row # NoRow
    <3>1. t \in Segs(b) /\ t.row <= b.nextBottom.row /\ Within(t, b.nextBottom)
      BY <1>1, <1>2, <2>3 DEF Hulls, Surface
    <3>2. n.nextBottom.startCol = b.nextBottom.startCol /\ b.nextBottom.endCol <= s.endCol
      BY <1>2, <2>3
    <3> QED BY <1>3, <1>5, <1>6, <2>3, <3>1, <3>2 DEF Within, Bottom
  <2> QED BY <2>1, <2>2, <2>3
<1>8. n.lastBottom.row = NoRow \/ n.lastBottom.row < n.nextBottom.row
  BY <1>1, <1>2, <1>5 DEF Hulls
<1>9. ASSUME NEW t \in Segs(n), t.row # n.nextBottom.row
      PROVE  n.lastBottom.row # NoRow /\ t.row <= n.lastBottom.row /\ Within(t, n.lastBottom)
  <2>1. t \in Segs(b)
    BY <1>2, <1>5, <1>9
  <2>2. CASE b.nextBottom.row = NoRow
    <3>1. b.lastBottom.row < NoRow
      BY <2>2, SurfaceRow
    <3> QED BY <1>1, <1>2, <1>3, <2>1, <2>2, <3>1 DEF Hulls, Surface, NoRow
  <2>3. CASE b.nextBottom.row # NoRow
    BY <1>1, <1>2, <1>5, <1>9, <2>1, <2>3 DEF Hulls
  <2> QED BY <2>2, <2>3
<1>10. Hulls(n)
  <2>1. Surface(n).startCol <= Surface(n).endCol
    BY <1>3, <1>5, <1>6
  <2>2. s \in Segs(n) /\ Surface(n).row = s.row
    BY <1>2, <1>5, <1>6
  <2> QED BY <1>7, <1>8, <1>9, <2>1, <2>2 DEF Hulls
<1>11. Sound(n)
  BY <1>1, <1>2, <1>4, <1>10 DEF Sound
<1> QED BY <1>2, <1>5, <1>11 DEF n

LEMMA NewBlobSound ==
  ASSUME NEW s \in Segments
  PROVE  LET n == AddToBlob(NewBlob, s) IN
         /\ Sound(n) /\ Segs(n) = {s} /\ n.nextBottom = s /\ n.lastBottom.row = NoRow
<1> DEFINE n == AddToBlob(NewBlob, s)
<1>1. NewBlob \in BlobRecords
  BY DEF NewBlob, BlobRecords, NoBottom, NoRow, Bottom
<1>2. /\ NewBlob.left = 32767 /\ NewBlob.top = 32767 /\ NewBlob.right = -1
      /\ NewBlob.lastBottom.row = NoRow /\ NewBlob.nextBottom.row = NoRow
      /\ Segs(NewBlob) = {}
  BY DEF NewBlob, NoBottom, Segs, ToSet
<1>3. /\ n \in BlobRecords
      /\ n.left = (IF NewBlob.left <= s.startCol THEN NewBlob.left ELSE s.startCol)
      /\ n.top = (IF NewBlob.top <= s.row THEN NewBlob.top ELSE s.row)
      /\ n.right = (IF NewBlob.right >= s.endCol THEN NewBlob.right ELSE s.endCol)
      /\ Segs(n) = Segs(NewBlob) \cup {s}
      /\ n.lastBottom = NewBlob.lastBottom
      /\ NewBlob.nextBottom.row = NoRow => n.nextBottom = s
  BY <1>1, AddToBlobFields, Zenon
<1> HIDE DEF n
<1>4. /\ s.row \in Nat /\ s.row < NoRow /\ s.startCol \in Int /\ s.endCol \in Int
      /\ 0 <= s.startCol /\ s.startCol <= s.endCol /\ s.endCol < 1024
  BY DEF Segments, Bottom
<1>5. n.left = s.startCol /\ n.top = s.row /\ n.right = s.endCol
  BY <1>2, <1>3, <1>4 DEF NoRow
<1>6. Segs(n) = {s} /\ n.nextBottom = s /\ n.lastBottom.row = NoRow
  BY <1>2, <1>3
<1>7. Boxed(n)
  BY <1>4, <1>5, <1>6 DEF Boxed
<1>8. Hulls(n)
  BY <1>4, <1>6 DEF Hulls, Surface, Within
<1>9. Sound(n)
  BY <1>3, <1>6, <1>7, <1>8 DEF Sound
<1> QED BY <1>6, <1>9 DEF n

LEMMA Through ==
  ASSUME NEW x \in Int, NEW y \in Int, NEW z \in Int, x <= y, y <= z
  PROVE  x <= z
OBVIOUS

\* Blob b has the segment that joins them, f ends in the row before.
LEMMA AssimilateSound ==
  ASSUME NEW b, Sound(b), NEW f, Sound(f),
         b.nextBottom.row # NoRow, b.lastBottom.row = b.nextBottom.row - 1,
         f.nextBottom.row = NoRow, f.lastBottom.row = b.nextBottom.row - 1,
         b.lastBottom.startCol <= f.lastBottom.startCol
  PROVE  LET n == Assimilate(b, f) IN
         /\ Sound(n) /\ Segs(n) = Segs(b) \cup Segs(f) /\ n.nextBottom = b.nextBottom
         /\ n.lastBottom.row = b.lastBottom.row
         /\ n.lastBottom.startCol = b.lastBottom.startCol
         /\ b.lastBottom.endCol <= n.lastBottom.endCol
<1> DEFINE left == Min({b.left, f.left})
           top == Min({b.top, f.top})
           right == Max({b.right, f.right})
           end == Max({b.lastBottom.endCol, f.lastBottom.endCol})
           bottom == [b.lastBottom EXCEPT !.endCol = end]
           n == Assimilate(b, f)
<1>1. /\ b \in BlobRecords /\ Boxed(b) /\ Hulls(b) /\ Segs(b) \subseteq Segments
      /\ f \in BlobRecords /\ Boxed(f) /\ Hulls(f) /\ Segs(f) \subseteq Segments
  BY DEF Sound
<1>2. /\ b.left \in Int /\ b.top \in Nat /\ b.right \in Int /\ b.area \in Nat
      /\ b.segments \in Seq(Bottom) /\ b.lastBottom \in Bottom /\ b.nextBottom \in Bottom
      /\ f.left \in Int /\ f.top \in Nat /\ f.right \in Int /\ f.area \in Nat
      /\ f.segments \in Seq(Bottom) /\ f.lastBottom \in Bottom
      /\ b.lastBottom.endCol \in Int /\ f.lastBottom.endCol \in Int
      /\ b.top \in Int /\ f.top \in Int
  BY <1>1 DEF BlobRecords, Bottom
<1>3. /\ left = (IF b.left <= f.left THEN b.left ELSE f.left)
      /\ top = (IF b.top <= f.top THEN b.top ELSE f.top)
      /\ right = (IF b.right >= f.right THEN b.right ELSE f.right)
      /\ end = (IF b.lastBottom.endCol >= f.lastBottom.endCol
                  THEN b.lastBottom.endCol ELSE f.lastBottom.endCol)
  <2>1. left = (IF b.left <= f.left THEN b.left ELSE f.left)
    BY <1>2, Extremes, Zenon
  <2>2. top = (IF b.top <= f.top THEN b.top ELSE f.top)
    BY <1>2, Extremes, Zenon
  <2>3. right = (IF b.right >= f.right THEN b.right ELSE f.right)
    BY <1>2, Extremes, Zenon
  <2>4. end = (IF b.lastBottom.endCol >= f.lastBottom.endCol
                 THEN b.lastBottom.endCol ELSE f.lastBottom.endCol)
    BY <1>2, Extremes, Zenon
  <2> QED BY <2>1, <2>2, <2>3, <2>4
<1> HIDE DEF left, top, right, end
<1>4. n = [[b EXCEPT !.left = left, !.top = top, !.right = right] EXCEPT
             !.lastBottom = bottom, !.area = b.area + f.area,
             !.segments = b.segments \o f.segments]
  BY <1>1 DEF Assimilate, UpdateBoundingBox, left, top, right, end, BlobRecords
<1>5. /\ bottom \in Bottom /\ bottom.row = b.lastBottom.row
      /\ bottom.startCol = b.lastBottom.startCol /\ bottom.endCol = end
  BY <1>2, <1>3 DEF Bottom
<1>6. left \in Int /\ top \in Nat /\ right \in Int /\ b.area + f.area \in Nat
  BY <1>2, <1>3
<1>7. /\ b.segments \o f.segments \in Seq(Bottom)
      /\ ToSet(b.segments \o f.segments) = Segs(b) \cup Segs(f)
  BY <1>2, SetOfConcat, Concat DEF Segs
<1> HIDE DEF n, bottom
<1>8. /\ n \in BlobRecords /\ n.left = left /\ n.top = top /\ n.right = right
      /\ n.segments = b.segments \o f.segments
      /\ n.lastBottom = bottom /\ n.nextBottom = b.nextBottom
  BY <1>1, <1>4, <1>5, <1>6, <1>7 DEF BlobRecords
<1>9. Segs(n) = Segs(b) \cup Segs(f)
  BY <1>7, <1>8 DEF Segs
<1>10. \A t \in Segs(b) \cup Segs(f) :
         t.row \in Nat /\ t.row < NoRow /\ t.startCol \in Int /\ t.endCol \in Int
  BY <1>1 DEF Segments, Bottom
<1>11. Boxed(n)
  <2>0. /\ left \in Int /\ left <= b.left /\ left <= f.left
        /\ top \in Int /\ top <= b.top /\ top <= f.top
        /\ right \in Int /\ b.right <= right /\ f.right <= right
    BY <1>2, <1>3
  <2>1. ASSUME NEW t \in Segs(n)
        PROVE  n.left <= t.startCol /\ n.top <= t.row /\ t.endCol <= n.right
    <3>1. CASE t \in Segs(b)
      <4>1. b.left <= t.startCol /\ b.top <= t.row /\ t.endCol <= b.right
        BY <1>1, <3>1 DEF Boxed
      <4>2. t.row \in Int /\ t.startCol \in Int /\ t.endCol \in Int
        BY <1>10, <3>1
      <4>3. left <= t.startCol /\ top <= t.row /\ t.endCol <= right
        BY <1>2, <2>0, <4>1, <4>2, Through, Zenon
      <4> QED BY <1>8, <4>3, Zenon
    <3>2. CASE t \in Segs(f)
      <4>1. f.left <= t.startCol /\ f.top <= t.row /\ t.endCol <= f.right
        BY <1>1, <3>2 DEF Boxed
      <4>2. t.row \in Int /\ t.startCol \in Int /\ t.endCol \in Int
        BY <1>10, <3>2
      <4>3. left <= t.startCol /\ top <= t.row /\ t.endCol <= right
        BY <1>2, <2>0, <4>1, <4>2, Through, Zenon
      <4> QED BY <1>8, <4>3, Zenon
    <3> QED BY <1>9, <3>1, <3>2
  <2>2. \E t \in Segs(n) : n.left = t.startCol
    BY <1>1, <1>2, <1>3, <1>8, <1>9 DEF Boxed
  <2>3. \E t \in Segs(n) : n.top = t.row
    BY <1>1, <1>2, <1>3, <1>8, <1>9 DEF Boxed
  <2>4. \E t \in Segs(n) : n.right = t.endCol
    BY <1>1, <1>2, <1>3, <1>8, <1>9 DEF Boxed
  <2> QED BY <2>1, <2>2, <2>3, <2>4 DEF Boxed
<1>12. /\ Surface(n) = b.nextBottom /\ Surface(b) = b.nextBottom /\ Surface(f) = f.lastBottom
  BY <1>8 DEF Surface
<1>13. /\ b.nextBottom.row \in Nat /\ b.lastBottom.startCol \in Int /\ f.lastBottom.startCol \in Int
       /\ b.lastBottom.row \in Nat
  BY <1>2 DEF Bottom
<1>14. ASSUME NEW t \in Segs(f)
       PROVE  t.row <= f.lastBottom.row /\ t.row # b.nextBottom.row /\ Within(t, f.lastBottom)
  <2>1. t.row <= f.lastBottom.row /\ Within(t, f.lastBottom)
    BY <1>1, <1>12 DEF Hulls
  <2> QED BY <1>10, <1>13, <2>1
<1>15. ASSUME NEW t \in Segs(n)
       PROVE  t.row <= Surface(n).row /\ Within(t, Surface(n))
  <2>1. CASE t \in Segs(b)
    BY <1>1, <1>12, <2>1 DEF Hulls
  <2>2. CASE t \in Segs(f)
    BY <1>10, <1>12, <1>13, <1>14, <2>2 DEF Within
  <2> QED BY <1>9, <2>1, <2>2
<1>16. ASSUME NEW t \in Segs(n), t.row # n.nextBottom.row
       PROVE  t.row <= n.lastBottom.row /\ Within(t, n.lastBottom)
  <2>1. CASE t \in Segs(b)
    <3>1. t.row <= b.lastBottom.row /\ Within(t, b.lastBottom)
      BY <1>1, <1>8, <1>16, <2>1 DEF Hulls
    <3> QED BY <1>2, <1>3, <1>5, <1>8, <1>10, <2>1, <3>1 DEF Within
  <2>2. CASE t \in Segs(f)
    <3>1. t.row <= f.lastBottom.row /\ Within(t, f.lastBottom)
      BY <1>14, <2>2
    <3>2. /\ f.lastBottom.row = b.lastBottom.row /\ f.lastBottom.startCol \in Int
          /\ t.startCol \in Int /\ t.endCol \in Int
      BY <1>10, <1>13, <2>2
    <3>3. /\ n.lastBottom.row = b.lastBottom.row /\ n.lastBottom.startCol = b.lastBottom.startCol
          /\ end \in Int /\ n.lastBottom.endCol = end /\ f.lastBottom.endCol <= end
      BY <1>2, <1>3, <1>5, <1>8
    <3>4. t.row <= n.lastBottom.row
      BY <3>1, <3>2, <3>3
    <3>5. ASSUME t.row = n.lastBottom.row
          PROVE  n.lastBottom.startCol <= t.startCol /\ t.endCol <= n.lastBottom.endCol
      <4>1. f.lastBottom.startCol <= t.startCol /\ t.endCol <= f.lastBottom.endCol
        BY <3>1, <3>2, <3>3, <3>5 DEF Within
      <4>2. b.lastBottom.startCol <= t.startCol
        BY <1>13, <3>2, <4>1, Through, Zenon
      <4>3. t.endCol <= end
        BY <1>2, <3>2, <3>3, <4>1, Through, Zenon
      <4> QED BY <3>3, <4>2, <4>3, Zenon
    <3> QED BY <3>4, <3>5 DEF Within
  <2> QED BY <1>9, <2>1, <2>2
<1>17. Hulls(n)
  <2>1. /\ Surface(n).startCol <= Surface(n).endCol
        /\ \E t \in Segs(n) : Surface(n).row = t.row
    BY <1>1, <1>9, <1>12 DEF Hulls
  <2>2. n.lastBottom.row < n.nextBottom.row /\ n.lastBottom.row # NoRow
    <3>1. b.nextBottom.row < NoRow
      BY SurfaceRow
    <3> QED BY <1>5, <1>8, <1>13, <3>1 DEF NoRow
  <2> QED BY <1>15, <1>16, <2>1, <2>2 DEF Hulls
<1>18. Sound(n)
  BY <1>1, <1>8, <1>9, <1>11, <1>17 DEF Sound
<1>19. b.lastBottom.endCol <= n.lastBottom.endCol
  BY <1>2, <1>3, <1>5, <1>8
<1> QED BY <1>5, <1>8, <1>9, <1>18, <1>19 DEF n

-----------------------------------------------------------------------------
(* An assembler.                                                           *)

Assemblers ==
  [currentRow : Int, active : Seq(BlobRecords), cur : Nat, finished : Seq(BlobRecords)]

Apart(b, c) == \A s \in Segs(b), t \in Segs(c) : ~Touch(s, t)

Active(a) == 1..Len(a.active)
Finished(a) == 1..Len(a.finished)

ActiveSound(a) ==
  \A i \in Active(a) : Sound(a.active[i]) /\ Surface(a.active[i]).row <= a.currentRow

\* Finished blobs end above the row before the current one: nothing will touch them.
FinishedSound(a) ==
  \A i \in Finished(a) : LET b == a.finished[i] IN
    Sound(b) /\ b.nextBottom.row = NoRow /\ b.lastBottom.row < a.currentRow - 1

FinishedApart(a) ==
  /\ \A i, j \in Finished(a) : i # j => Apart(a.finished[i], a.finished[j])
  /\ \A i \in Active(a), j \in Finished(a) :
       Apart(a.active[i], a.finished[j]) /\ Apart(a.finished[j], a.active[i])

\* Active blobs do not touch; while the current one is joined with those right of
\* it, they may touch the segment in open, which joins them.
ActiveApart(a, open) ==
  \A i, j \in Active(a) : i # j =>
    \A s \in Segs(a.active[i]), t \in Segs(a.active[j]) :
      Touch(s, t) => t \in open /\ j = a.cur /\ a.cur < i

\* Active blobs are in order; while the current one is joined, the others are.
ActiveInOrder(a, open) ==
  \A i, j \in Active(a) :
    i < j => \/ open # {} /\ i = a.cur
             \/ Surface(a.active[i]).startCol <= Surface(a.active[j]).startCol

Working(a, open) ==
  /\ a \in Assemblers /\ a.currentRow < NoRow
  /\ ActiveSound(a) /\ FinishedSound(a) /\ FinishedApart(a)
  /\ ActiveApart(a, open) /\ ActiveInOrder(a, open)

\* The blob that leaves the list.
LEMMA RetireFields ==
  ASSUME NEW a \in Assemblers, NEW i \in Nat \ {0}, TooFar(a, i), NEW turn, ActiveSound(a)
  PROVE  LET n == Retire(i, a, turn)
             b == NewRow(a.active[i])
         IN /\ n \in Assemblers /\ n.currentRow = a.currentRow /\ n.cur = a.cur
            /\ i \in Active(a) /\ Len(n.active) = Len(a.active) - 1
            /\ \A j \in Active(n) : n.active[j] = a.active[IF j < i THEN j ELSE j + 1]
            /\ \/ n.finished = a.finished
               \/ /\ Len(n.finished) = Len(a.finished) + 1
                  /\ n.finished[1] = b
                  /\ \A j \in Finished(a) : n.finished[j + 1] = a.finished[j]
<1> DEFINE n == Retire(i, a, turn)
           b == NewRow(a.active[i])
           list == RemoveAt(a.active, i)
           done == IF Tall(b) THEN <<b>> \o a.finished ELSE a.finished
<1>1. /\ a.active \in Seq(BlobRecords) /\ a.finished \in Seq(BlobRecords)
      /\ Len(a.active) \in Nat /\ Len(a.finished) \in Nat
  BY DEF Assemblers
<1>2. i \in 1..Len(a.active)
  BY <1>1 DEF TooFar
<1>3. b \in BlobRecords
  BY <1>2, NewRowSound DEF ActiveSound, Active, Sound
<1> HIDE DEF b
<1>4. /\ list \in Seq(BlobRecords) /\ Len(list) = Len(a.active) - 1
      /\ \A j \in 1..Len(a.active) - 1 : list[j] = a.active[IF j < i THEN j ELSE j + 1]
  BY <1>1, <1>2, Removed, Zenon
<1>5. done \in Seq(BlobRecords)
  BY <1>1, <1>3
<1>6. \/ done = a.finished
      \/ /\ Len(done) = Len(a.finished) + 1 /\ done[1] = b
         /\ \A j \in 1..Len(a.finished) : done[j + 1] = a.finished[j]
  BY <1>1, <1>3
<1> HIDE DEF list, done
<1>7. n = [a EXCEPT !.active = list, !.finished = done]
  BY DEF Retire, Assemblers, list, done, b
<1> HIDE DEF n
<1>8. /\ n \in Assemblers /\ n.currentRow = a.currentRow /\ n.cur = a.cur
      /\ n.active = list /\ n.finished = done
  BY <1>4, <1>5, <1>7 DEF Assemblers
<1> USE DEF Active, Finished
<1>9. /\ Len(n.active) = Len(a.active) - 1
      /\ \A j \in Active(n) : n.active[j] = a.active[IF j < i THEN j ELSE j + 1]
  BY <1>4, <1>8
<1>10. n = Retire(i, a, turn) /\ b = NewRow(a.active[i])
  BY DEF n, b
<1> QED BY <1>2, <1>6, <1>8, <1>9, <1>10

LEMMA RetireKeeps ==
  ASSUME NEW a, NEW open, Working(a, open), \A s \in open : s.row = a.currentRow,
         NEW i \in Nat \ {0}, open = {} \/ a.cur < i, TooFar(a, i), NEW turn
  PROVE  Working(Retire(i, a, turn), open)
<1> DEFINE n == Retire(i, a, turn)
           b == NewRow(a.active[i])
           shift(j) == IF j < i THEN j ELSE j + 1
<1>1. /\ a \in Assemblers /\ a.currentRow < NoRow
      /\ ActiveSound(a) /\ FinishedSound(a) /\ FinishedApart(a)
      /\ ActiveApart(a, open) /\ ActiveInOrder(a, open)
  BY DEF Working
<1>2. /\ n \in Assemblers /\ n.currentRow = a.currentRow /\ n.cur = a.cur
      /\ i \in Active(a) /\ Len(n.active) = Len(a.active) - 1
      /\ \A j \in Active(n) : n.active[j] = a.active[shift(j)]
      /\ \/ n.finished = a.finished
         \/ /\ Len(n.finished) = Len(a.finished) + 1
            /\ n.finished[1] = b
            /\ \A j \in Finished(a) : n.finished[j + 1] = a.finished[j]
  BY <1>1, RetireFields
<1>3. /\ Len(a.active) \in Nat /\ Len(a.finished) \in Nat /\ a.cur \in Nat /\ a.currentRow \in Int
  BY <1>1 DEF Assemblers
<1>4. /\ Sound(a.active[i]) /\ Sound(b) /\ Segs(b) = Segs(a.active[i])
      /\ b.nextBottom.row = NoRow /\ b.lastBottom = Surface(b)
  <2>1. Sound(a.active[i])
    BY <1>1, <1>2 DEF ActiveSound
  <2> QED BY <2>1, NewRowSound
<1>5. b.lastBottom.row \in Nat /\ b.lastBottom.row < a.currentRow - 1
  <2>1. a.currentRow - b.lastBottom.row > 1
    BY DEF TooFar, maxRowDelta
  <2>2. b.lastBottom.row \in Nat
    BY <1>4 DEF Sound, BlobRecords, Bottom
  <2> QED BY <1>3, <2>1, <2>2
<1>6. \A s \in Segs(a.active[i]) : s.row \in Nat /\ s.row < a.currentRow - 1
  <2>1. \A s \in Segs(b) : s.row <= b.lastBottom.row /\ s.row \in Nat
    BY <1>4 DEF Sound, Hulls, Segments, Bottom
  <2> QED BY <1>3, <1>4, <1>5, <2>1
<1> HIDE DEF n, b
<1>7. \A j \in Active(n) : /\ shift(j) \in Active(a) /\ shift(j) # i
                           /\ shift(j) = n.cur => j = n.cur \/ open = {}
                           /\ n.cur < shift(j) => n.cur < j \/ open = {}
  <2> SUFFICES ASSUME NEW j \in Active(n)
               PROVE  /\ shift(j) \in Active(a) /\ shift(j) # i
                      /\ shift(j) = n.cur => j = n.cur \/ open = {}
                      /\ n.cur < shift(j) => n.cur < j \/ open = {}
    OBVIOUS
  <2>1. j \in 1..Len(a.active) - 1 /\ i \in 1..Len(a.active)
    BY <1>2 DEF Active
  <2>2. CASE j < i
    BY <1>2, <1>3, <2>1, <2>2 DEF Active
  <2>3. CASE ~(j < i)
    BY <1>2, <1>3, <2>1, <2>3 DEF Active
  <2> QED BY <2>2, <2>3
<1>8. \A j, k \in Active(n) : /\ j < k => shift(j) < shift(k)
                              /\ j # k => shift(j) # shift(k)
  BY <1>2, <1>3 DEF Active
<1> HIDE DEF shift
<1>9. ActiveSound(n)
  BY <1>1, <1>2, <1>7 DEF ActiveSound
<1>10. ActiveApart(n, open)
  <2> SUFFICES ASSUME NEW j \in Active(n), NEW k \in Active(n), j # k,
                      NEW s \in Segs(n.active[j]), NEW t \in Segs(n.active[k]), Touch(s, t)
               PROVE  t \in open /\ k = n.cur /\ n.cur < j
    BY DEF ActiveApart
  <2>1. /\ shift(j) \in Active(a) /\ shift(k) \in Active(a) /\ shift(j) # shift(k)
        /\ s \in Segs(a.active[shift(j)]) /\ t \in Segs(a.active[shift(k)])
    BY <1>2, <1>7, <1>8
  <2>2. t \in open /\ shift(k) = a.cur /\ a.cur < shift(j)
    BY <1>1, <2>1 DEF ActiveApart
  <2> QED BY <1>2, <1>7, <2>2
<1>11. ActiveInOrder(n, open)
  <2> SUFFICES ASSUME NEW j \in Active(n), NEW k \in Active(n), j < k
               PROVE  \/ open # {} /\ j = n.cur
                      \/ Surface(n.active[j]).startCol <= Surface(n.active[k]).startCol
    BY DEF ActiveInOrder
  <2>1. shift(j) \in Active(a) /\ shift(k) \in Active(a) /\ shift(j) < shift(k)
    BY <1>7, <1>8
  <2>2. \/ open # {} /\ shift(j) = a.cur
        \/ Surface(a.active[shift(j)]).startCol <= Surface(a.active[shift(k)]).startCol
    BY <1>1, <2>1 DEF ActiveInOrder
  <2> QED BY <1>2, <1>7, <2>2
<1>12. ASSUME NEW j \in Active(a), j # i
       PROVE  Apart(a.active[j], b) /\ Apart(b, a.active[j])
  <2>1. ASSUME NEW s \in Segs(a.active[i]), NEW t \in Segs(a.active[j]), Touch(s, t) PROVE FALSE
    <3>1. t \in open
      BY <1>1, <1>2, <1>12, <2>1 DEF ActiveApart
    <3>2. t.row = a.currentRow /\ t.row = s.row + 1
      BY <2>1, <3>1 DEF Touch
    <3> QED BY <1>3, <1>6, <3>2
  <2>2. ASSUME NEW s \in Segs(a.active[j]), NEW t \in Segs(a.active[i]), Touch(s, t) PROVE FALSE
    <3>1. t \in open
      BY <1>1, <1>2, <1>12, <2>2 DEF ActiveApart
    <3> QED BY <1>3, <1>6, <3>1
  <2> QED BY <1>4, <2>1, <2>2 DEF Apart
<1>13. \A j \in Finished(a) : Apart(b, a.finished[j]) /\ Apart(a.finished[j], b)
  BY <1>1, <1>2, <1>4 DEF FinishedApart, Apart
<1>14. FinishedSound(n) /\ FinishedApart(n)
  <2>1. CASE n.finished = a.finished
    <3>1. FinishedSound(n)
      BY <1>1, <1>2, <2>1 DEF FinishedSound, Finished
    <3>2. FinishedApart(n)
      BY <1>1, <1>2, <1>7, <2>1 DEF FinishedApart, Finished
    <3> QED BY <3>1, <3>2
  <2>2. CASE /\ Len(n.finished) = Len(a.finished) + 1 /\ n.finished[1] = b
             /\ \A j \in Finished(a) : n.finished[j + 1] = a.finished[j]
    <3>1. \A j \in Finished(n) : \/ j = 1 /\ n.finished[j] = b
                                 \/ j - 1 \in Finished(a) /\ n.finished[j] = a.finished[j - 1]
      <4>1. ASSUME NEW j \in Finished(n), j # 1
            PROVE  j - 1 \in Finished(a) /\ n.finished[j] = a.finished[j - 1]
        <5>1. j - 1 \in Finished(a) /\ (j - 1) + 1 = j
          BY <1>3, <2>2, <4>1 DEF Finished
        <5> QED BY <2>2, <5>1
      <4> QED BY <2>2, <4>1
    <3>2. FinishedSound(n)
      BY <1>1, <1>2, <1>4, <1>5, <3>1 DEF FinishedSound
    <3>3. ASSUME NEW j \in Finished(n), NEW k \in Finished(n), j # k
          PROVE  Apart(n.finished[j], n.finished[k])
      <4>1. j \in Int /\ k \in Int
        BY <1>2 DEF Finished
      <4>2. CASE j = 1
        <5>1. k - 1 \in Finished(a) /\ n.finished[k] = a.finished[k - 1] /\ n.finished[j] = b
          BY <2>2, <3>1, <3>3, <4>2
        <5> QED BY <1>13, <5>1
      <4>3. CASE j # 1 /\ k = 1
        <5>1. j - 1 \in Finished(a) /\ n.finished[j] = a.finished[j - 1] /\ n.finished[k] = b
          BY <2>2, <3>1, <4>3
        <5> QED BY <1>13, <5>1
      <4>4. CASE j # 1 /\ k # 1
        <5>1. /\ j - 1 \in Finished(a) /\ n.finished[j] = a.finished[j - 1]
              /\ k - 1 \in Finished(a) /\ n.finished[k] = a.finished[k - 1]
          BY <3>1, <4>4
        <5>2. j - 1 # k - 1
          BY <3>3, <4>1
        <5> QED BY <1>1, <5>1, <5>2 DEF FinishedApart
      <4> QED BY <4>2, <4>3, <4>4
    <3>4. ASSUME NEW j \in Active(n), NEW k \in Finished(n)
          PROVE  Apart(n.active[j], n.finished[k]) /\ Apart(n.finished[k], n.active[j])
      <4>1. shift(j) \in Active(a) /\ shift(j) # i /\ n.active[j] = a.active[shift(j)]
        BY <1>2, <1>7
      <4>2. CASE n.finished[k] = b
        BY <1>12, <4>1, <4>2
      <4>3. CASE k - 1 \in Finished(a) /\ n.finished[k] = a.finished[k - 1]
        BY <1>1, <4>1, <4>3 DEF FinishedApart
      <4> QED BY <3>1, <4>2, <4>3
    <3> QED BY <3>2, <3>3, <3>4 DEF FinishedApart
  <2> QED BY <1>2, <2>1, <2>2
<1>15. Working(n, open)
  BY <1>1, <1>2, <1>9, <1>10, <1>11, <1>14 DEF Working
<1> QED BY <1>15 DEF n

\* What the blobs from index i on have become: fewer, with surfaces they had.
Trimmed(a, i, n) ==
  /\ n.currentRow = a.currentRow /\ n.cur = a.cur /\ Len(n.active) <= Len(a.active)
  /\ \A j \in Active(n) : j < i => j \in Active(a) /\ n.active[j] = a.active[j]
  /\ \A j \in Active(a) : j < i => j \in Active(n)
  /\ \A j \in Active(n) : i <= j =>
       \E k \in Active(a) : i <= k /\ Surface(n.active[j]) = Surface(a.active[k])

LEMMA RetireTrims ==
  ASSUME NEW a \in Assemblers, NEW m \in Assemblers, NEW i \in Nat \ {0}, Trimmed(a, i, m),
         ActiveSound(m), TooFar(m, i), NEW turn
  PROVE  Trimmed(a, i, Retire(i, m, turn)) /\ Len(Retire(i, m, turn).active) = Len(m.active) - 1
<1> DEFINE n == Retire(i, m, turn)
<1>1. /\ n \in Assemblers /\ n.currentRow = m.currentRow /\ n.cur = m.cur
      /\ i \in Active(m) /\ Len(n.active) = Len(m.active) - 1
      /\ \A j \in Active(n) : n.active[j] = m.active[IF j < i THEN j ELSE j + 1]
  BY RetireFields
<1> HIDE DEF n
<1>2. Len(a.active) \in Nat /\ Len(m.active) \in Nat
  BY DEF Assemblers
<1>3. Len(n.active) <= Len(a.active)
  BY <1>1, <1>2 DEF Trimmed
<1>4. ASSUME NEW j \in Active(n), j < i
      PROVE  j \in Active(a) /\ n.active[j] = a.active[j]
  BY <1>1, <1>2, <1>4 DEF Trimmed, Active
<1>5. ASSUME NEW j \in Active(a), j < i PROVE j \in Active(n)
  BY <1>1, <1>2, <1>5 DEF Trimmed, Active
<1>6. ASSUME NEW j \in Active(n), i <= j
      PROVE  \E k \in Active(a) : i <= k /\ Surface(n.active[j]) = Surface(a.active[k])
  <2>1. j + 1 \in Active(m) /\ i <= j + 1 /\ n.active[j] = m.active[j + 1]
    BY <1>1, <1>2, <1>6 DEF Active
  <2> QED BY <2>1 DEF Trimmed
<1>7. Trimmed(a, i, n)
  <2>1. n.currentRow = a.currentRow /\ n.cur = a.cur
    BY <1>1 DEF Trimmed
  <2> QED BY <1>3, <1>4, <1>5, <1>6, <2>1 DEF Trimmed
<1> QED BY <1>1, <1>7 DEF n

\* A blob is exchanged for one with the same segments and the same surface.
LEMMA ReplaceKeeps ==
  ASSUME NEW a, NEW open, Working(a, open), NEW i \in Active(a), NEW b, Sound(b),
         Segs(b) = Segs(a.active[i]), Surface(b) = Surface(a.active[i])
  PROVE  LET n == [a EXCEPT !.active[i] = b] IN
         /\ Working(n, open) /\ n.currentRow = a.currentRow /\ n.cur = a.cur
         /\ Len(n.active) = Len(a.active) /\ n.active[i] = b
         /\ \A j \in Active(a) : j # i => n.active[j] = a.active[j]
         /\ \A j \in Active(a) : Surface(n.active[j]) = Surface(a.active[j])
<1> DEFINE n == [a EXCEPT !.active[i] = b]
           list == [a.active EXCEPT ![i] = b]
<1>1. /\ a \in Assemblers /\ a.currentRow < NoRow
      /\ ActiveSound(a) /\ FinishedSound(a) /\ FinishedApart(a)
      /\ ActiveApart(a, open) /\ ActiveInOrder(a, open)
  BY DEF Working
<1>2. b \in BlobRecords
  BY DEF Sound
<1>3. a.active \in Seq(BlobRecords) /\ i \in 1..Len(a.active) /\ Len(a.active) \in Nat
  BY <1>1 DEF Assemblers, Active
<1>4. /\ list \in Seq(BlobRecords) /\ Len(list) = Len(a.active) /\ list[i] = b
      /\ \A j \in 1..Len(a.active) : j # i => list[j] = a.active[j]
  BY <1>2, <1>3
<1>5. n = [a EXCEPT !.active = list]
  BY <1>1 DEF Assemblers
<1> HIDE DEF n, list
<1>6. /\ n \in Assemblers /\ n.currentRow = a.currentRow /\ n.cur = a.cur
      /\ n.active = list /\ n.finished = a.finished
  BY <1>1, <1>4, <1>5 DEF Assemblers
<1>7. /\ Active(n) = Active(a) /\ Finished(n) = Finished(a)
      /\ n.active[i] = b /\ \A j \in Active(a) : j # i => n.active[j] = a.active[j]
  BY <1>4, <1>6 DEF Active, Finished
<1>8. \A j \in Active(n) : /\ Segs(n.active[j]) = Segs(a.active[j])
                           /\ Surface(n.active[j]) = Surface(a.active[j])
                           /\ Sound(n.active[j])
  BY <1>1, <1>7 DEF ActiveSound
<1>9. ActiveSound(n)
  BY <1>1, <1>6, <1>7, <1>8 DEF ActiveSound
<1>10. FinishedSound(n)
  BY <1>1, <1>6, <1>7 DEF FinishedSound
<1>11. FinishedApart(n)
  BY <1>1, <1>6, <1>7, <1>8 DEF FinishedApart, Apart
<1>12. ActiveApart(n, open)
  BY <1>1, <1>6, <1>7, <1>8 DEF ActiveApart
<1>13. ActiveInOrder(n, open)
  BY <1>1, <1>6, <1>7, <1>8 DEF ActiveInOrder
<1>14. Working(n, open)
  BY <1>1, <1>6, <1>9, <1>10, <1>11, <1>12, <1>13 DEF Working
<1> QED BY <1>4, <1>6, <1>7, <1>8, <1>14 DEF n

\* From index i on blobs leave or stay, and the first that stays is brought up to date.
LEMMA BlobNewRowKeeps ==
  ASSUME NEW a, NEW open, Working(a, open), \A s \in open : s.row = a.currentRow,
         NEW i \in Nat \ {0}, open = {} \/ a.cur < i,
         \A j \in Active(a) : i <= j => Surface(a.active[j]).row < a.currentRow
  PROVE  LET n == BlobNewRow(a, i) IN
         /\ Working(n, open) /\ Trimmed(a, i, n)
         /\ i \in Active(n) => /\ n.active[i].nextBottom.row = NoRow
                               /\ n.active[i].lastBottom.row = n.currentRow - 1
<1> DEFINE len == Len(a.active)
           rest == Retiring!Iterate(i, a, 0, len)
           Good(k, m) == /\ Working(m, open) /\ Trimmed(a, i, m)
                         /\ TooFar(m, i) => Len(m.active) + k <= len
           I == {p \in (0..len) \X Assemblers : Good(p[1], p[2])}
<1>1. a \in Assemblers /\ len \in Nat /\ a.cur \in Nat /\ a.currentRow \in Int
  BY DEF Working, Assemblers
<1>2. Good(0, a)
  <2>1. Trimmed(a, i, a)
    BY <1>1 DEF Trimmed, Active
  <2> QED BY <1>1, <2>1
<1>3. <<0, a>> \in I
  <2>1. 0 \in 0..len
    BY <1>1
  <2> HIDE DEF Good
  <2> QED BY <1>1, <1>2, <2>1
<1>4. ASSUME NEW k \in 0 + 1..len, NEW m, <<k - 1, m>> \in I
      PROVE  <<k, Retire(i, m, k)>> \in I
  <2> DEFINE n == Retire(i, m, k)
  <2>1. k - 1 \in 0..len /\ k \in 0..len /\ m \in Assemblers /\ Good(k - 1, m)
    BY <1>4
  <2>2. m.currentRow = a.currentRow /\ m.cur = a.cur /\ Len(m.active) \in Nat
    BY <2>1 DEF Trimmed, Assemblers
  <2>3. n \in Assemblers /\ Good(k, n)
    <3>1. CASE TooFar(m, i)
      <4>1. Working(n, open)
        BY <2>1, <2>2, <3>1, RetireKeeps
      <4>2. Trimmed(a, i, n) /\ Len(n.active) = Len(m.active) - 1
        BY <1>1, <2>1, <3>1, RetireTrims DEF Working
      <4>3. Len(n.active) + k <= len
        BY <1>1, <2>1, <2>2, <3>1, <4>2
      <4> QED BY <4>1, <4>2, <4>3 DEF Working
    <3>2. CASE ~TooFar(m, i)
      BY <2>1, <3>2 DEF Retire
    <3> QED BY <3>1, <3>2
  <2> HIDE DEF n, Good
  <2>4. <<k, n>> \in I
    BY <2>1, <2>3
  <2> QED BY <2>4 DEF n
<1>5. <<len, rest>> \in I
  <2> HIDE DEF I, len
  <2>1. 0 \in Int /\ len \in Int /\ 0 <= len
    BY <1>1
  <2> QED BY <1>3, <1>4, <2>1, Retiring!LoopRule
<1>6. Loop(Retire, i, a, 0, len) = rest
  BY Zenon DEF Loop, Retiring!Iterate
<1>7. BlobNewRow(a, i) = IF i <= Len(rest.active)
                           THEN [rest EXCEPT !.active[i] = NewRow(rest.active[i])] ELSE rest
  <2>1. rest \in Assemblers
    BY <1>5
  <2> HIDE DEF rest
  <2> QED BY <1>6, <2>1 DEF BlobNewRow, Assemblers
<1> HIDE DEF rest
<1>8. /\ rest \in Assemblers /\ Working(rest, open) /\ Trimmed(a, i, rest)
      /\ TooFar(rest, i) => Len(rest.active) + len <= len
  BY <1>5
<1>9. Len(rest.active) \in Nat
  BY <1>8 DEF Assemblers
<1>10. ~TooFar(rest, i)
  <2> SUFFICES ASSUME TooFar(rest, i) PROVE FALSE
    OBVIOUS
  <2>1. Len(rest.active) + len <= len
    BY <1>8
  <2>2. i <= Len(rest.active)
    BY DEF TooFar
  <2> HIDE DEF len
  <2> QED BY <1>1, <1>9, <2>1, <2>2
<1>11. CASE i <= Len(rest.active)
  <2> DEFINE b == NewRow(rest.active[i])
             n == [rest EXCEPT !.active[i] = b]
  <2>1. i \in Active(rest)
    BY <1>9, <1>11 DEF Active
  <2>2. Sound(rest.active[i])
    BY <1>8, <2>1 DEF Working, ActiveSound
  <2>3. /\ Sound(b) /\ Segs(b) = Segs(rest.active[i]) /\ b.nextBottom.row = NoRow
        /\ b.lastBottom = Surface(rest.active[i]) /\ Surface(b) = Surface(rest.active[i])
    BY <2>2, NewRowSound
  <2>4. b.lastBottom.row = a.currentRow - 1
    <3>1. b.lastBottom.row \in Nat
      BY <2>3 DEF Sound, BlobRecords, Bottom
    <3>2. a.currentRow - b.lastBottom.row <= 1
      BY <1>1, <1>8, <1>9, <1>10, <1>11, <3>1 DEF TooFar, maxRowDelta, Trimmed
    <3>3. PICK k \in Active(a) : i <= k /\ Surface(rest.active[i]) = Surface(a.active[k])
      <4>1. i <= i
        OBVIOUS
      <4> QED BY <1>8, <2>1, <4>1, Zenon DEF Trimmed
    <3>4. b.lastBottom.row < a.currentRow
      BY <2>3, <3>3
    <3> QED BY <1>1, <3>1, <3>2, <3>4
  <2> HIDE DEF b
  <2>5. /\ Working(n, open) /\ n.currentRow = rest.currentRow /\ n.cur = rest.cur
        /\ Len(n.active) = Len(rest.active) /\ n.active[i] = b
        /\ \A j \in Active(rest) : j # i => n.active[j] = rest.active[j]
        /\ \A j \in Active(rest) : Surface(n.active[j]) = Surface(rest.active[j])
    BY <1>8, <2>1, <2>3, ReplaceKeeps
  <2> HIDE DEF n
  <2>6. Active(n) = Active(rest) /\ \A j \in Active(rest) : j \in Int
    BY <2>5 DEF Active
  <2>7. Trimmed(a, i, n)
    <3>1. /\ n.currentRow = a.currentRow /\ n.cur = a.cur /\ Len(n.active) <= Len(a.active)
          /\ \A j \in Active(a) : j < i => j \in Active(n)
      BY <1>8, <2>5, <2>6 DEF Trimmed
    <3>2. \A j \in Active(n) : j < i => j \in Active(a) /\ n.active[j] = a.active[j]
      BY <1>8, <2>5, <2>6 DEF Trimmed
    <3>3. ASSUME NEW j \in Active(n), i <= j
          PROVE  \E k \in Active(a) : i <= k /\ Surface(n.active[j]) = Surface(a.active[k])
      BY <1>8, <2>5, <2>6, <3>3 DEF Trimmed
    <3> QED BY <3>1, <3>2, <3>3 DEF Trimmed
  <2>8. BlobNewRow(a, i) = n
    BY <1>7, <1>11 DEF n, b
  <2>9. n.active[i].nextBottom.row = NoRow /\ n.active[i].lastBottom.row = n.currentRow - 1
    BY <1>8, <2>3, <2>4, <2>5 DEF Trimmed
  <2> QED BY <2>5, <2>7, <2>8, <2>9
<1>12. CASE ~(i <= Len(rest.active))
  <2>1. BlobNewRow(a, i) = rest
    BY <1>7, <1>12
  <2>2. i \notin Active(rest)
    BY <1>9, <1>12 DEF Active
  <2> QED BY <1>8, <2>1, <2>2
<1> QED BY <1>11, <1>12

-----------------------------------------------------------------------------
(* The cursor.                                                             *)

\* The current blob and the next one reach to the row above; only the current one
\* may have segments in the row.
CurrentFresh(a) ==
  \A k \in Active(a) :
    k = a.cur \/ k = a.cur + 1 =>
      /\ a.active[k].lastBottom.row = a.currentRow - 1
      /\ a.active[k].nextBottom.row = NoRow \/ (k = a.cur /\ a.active[k].nextBottom.row = a.currentRow)

\* Right of the current blob nothing is in the row yet.
Ahead(a) ==
  \A k \in Active(a) :
    a.cur < k => /\ Surface(a.active[k]).row < a.currentRow
                 /\ a.active[a.cur].lastBottom.startCol <= Surface(a.active[k]).startCol

\* Left of the current blob nothing will be touched by a segment from column lo on,
\* and what is in the row begins and ends before a segment of columns lo to hi does.
Behind(a, lo, hi) ==
  /\ \A k \in Active(a) : k < a.cur =>
       /\ a.active[k].nextBottom.row = NoRow \/ a.active[k].nextBottom.row = a.currentRow
       /\ \/ a.active[k].lastBottom.row = NoRow
          \/ a.active[k].lastBottom.row < a.currentRow /\ a.active[k].lastBottom.endCol < lo
  /\ \A k \in Active(a) : k <= a.cur /\ a.active[k].nextBottom.row = a.currentRow =>
       /\ a.active[k].nextBottom.startCol <= lo /\ a.active[k].nextBottom.endCol <= hi
       /\ k = a.cur => a.active[k].lastBottom.startCol <= a.active[k].nextBottom.endCol

\* The assembler as it is between two calls of Add, when the next segment of the row
\* begins at lo or right of it and ends at hi or right of it.
Ready(a, lo, hi) ==
  /\ Working(a, {}) /\ a.cur \in 1..Len(a.active) + 1
  /\ CurrentFresh(a) /\ Ahead(a) /\ Behind(a, lo, hi)

LEMMA ReadyLater ==
  ASSUME NEW a, NEW lo \in Int, NEW hi \in Int, Ready(a, lo, hi),
         NEW lo2 \in Int, NEW hi2 \in Int, lo <= lo2, hi <= hi2
  PROVE  Ready(a, lo2, hi2)
<1>1. \A k \in Active(a) : /\ a.active[k].lastBottom.endCol \in Int
                           /\ a.active[k].nextBottom.startCol \in Int
                           /\ a.active[k].nextBottom.endCol \in Int
  BY DEF Ready, Working, ActiveSound, Sound, BlobRecords, Bottom
<1>2. Behind(a, lo2, hi2)
  BY <1>1 DEF Ready, Behind
<1> QED BY <1>2 DEF Ready

LEMMA EmptyIsReady ==
  ASSUME NEW lo, NEW hi
  PROVE  Ready(EmptyAssembler, lo, hi) /\ EmptyAssembler.currentRow = -1
<1> DEFINE a == EmptyAssembler
<1>1. a \in Assemblers
  <2>1. <<>> \in Seq(BlobRecords)
    OBVIOUS
  <2> QED BY <2>1 DEF EmptyAssembler, Assemblers
<1>2. /\ a.currentRow = -1 /\ a.cur = 1 /\ Active(a) = {} /\ Finished(a) = {} /\ Len(a.active) = 0
  BY DEF EmptyAssembler, Active, Finished
<1> HIDE DEF a
<1>3. Working(a, {})
  BY <1>1, <1>2 DEF Working, ActiveSound, FinishedSound, FinishedApart, ActiveApart, ActiveInOrder, NoRow
<1>4. Ready(a, lo, hi)
  BY <1>2, <1>3 DEF Ready, CurrentFresh, Ahead, Behind
<1> QED BY <1>2, <1>4 DEF a

\* While nothing is being joined the position of the cursor says nothing.
LEMMA CursorMoves ==
  ASSUME NEW a, Working(a, {}), NEW c \in Nat
  PROVE  LET n == [a EXCEPT !.cur = c] IN
         /\ Working(n, {}) /\ n.cur = c /\ n.currentRow = a.currentRow /\ n.active = a.active
<1> DEFINE n == [a EXCEPT !.cur = c]
<1>1. /\ n \in Assemblers /\ n.cur = c /\ n.currentRow = a.currentRow
      /\ n.active = a.active /\ n.finished = a.finished
  BY DEF Working, Assemblers
<1> HIDE DEF n
<1>2. Active(n) = Active(a) /\ Finished(n) = Finished(a)
  BY <1>1 DEF Active, Finished
<1>3. ActiveSound(n) /\ FinishedSound(n)
  BY <1>1, <1>2 DEF Working, ActiveSound, FinishedSound
<1>4. FinishedApart(n)
  BY <1>1, <1>2 DEF Working, FinishedApart
<1>5. ActiveApart(n, {}) /\ ActiveInOrder(n, {})
  BY <1>1, <1>2 DEF Working, ActiveApart, ActiveInOrder
<1>6. Working(n, {})
  BY <1>1, <1>3, <1>4, <1>5 DEF Working
<1> QED BY <1>1, <1>6 DEF n

\* The first two blobs are brought up to date for a new row.
LEMMA RewindKeeps ==
  ASSUME NEW a, Working(a, {}), \A k \in Active(a) : Surface(a.active[k]).row < a.currentRow,
         NEW lo, NEW hi
  PROVE  LET n == RewindCurrent(a) IN Ready(n, lo, hi) /\ n.currentRow = a.currentRow
<1> DEFINE start == [a EXCEPT !.cur = 1]
           first == BlobNewRow(start, 1)
           second == BlobNewRow(first, 2)
           n == RewindCurrent(a)
<1>1. /\ Working(start, {}) /\ start.cur = 1 /\ start.currentRow = a.currentRow
      /\ start.active = a.active
  BY CursorMoves
<1> HIDE DEF start
<1>2. /\ Working(first, {}) /\ Trimmed(start, 1, first)
      /\ 1 \in Active(first) => /\ first.active[1].nextBottom.row = NoRow
                                /\ first.active[1].lastBottom.row = first.currentRow - 1
  <2>1. \A k \in Active(start) : 1 <= k => Surface(start.active[k]).row < start.currentRow
    BY <1>1 DEF Active
  <2> QED BY <1>1, <2>1, BlobNewRowKeeps
<1> HIDE DEF first
<1>3. /\ first.currentRow = a.currentRow /\ first.cur = 1 /\ first \in Assemblers
      /\ Len(first.active) \in Nat /\ first.currentRow \in Int
      /\ first.active \in Seq(BlobRecords)
  BY <1>1, <1>2 DEF Trimmed, Working, Assemblers
<1>4. \A k \in Active(first) : Surface(first.active[k]).row < first.currentRow
  <2> SUFFICES ASSUME NEW k \in Active(first) PROVE Surface(first.active[k]).row < first.currentRow
    OBVIOUS
  <2>1. 1 <= k
    BY DEF Active
  <2>2. PICK j \in Active(start) : Surface(first.active[k]) = Surface(start.active[j])
    BY <1>2, <2>1 DEF Trimmed
  <2>3. j \in Active(a)
    BY <1>1 DEF Active
  <2> QED BY <1>1, <1>3, <2>2, <2>3
<1>5. CASE first.active = <<>>
  <2>1. n = first
    BY <1>5 DEF RewindCurrent, first, start
  <2>2. Active(first) = {} /\ Len(first.active) = 0
    BY <1>5 DEF Active
  <2>3. CurrentFresh(first) /\ Ahead(first) /\ Behind(first, lo, hi)
    BY <2>2 DEF CurrentFresh, Ahead, Behind
  <2> HIDE DEF n
  <2> QED BY <1>2, <1>3, <2>1, <2>2, <2>3 DEF Ready, n
<1>6. CASE first.active # <<>>
  <2>1. n = second
    BY <1>6 DEF RewindCurrent, first, start, second
  <2>2. 1 \in Active(first)
    BY <1>3, <1>6 DEF Active
  <2>3. /\ Working(second, {}) /\ Trimmed(first, 2, second)
        /\ 2 \in Active(second) => /\ second.active[2].nextBottom.row = NoRow
                                   /\ second.active[2].lastBottom.row = second.currentRow - 1
    BY <1>2, <1>4, BlobNewRowKeeps
  <2> HIDE DEF second, n
  <2>4. /\ second.currentRow = a.currentRow /\ second.cur = 1 /\ second \in Assemblers
        /\ Len(second.active) \in Nat
    BY <1>3, <2>3 DEF Trimmed, Working, Assemblers
  <2>5. 1 \in Active(second) /\ second.active[1] = first.active[1]
    BY <2>2, <2>3 DEF Trimmed
  <2>6. second.active[1].nextBottom.row = NoRow /\ second.active[1].lastBottom.row = a.currentRow - 1
    BY <1>2, <1>3, <2>2, <2>5
  <2>7. CurrentFresh(second)
    BY <2>3, <2>4, <2>6 DEF CurrentFresh
  <2>8. Ahead(second)
    <3> SUFFICES ASSUME NEW k \in Active(second), 1 < k
                 PROVE  /\ Surface(second.active[k]).row < a.currentRow
                        /\ second.active[1].lastBottom.startCol <= Surface(second.active[k]).startCol
      BY <2>4 DEF Ahead
    <3>1. 2 <= k
      BY DEF Active
    <3>2. PICK j \in Active(first) : 2 <= j /\ Surface(second.active[k]) = Surface(first.active[j])
      BY <2>3, <3>1 DEF Trimmed
    <3>3. Surface(first.active[1]).startCol <= Surface(first.active[j]).startCol
      <4>1. 1 < j
        BY <3>2 DEF Active
      <4> QED BY <1>2, <2>2, <4>1 DEF Working, ActiveInOrder
    <3>4. second.active[1].lastBottom = Surface(first.active[1])
      BY <2>5, <2>6 DEF Surface
    <3> QED BY <1>3, <1>4, <3>2, <3>3, <3>4
  <2>9. Behind(second, lo, hi)
    <3>1. a.currentRow # NoRow
      BY <1>1 DEF Working, Assemblers, NoRow
    <3>2. \A k \in Active(second) : ~(k < 1) /\ (k <= 1 => k = 1)
      BY DEF Active
    <3> QED BY <2>4, <2>6, <3>1, <3>2 DEF Behind
  <2>10. second.cur \in 1..Len(second.active) + 1
    BY <2>4
  <2> QED BY <2>1, <2>3, <2>4, <2>7, <2>8, <2>9, <2>10 DEF Ready, n
<1> QED BY <1>5, <1>6

\* The cursor passes a blob that ends left of a segment that begins at lo.
LEMMA AdvanceKeeps ==
  ASSUME NEW a, NEW lo \in Int, NEW hi \in Int, Ready(a, lo, hi), a.cur \in Active(a),
         a.active[a.cur].lastBottom.endCol < lo
  PROVE  LET n == AdvanceCurrent(a) IN
         /\ Ready(n, lo, hi) /\ n.currentRow = a.currentRow
         /\ n.cur = a.cur + 1 /\ Len(n.active) <= Len(a.active)
<1> DEFINE c == a.cur + 1
           next == [a EXCEPT !.cur = c]
           later == BlobNewRow(next, c + 1)
           n == AdvanceCurrent(a)
<1>1. /\ a \in Assemblers /\ Working(a, {}) /\ CurrentFresh(a) /\ Ahead(a) /\ Behind(a, lo, hi)
      /\ a.cur \in Nat /\ a.cur \in 1..Len(a.active) /\ Len(a.active) \in Nat
      /\ a.currentRow \in Int /\ a.currentRow # NoRow
  BY DEF Ready, Working, Assemblers, Active, NoRow
<1>2. c \in Nat /\ c + 1 \in Nat \ {0} /\ c = a.cur + 1
  BY <1>1
<1>3. /\ Working(next, {}) /\ next.cur = c /\ next.currentRow = a.currentRow
      /\ next.active = a.active
  <2> HIDE DEF c
  <2> QED BY <1>1, <1>2, CursorMoves
<1>4. next = [a EXCEPT !.cur = @ + 1]
  BY <1>1 DEF Assemblers
<1> HIDE DEF c, next
<1>5. Active(next) = Active(a)
  BY <1>3 DEF Active
<1>6. ASSUME NEW k \in Active(a), k < c
      PROVE  /\ a.active[k].nextBottom.row = NoRow \/ a.active[k].nextBottom.row = a.currentRow
             /\ \/ a.active[k].lastBottom.row = NoRow
                \/ a.active[k].lastBottom.row < a.currentRow /\ a.active[k].lastBottom.endCol < lo
             /\ a.active[k].nextBottom.row = a.currentRow =>
                  a.active[k].nextBottom.startCol <= lo /\ a.active[k].nextBottom.endCol <= hi
  <2>1. k \in Int /\ k <= a.cur
    BY <1>1, <1>2, <1>6 DEF Active
  <2>2. CASE k = a.cur
    BY <1>1, <2>2 DEF CurrentFresh, Behind
  <2>3. CASE k # a.cur
    BY <1>1, <2>1, <2>3 DEF Behind
  <2> QED BY <2>2, <2>3
<1>7. c \in Active(a) => /\ a.active[c].nextBottom.row = NoRow
                         /\ a.active[c].lastBottom.row = a.currentRow - 1
  BY <1>1, <1>2 DEF CurrentFresh
<1>8. CASE c <= Len(a.active)
  <2>1. n = later
    BY <1>3, <1>4, <1>8 DEF AdvanceCurrent
  <2>2. c \in Active(a)
    BY <1>1, <1>2, <1>8 DEF Active
  <2>3. \A k \in Active(a) : c + 1 <= k => Surface(a.active[k]).row < a.currentRow
    BY <1>1, <1>2 DEF Ahead, Active
  <2>4. /\ Working(later, {}) /\ Trimmed(next, c + 1, later)
        /\ c + 1 \in Active(later) => /\ later.active[c + 1].nextBottom.row = NoRow
                                      /\ later.active[c + 1].lastBottom.row = later.currentRow - 1
    BY <1>2, <1>3, <1>5, <2>3, BlobNewRowKeeps
  <2> HIDE DEF later, n
  <2>5. /\ later.currentRow = a.currentRow /\ later.cur = c /\ Len(later.active) \in Nat
        /\ Len(later.active) <= Len(a.active)
    BY <1>3, <2>4 DEF Trimmed, Working, Assemblers
  <2>6. \A k \in Active(later) : k < c + 1 => k \in Active(a) /\ later.active[k] = a.active[k]
    BY <1>3, <1>5, <2>4 DEF Trimmed
  <2>7. c \in Active(later) /\ later.active[c] = a.active[c]
    <3>1. c < c + 1
      BY <1>2
    <3>2. c \in Active(later)
      BY <1>5, <2>2, <2>4, <3>1 DEF Trimmed
    <3> QED BY <2>6, <3>1, <3>2
  <2>8. CurrentFresh(later)
    BY <1>7, <2>2, <2>4, <2>5, <2>7 DEF CurrentFresh
  <2>9. Ahead(later)
    <3> SUFFICES ASSUME NEW k \in Active(later), c < k
                 PROVE  /\ Surface(later.active[k]).row < a.currentRow
                        /\ later.active[c].lastBottom.startCol <= Surface(later.active[k]).startCol
      BY <2>5 DEF Ahead
    <3>1. c + 1 <= k
      BY <1>2 DEF Active
    <3>2. PICK j \in Active(a) : c + 1 <= j /\ Surface(later.active[k]) = Surface(a.active[j])
      BY <1>3, <1>5, <2>4, <3>1 DEF Trimmed
    <3>3. Surface(a.active[c]).startCol <= Surface(a.active[j]).startCol
      <4>1. c < j
        BY <1>2, <3>2 DEF Active
      <4> QED BY <1>1, <2>2, <4>1 DEF Working, ActiveInOrder
    <3>4. later.active[c].lastBottom = Surface(a.active[c])
      BY <1>7, <2>2, <2>7 DEF Surface
    <3> QED BY <2>3, <3>2, <3>3, <3>4
  <2>10. Behind(later, lo, hi)
    <3>1. \A k \in Active(later) : k < c => k \in Active(a) /\ later.active[k] = a.active[k]
      BY <1>2, <2>6 DEF Active
    <3>2. later.active[c].nextBottom.row # a.currentRow
      BY <1>1, <1>7, <2>2, <2>7
    <3>3. \A k \in Active(later) : k <= c => k < c \/ k = c
      BY <1>2 DEF Active
    <3>4. \A k \in Active(later) : k <= c /\ later.active[k].nextBottom.row = a.currentRow =>
            /\ later.active[k].nextBottom.startCol <= lo /\ later.active[k].nextBottom.endCol <= hi
            /\ k # c
      BY <1>6, <3>1, <3>2, <3>3
    <3>5. \A k \in Active(later) : k < c =>
            /\ later.active[k].nextBottom.row = NoRow \/ later.active[k].nextBottom.row = a.currentRow
            /\ \/ later.active[k].lastBottom.row = NoRow
               \/ later.active[k].lastBottom.row < a.currentRow /\ later.active[k].lastBottom.endCol < lo
      BY <1>6, <3>1
    <3> QED BY <2>5, <3>4, <3>5 DEF Behind
  <2>11. later.cur \in 1..Len(later.active) + 1
    BY <1>2, <2>5, <2>7 DEF Active
  <2>12. Ready(later, lo, hi)
    BY <2>4, <2>8, <2>9, <2>10, <2>11 DEF Ready
  <2> QED BY <1>2, <2>1, <2>5, <2>12 DEF n
<1>9. CASE ~(c <= Len(a.active))
  <2>1. n = next
    BY <1>3, <1>4, <1>9 DEF AdvanceCurrent
  <2> HIDE DEF n
  <2>2. \A k \in Active(next) : k < c
    BY <1>1, <1>2, <1>5, <1>9 DEF Active
  <2>3. c \in 1..Len(next.active) + 1
    BY <1>1, <1>2, <1>3
  <2>4. CurrentFresh(next) /\ Ahead(next)
    <3>1. \A k \in Active(next) : k # c /\ k # c + 1 /\ ~(c < k)
      BY <1>2, <2>2 DEF Active
    <3> QED BY <1>3, <3>1 DEF CurrentFresh, Ahead
  <2>5. Behind(next, lo, hi)
    <3>1. \A k \in Active(next) : k # c
      BY <1>2, <2>2 DEF Active
    <3> QED BY <1>3, <1>5, <1>6, <2>2, <3>1 DEF Behind
  <2>6. Ready(next, lo, hi)
    BY <1>3, <2>3, <2>4, <2>5 DEF Ready
  <2> QED BY <1>2, <1>3, <2>1, <2>6 DEF n
<1> QED BY <1>8, <1>9

\* The cursor stops at the first blob that does not end left of the segment.
LEMMA SeekKeeps ==
  ASSUME NEW a, NEW s \in Segments, Ready(a, s.startCol, s.endCol)
  PROVE  LET n == Seek(a, s) IN
         /\ Ready(n, s.startCol, s.endCol) /\ n.currentRow = a.currentRow
         /\ n.cur \in Active(n) => s.startCol <= n.active[n.cur].lastBottom.endCol
<1> DEFINE len == Len(a.active)
           n == Passing!Iterate(s, a, 0, len)
           Passes(m) == m.cur <= Len(m.active) /\ s.startCol > m.active[m.cur].lastBottom.endCol
           Good(k, m) == /\ Ready(m, s.startCol, s.endCol) /\ m.currentRow = a.currentRow
                         /\ Len(m.active) <= len
                         /\ k < m.cur \/ ~Passes(m)
           I == {p \in (0..len) \X Assemblers : Good(p[1], p[2])}
<1>1. a \in Assemblers /\ len \in Nat /\ a.cur \in 1..len + 1
  BY DEF Ready, Working, Assemblers
<1>2. s.startCol \in Int /\ s.endCol \in Int
  BY DEF Segments, Bottom
<1>3. <<0, a>> \in I
  <2>1. Good(0, a)
    BY <1>1
  <2>2. 0 \in 0..len
    BY <1>1
  <2> HIDE DEF Good
  <2> QED BY <1>1, <2>1, <2>2
<1>4. ASSUME NEW k \in 0 + 1..len, NEW m, <<k - 1, m>> \in I
      PROVE  <<k, Pass(s, m, k)>> \in I
  <2> DEFINE p == Pass(s, m, k)
  <2>1. k - 1 \in 0..len /\ k \in 0..len /\ m \in Assemblers /\ Good(k - 1, m)
    BY <1>4
  <2>2. m.cur \in 1..Len(m.active) + 1 /\ Len(m.active) \in Nat
    BY <2>1 DEF Ready, Assemblers
  <2>3. p \in Assemblers /\ Good(k, p)
    <3>1. CASE Passes(m)
      <4>1. m.cur \in Active(m)
        BY <2>2, <3>1 DEF Active
      <4>2. m.active[m.cur].lastBottom.endCol \in Int
        BY <2>1, <4>1 DEF Ready, Working, ActiveSound, Sound, BlobRecords, Bottom
      <4>3. p = AdvanceCurrent(m)
        BY <3>1 DEF Pass
      <4> HIDE DEF p
      <4>4. m.active[m.cur].lastBottom.endCol < s.startCol
        BY <1>2, <3>1, <4>2
      <4>5. /\ Ready(p, s.startCol, s.endCol) /\ p.currentRow = m.currentRow
            /\ p.cur = m.cur + 1 /\ Len(p.active) <= Len(m.active)
        BY <1>2, <2>1, <4>1, <4>3, <4>4, AdvanceKeeps
      <4>6. p \in Assemblers /\ Len(p.active) \in Nat
        BY <4>5 DEF Ready, Working, Assemblers
      <4>7. Len(p.active) <= len /\ k < p.cur
        <5> HIDE DEF len
        <5> QED BY <1>1, <2>1, <2>2, <3>1, <4>5, <4>6
      <4> HIDE DEF len
      <4> QED BY <2>1, <4>5, <4>6, <4>7
    <3>2. CASE ~Passes(m)
      <4>1. p = m
        BY <3>2 DEF Pass
      <4> HIDE DEF p
      <4> QED BY <2>1, <3>2, <4>1
    <3> QED BY <3>1, <3>2
  <2> HIDE DEF p, Good
  <2>4. <<k, p>> \in I
    BY <2>1, <2>3
  <2> QED BY <2>4 DEF p
<1>5. <<len, n>> \in I
  <2> HIDE DEF I, len
  <2>1. 0 \in Int /\ len \in Int /\ 0 <= len
    BY <1>1
  <2> QED BY <1>3, <1>4, <2>1, Passing!LoopRule
<1>6. Seek(a, s) = n
  BY Zenon DEF Seek, Loop, Passing!Iterate
<1> HIDE DEF n
<1>7. n \in Assemblers /\ Good(len, n)
  BY <1>5
<1>8. Len(n.active) \in Nat /\ n.cur \in Nat
  BY <1>7 DEF Assemblers
<1>9. ASSUME n.cur \in Active(n) PROVE s.startCol <= n.active[n.cur].lastBottom.endCol
  <2>1. n.active[n.cur].lastBottom.endCol \in Int
    BY <1>7, <1>9 DEF Ready, Working, ActiveSound, Sound, BlobRecords, Bottom
  <2>2. n.cur <= Len(n.active) /\ Len(n.active) <= len
    BY <1>7, <1>9 DEF Active
  <2>3. ~Passes(n)
    <3> HIDE DEF len, Passes
    <3> QED BY <1>1, <1>7, <1>8, <2>2
  <2> QED BY <1>2, <2>1, <2>2, <2>3
<1> QED BY <1>6, <1>7, <1>9

-----------------------------------------------------------------------------
(* A segment is attached.                                                  *)

\* What lies left of the cursor in the row above ends left of the segment.
LEMMA LeftIsPassed ==
  ASSUME NEW a, NEW lo \in Int, NEW hi \in Int, NEW open, Working(a, open), Behind(a, lo, hi),
         NEW k \in Active(a), k < a.cur
  PROVE  /\ \A u \in Segs(a.active[k]) : u.row = a.currentRow - 1 => u.endCol < lo
         /\ Surface(a.active[k]).startCol <= lo
<1> DEFINE b == a.active[k]
<1>1. Sound(b) /\ a.currentRow \in Int /\ a.currentRow < NoRow
  BY DEF Working, ActiveSound, Assemblers
<1>2. /\ b.nextBottom.row = NoRow \/ b.nextBottom.row = a.currentRow
      /\ \/ b.lastBottom.row = NoRow
         \/ b.lastBottom.row < a.currentRow /\ b.lastBottom.endCol < lo
  BY DEF Behind
<1>3. b.nextBottom.row = a.currentRow => b.nextBottom.startCol <= lo
  <2>1. k <= a.cur
    BY DEF Active, Working, Assemblers
  <2> QED BY <2>1 DEF Behind
<1> HIDE DEF b
<1>4. /\ b.lastBottom \in Bottom /\ b.nextBottom \in Bottom
      /\ \A u \in Segs(b) : u.row \in Nat /\ u.startCol \in Int /\ u.endCol \in Int
  BY <1>1 DEF Sound, BlobRecords, Segments, Bottom
<1>5. /\ b.lastBottom.row \in Nat /\ b.lastBottom.startCol \in Int /\ b.lastBottom.endCol \in Int
      /\ b.nextBottom.row \in Nat
  BY <1>4 DEF Bottom
<1>6. ASSUME NEW u \in Segs(b), u.row = a.currentRow - 1 PROVE u.endCol < lo
  <2>1. b.lastBottom.row # NoRow /\ u.row <= b.lastBottom.row /\ Within(u, b.lastBottom)
    <3>1. CASE b.nextBottom.row = NoRow
      <4>1. b.lastBottom.row < NoRow /\ Surface(b) = b.lastBottom
        BY <1>1, <3>1, SurfaceRow
      <4>2. u.row <= Surface(b).row /\ Within(u, Surface(b))
        BY <1>1 DEF Sound, Hulls
      <4> QED BY <1>5, <4>1, <4>2 DEF NoRow
    <3>2. CASE b.nextBottom.row # NoRow
      <4>1. u.row # b.nextBottom.row
        BY <1>1, <1>2, <1>6, <3>2
      <4> QED BY <1>1, <3>2, <4>1 DEF Sound, Hulls
    <3> QED BY <3>1, <3>2
  <2>2. b.lastBottom.row < a.currentRow /\ b.lastBottom.endCol < lo
    BY <1>2, <2>1
  <2>3. u.row = b.lastBottom.row
    BY <1>1, <1>4, <1>5, <1>6, <2>1, <2>2
  <2> QED BY <1>4, <1>5, <2>1, <2>2, <2>3 DEF Within
<1>7. Surface(b).startCol <= lo
  <2>1. CASE b.nextBottom.row = NoRow
    <3>1. b.lastBottom.row < NoRow /\ Surface(b) = b.lastBottom
      BY <1>1, <2>1, SurfaceRow
    <3>2. Surface(b).startCol <= Surface(b).endCol
      BY <1>1 DEF Sound, Hulls
    <3>3. b.lastBottom.row # NoRow
      BY <1>5, <3>1 DEF NoRow
    <3> QED BY <1>2, <1>5, <3>1, <3>2, <3>3
  <2>2. CASE b.nextBottom.row # NoRow
    BY <1>2, <1>3, <2>2 DEF Surface
  <2> QED BY <2>1, <2>2
<1> QED BY <1>6, <1>7 DEF b

\* No segment of the row touches a finished blob, and nothing is below the row.
LEMMA NothingBelow ==
  ASSUME NEW a, NEW open, Working(a, open), NEW s \in Segments, s.row = a.currentRow
  PROVE  /\ \A k \in Finished(a) : \A u \in Segs(a.finished[k]) : ~Touch(s, u) /\ ~Touch(u, s)
         /\ \A k \in Active(a) : \A u \in Segs(a.active[k]) : ~Touch(s, u)
<1>1. a.currentRow \in Int /\ FinishedSound(a) /\ ActiveSound(a)
  BY DEF Working, Assemblers
<1>2. ASSUME NEW k \in Finished(a), NEW u \in Segs(a.finished[k])
      PROVE  u.row \in Int /\ u.row < a.currentRow - 1
  <2> DEFINE b == a.finished[k]
  <2>1. Sound(b) /\ b.nextBottom.row = NoRow /\ b.lastBottom.row < a.currentRow - 1
    BY <1>1 DEF FinishedSound
  <2>2. u.row \in Int /\ u.row <= b.lastBottom.row /\ b.lastBottom.row \in Int
    BY <2>1 DEF Sound, Hulls, Surface, Segments, BlobRecords, Bottom
  <2> HIDE DEF b
  <2> QED BY <1>1, <2>1, <2>2
<1>3. ASSUME NEW k \in Active(a), NEW u \in Segs(a.active[k])
      PROVE  u.row \in Int /\ u.row <= a.currentRow
  <2> DEFINE b == a.active[k]
  <2>1. Sound(b) /\ Surface(b).row <= a.currentRow
    BY <1>1 DEF ActiveSound
  <2>2. u.row \in Int /\ u.row <= Surface(b).row /\ Surface(b).row \in Int
    BY <2>1, SurfaceRow DEF Sound, Hulls, Segments, Bottom
  <2> HIDE DEF b
  <2> QED BY <1>1, <2>1, <2>2
<1> QED BY <1>1, <1>2, <1>3 DEF Touch

\* The current blob has got the segment, which may touch blobs right of it too.
Attached(a, s) ==
  /\ Working(a, {s}) /\ a.cur \in Active(a) /\ a.currentRow = s.row
  /\ CurrentFresh(a) /\ Ahead(a) /\ Behind(a, s.startCol, s.endCol)
  /\ a.active[a.cur].nextBottom.row = s.row
  /\ a.active[a.cur].nextBottom.startCol <= s.startCol

LEMMA AttachKeeps ==
  ASSUME NEW a, NEW s \in Segments, Ready(a, s.startCol, s.endCol), a.currentRow = s.row,
         a.cur \in Active(a), a.active[a.cur].lastBottom.startCol <= s.endCol
  PROVE  LET n == [a EXCEPT !.active[a.cur] = AddToBlob(@, s)] IN
         Attached(n, s) /\ Len(n.active) = Len(a.active) /\ n.cur = a.cur
<1> DEFINE c == a.cur
           old == a.active[c]
           b == AddToBlob(old, s)
           list == [a.active EXCEPT ![c] = b]
           n == [a EXCEPT !.active[a.cur] = AddToBlob(@, s)]
<1>1. /\ Working(a, {}) /\ CurrentFresh(a) /\ Ahead(a) /\ Behind(a, s.startCol, s.endCol)
      /\ a \in Assemblers /\ a.currentRow < NoRow /\ a.currentRow # NoRow
      /\ ActiveSound(a) /\ FinishedSound(a) /\ FinishedApart(a)
      /\ ActiveApart(a, {}) /\ ActiveInOrder(a, {})
  BY DEF Ready, Working, Assemblers, NoRow
<1>2. /\ a.active \in Seq(BlobRecords) /\ c \in 1..Len(a.active) /\ c \in Active(a)
      /\ Len(a.active) \in Nat /\ a.currentRow \in Int
      /\ s.row \in Int /\ s.startCol \in Int /\ s.endCol \in Int /\ s.startCol <= s.endCol
  BY <1>1 DEF Assemblers, Active, Segments, Bottom
<1>3. Sound(old) /\ old \in BlobRecords
  BY <1>1 DEF ActiveSound, Sound
<1>4. /\ old.lastBottom.row = s.row - 1
      /\ old.nextBottom.row = NoRow \/ old.nextBottom.row = s.row
      /\ old.nextBottom.row = s.row =>
           old.nextBottom.startCol <= s.startCol /\ old.nextBottom.endCol <= s.endCol
  <2>1. c <= c
    BY <1>2
  <2> QED BY <1>1, <1>2, <2>1 DEF CurrentFresh, Behind
<1>5. a.cur \in Nat /\ c = a.cur
  BY <1>2
<1> HIDE DEF c, old
<1>6. /\ Sound(b) /\ Segs(b) = Segs(old) \cup {s} /\ b.lastBottom = old.lastBottom
      /\ b.nextBottom.row = s.row /\ b.nextBottom.startCol <= s.startCol
      /\ b.nextBottom.endCol = s.endCol
  <2>1. old.nextBottom.row = NoRow => old.lastBottom.row < s.row
    BY <1>2, <1>4
  <2>2. old.nextBottom.row # NoRow => /\ old.nextBottom.row = s.row
                                      /\ old.nextBottom.startCol <= s.startCol
                                      /\ old.nextBottom.endCol <= s.endCol
    BY <1>4
  <2> QED BY <1>3, <2>1, <2>2, AddSound
<1>7. b.nextBottom.startCol = s.startCol \/ b.nextBottom.startCol = Surface(old).startCol
  <2>1. /\ old.nextBottom.row = NoRow => b.nextBottom = s
        /\ old.nextBottom.row # NoRow => b.nextBottom.startCol = old.nextBottom.startCol
    BY <1>3, AddToBlobFields
  <2> QED BY <2>1 DEF Surface
<1>8. Surface(b) = b.nextBottom
  BY <1>1, <1>6 DEF Surface
<1>9. b \in BlobRecords /\ b.nextBottom.startCol \in Int
  BY <1>6 DEF Sound, BlobRecords, Bottom
<1> HIDE DEF b
<1>10. /\ list \in Seq(BlobRecords) /\ Len(list) = Len(a.active) /\ list[c] = b
       /\ \A j \in 1..Len(a.active) : j # c => list[j] = a.active[j]
  BY <1>2, <1>9
<1>11. n = [a EXCEPT !.active = list]
  BY <1>1 DEF Assemblers, b, c, old
<1> HIDE DEF n, list
<1>12. /\ n \in Assemblers /\ n.currentRow = a.currentRow /\ n.cur = c
       /\ n.active = list /\ n.finished = a.finished
  BY <1>1, <1>5, <1>10, <1>11 DEF Assemblers
<1>13. /\ Active(n) = Active(a) /\ Finished(n) = Finished(a)
       /\ n.active[c] = b /\ \A j \in Active(a) : j # c => n.active[j] = a.active[j]
  BY <1>10, <1>12 DEF Active, Finished
<1>14. \A j \in Active(n) : \A u \in Segs(n.active[j]) :
         u \in Segs(a.active[j]) \/ (j = c /\ u = s)
  BY <1>6, <1>13 DEF old
<1>15. /\ \A k \in Finished(a) : \A u \in Segs(a.finished[k]) : ~Touch(s, u) /\ ~Touch(u, s)
       /\ \A k \in Active(a) : \A u \in Segs(a.active[k]) : ~Touch(s, u)
  BY <1>1, NothingBelow
<1>16. ActiveSound(n)
  <2>1. Surface(b).row <= a.currentRow
    BY <1>2, <1>6, <1>8
  <2> QED BY <1>1, <1>6, <1>12, <1>13, <2>1 DEF ActiveSound
<1>17. FinishedSound(n)
  BY <1>1, <1>12, <1>13 DEF FinishedSound
<1>18. FinishedApart(n)
  <2>1. \A i, j \in Finished(n) : i # j => Apart(n.finished[i], n.finished[j])
    BY <1>1, <1>12, <1>13 DEF FinishedApart
  <2>2. ASSUME NEW i \in Active(n), NEW j \in Finished(n)
        PROVE  Apart(n.active[i], n.finished[j]) /\ Apart(n.finished[j], n.active[i])
    <3>1. Apart(a.active[i], a.finished[j]) /\ Apart(a.finished[j], a.active[i])
      BY <1>1, <1>13 DEF FinishedApart
    <3> QED BY <1>12, <1>13, <1>14, <1>15, <3>1 DEF Apart
  <2> QED BY <2>1, <2>2 DEF FinishedApart
<1>19. ActiveApart(n, {s})
  <2> SUFFICES ASSUME NEW i \in Active(n), NEW j \in Active(n), i # j,
                      NEW u \in Segs(n.active[i]), NEW t \in Segs(n.active[j]), Touch(u, t)
               PROVE  t \in {s} /\ j = n.cur /\ n.cur < i
    BY DEF ActiveApart
  <2>1. ~(u \in Segs(a.active[i]) /\ t \in Segs(a.active[j]))
    BY <1>1, <1>13 DEF ActiveApart
  <2>2. CASE i = c /\ u = s
    <3>1. t \in Segs(a.active[j])
      BY <1>14, <2>2
    <3> QED BY <1>13, <1>15, <2>2, <3>1
  <2>3. CASE j = c /\ t = s
    <3>1. u \in Segs(a.active[i]) /\ i \in Active(a)
      BY <1>13, <1>14, <2>3
    <3>2. ASSUME i < c PROVE FALSE
      <4>1. u.row = a.currentRow - 1 => u.endCol < s.startCol
        BY <1>1, <1>2, <1>5, <3>1, <3>2, LeftIsPassed
      <4>2. u.row \in Int /\ u.endCol \in Int
        BY <1>1, <3>1 DEF ActiveSound, Sound, Segments, Bottom
      <4> QED BY <1>2, <2>3, <4>1, <4>2 DEF Touch
    <3> QED BY <1>2, <1>12, <1>13, <2>3, <3>2 DEF Active
  <2> QED BY <1>14, <2>1, <2>2, <2>3
<1>20. ActiveInOrder(n, {s})
  <2> SUFFICES ASSUME NEW i \in Active(n), NEW j \in Active(n), i < j, i # c
               PROVE  Surface(n.active[i]).startCol <= Surface(n.active[j]).startCol
    BY <1>12 DEF ActiveInOrder
  <2>1. Surface(a.active[i]).startCol <= Surface(a.active[j]).startCol
    BY <1>1, <1>13 DEF ActiveInOrder
  <2>2. CASE j = c
    <3>1. Surface(a.active[i]).startCol <= s.startCol
      BY <1>1, <1>2, <1>5, <1>13, <2>2, LeftIsPassed
    <3> QED BY <1>7, <1>8, <1>13, <2>1, <2>2, <3>1 DEF old
  <2>3. CASE j # c
    BY <1>13, <2>1, <2>3
  <2> QED BY <2>2, <2>3
<1>21. CurrentFresh(n)
  BY <1>1, <1>4, <1>5, <1>6, <1>12, <1>13 DEF CurrentFresh, old
<1>22. Ahead(n)
  <2> SUFFICES ASSUME NEW k \in Active(a), c < k
               PROVE  /\ Surface(n.active[k]).row < a.currentRow
                      /\ b.lastBottom.startCol <= Surface(n.active[k]).startCol
    BY <1>12, <1>13 DEF Ahead
  <2>1. k # c
    BY <1>2
  <2> QED BY <1>1, <1>5, <1>6, <1>13, <2>1 DEF Ahead, old
<1>23. Behind(n, s.startCol, s.endCol)
  <2>1. \A k \in Active(n) : k < c => k # c
    BY <1>2
  <2>2. \A k \in Active(n) : k < c =>
       /\ n.active[k].nextBottom.row = NoRow \/ n.active[k].nextBottom.row = n.currentRow
       /\ \/ n.active[k].lastBottom.row = NoRow
          \/ n.active[k].lastBottom.row < n.currentRow /\ n.active[k].lastBottom.endCol < s.startCol
    BY <1>1, <1>5, <1>12, <1>13, <2>1 DEF Behind
  <2>3. ASSUME NEW k \in Active(n), k <= c, n.active[k].nextBottom.row = n.currentRow
        PROVE  /\ n.active[k].nextBottom.startCol <= s.startCol /\ n.active[k].nextBottom.endCol <= s.endCol
               /\ k = c => n.active[k].lastBottom.startCol <= n.active[k].nextBottom.endCol
    <3>1. CASE k = c
      <4>1. b.lastBottom.startCol <= s.endCol
        BY <1>6 DEF old, c
      <4> QED BY <1>2, <1>6, <1>13, <3>1, <4>1
    <3>2. CASE k # c
      BY <1>1, <1>5, <1>12, <1>13, <2>3, <3>2 DEF Behind
    <3> QED BY <3>1, <3>2
  <2> QED BY <1>12, <2>2, <2>3 DEF Behind
<1>24. Working(n, {s})
  BY <1>1, <1>12, <1>16, <1>17, <1>18, <1>19, <1>20 DEF Working
<1>25. Attached(n, s)
  BY <1>2, <1>6, <1>12, <1>13, <1>21, <1>22, <1>23, <1>24 DEF Attached
<1> QED BY <1>5, <1>10, <1>12, <1>25 DEF n

\* The blob right of the current one becomes part of it and leaves the list.
LEMMA JoinFields ==
  ASSUME NEW a \in Assemblers, a.cur \in Active(a), a.cur + 1 \in Active(a),
         NEW b \in BlobRecords
  PROVE  LET c == a.cur
             m == [a EXCEPT !.active = RemoveAt([a.active EXCEPT ![c] = b], c + 1)]
         IN /\ m \in Assemblers /\ m.currentRow = a.currentRow /\ m.cur = c
            /\ m.finished = a.finished /\ Len(m.active) = Len(a.active) - 1
            /\ m.active[c] = b /\ c \in Active(m)
            /\ \A j \in Active(m) : j < c => m.active[j] = a.active[j]
            /\ \A j \in Active(m) : c < j => j + 1 \in Active(a) /\ m.active[j] = a.active[j + 1]
<1> DEFINE c == a.cur
           joined == [a.active EXCEPT ![c] = b]
           list == RemoveAt(joined, c + 1)
           m == [a EXCEPT !.active = list]
<1>1. /\ a.active \in Seq(BlobRecords) /\ c \in 1..Len(a.active) /\ c + 1 \in 1..Len(a.active)
      /\ Len(a.active) \in Nat
  BY DEF Assemblers, Active
<1> HIDE DEF c
<1>2. /\ joined \in Seq(BlobRecords) /\ Len(joined) = Len(a.active) /\ joined[c] = b
      /\ \A j \in 1..Len(a.active) : j # c => joined[j] = a.active[j]
  BY <1>1
<1> HIDE DEF joined
<1>3. /\ list \in Seq(BlobRecords) /\ Len(list) = Len(a.active) - 1
      /\ \A j \in 1..Len(a.active) - 1 : list[j] = joined[IF j < c + 1 THEN j ELSE j + 1]
  <2>1. c + 1 \in 1..Len(joined)
    BY <1>1, <1>2
  <2> QED BY <1>2, <2>1, Removed
<1> HIDE DEF list
<1>4. /\ m \in Assemblers /\ m.currentRow = a.currentRow /\ m.cur = a.cur
      /\ m.finished = a.finished /\ m.active = list
  BY <1>3 DEF Assemblers
<1> HIDE DEF m
<1>5. Active(m) = 1..Len(a.active) - 1 /\ Active(a) = 1..Len(a.active)
  BY <1>3, <1>4 DEF Active
<1>6. c \in Active(m) /\ m.active[c] = b
  <2>1. c \in 1..Len(a.active) - 1 /\ c < c + 1
    BY <1>1
  <2> QED BY <1>2, <1>3, <1>4, <1>5, <2>1
<1>7. ASSUME NEW j \in Active(m), j < c PROVE m.active[j] = a.active[j]
  <2>1. j \in 1..Len(a.active) - 1 /\ j < c + 1 /\ j # c /\ j \in 1..Len(a.active)
    BY <1>1, <1>5, <1>7
  <2>2. list[j] = joined[j]
    BY <1>3, <2>1
  <2> QED BY <1>2, <1>4, <2>1, <2>2
<1>8. ASSUME NEW j \in Active(m), c < j PROVE j + 1 \in Active(a) /\ m.active[j] = a.active[j + 1]
  <2>1. /\ j \in 1..Len(a.active) - 1 /\ ~(j < c + 1) /\ j + 1 # c
        /\ j + 1 \in 1..Len(a.active)
    BY <1>1, <1>5, <1>8
  <2>2. list[j] = joined[j + 1]
    BY <1>3, <2>1
  <2> QED BY <1>2, <1>4, <1>5, <2>1, <2>2
<1> QED BY <1>3, <1>4, <1>6, <1>7, <1>8 DEF m, list, joined, c

LEMMA JoinKeeps ==
  ASSUME NEW a, NEW s \in Segments, Attached(a, s), a.cur + 1 \in Active(a), NEW turn,
         a.active[a.cur + 1].lastBottom.startCol <= s.endCol
  PROVE  LET n == Join(s, a, turn) IN
         Attached(n, s) /\ Len(n.active) < Len(a.active) /\ n.cur = a.cur
<1> DEFINE c == a.cur
           old == a.active[c]
           gone == a.active[c + 1]
           b == Assimilate(old, gone)
           m == [a EXCEPT !.active = RemoveAt([a.active EXCEPT ![c] = b], c + 1)]
           n == BlobNewRow(m, c + 1)
<1>1. /\ Working(a, {s}) /\ CurrentFresh(a) /\ Ahead(a) /\ Behind(a, s.startCol, s.endCol)
      /\ a \in Assemblers /\ a.currentRow < NoRow /\ a.currentRow # NoRow
      /\ ActiveSound(a) /\ FinishedSound(a) /\ FinishedApart(a)
      /\ ActiveApart(a, {s}) /\ ActiveInOrder(a, {s})
      /\ a.currentRow = s.row /\ old.nextBottom.row = s.row
      /\ old.nextBottom.startCol <= s.startCol
  BY DEF Attached, Working, Assemblers, NoRow
<1>2. /\ c \in Active(a) /\ c + 1 \in Active(a) /\ c \in Nat /\ c < c + 1
      /\ a.currentRow \in Int /\ Len(a.active) \in Nat
  BY <1>1 DEF Attached, Active, Assemblers
<1>3. Join(s, a, turn) = n
  <2>1. a.cur < Len(a.active) /\ s.endCol >= a.active[a.cur + 1].lastBottom.startCol
    <3>1. a.active[a.cur + 1].lastBottom.startCol \in Int /\ s.endCol \in Int
      BY <1>1, <1>2 DEF ActiveSound, Sound, BlobRecords, Bottom, Segments
    <3> QED BY <1>2, <3>1 DEF Active
  <2>2. a.active[a.cur] = old
    OBVIOUS
  <2>3. [a.active EXCEPT ![a.cur] = Assimilate(@, a.active[a.cur + 1])] = [a.active EXCEPT ![c] = b]
    BY <1>1, <1>2 DEF Assemblers, Active
  <2> QED BY <2>1, <2>3 DEF Join
<1>4. /\ Sound(old) /\ Sound(gone)
      /\ old.lastBottom.row = s.row - 1
      /\ gone.lastBottom.row = s.row - 1 /\ gone.nextBottom.row = NoRow
      /\ old.lastBottom.startCol <= Surface(gone).startCol
  <2>1. c + 1 # a.cur
    BY <1>2
  <2> QED BY <1>1, <1>2, <2>1 DEF ActiveSound, CurrentFresh, Ahead
<1> HIDE DEF old, gone
<1>5. /\ Sound(b) /\ Segs(b) = Segs(old) \cup Segs(gone) /\ b.nextBottom = old.nextBottom
      /\ b.lastBottom.row = old.lastBottom.row
      /\ b.lastBottom.startCol = old.lastBottom.startCol
  <2>1. /\ old.nextBottom.row # NoRow /\ old.lastBottom.row = old.nextBottom.row - 1
        /\ gone.lastBottom.row = old.nextBottom.row - 1
        /\ old.lastBottom.startCol <= gone.lastBottom.startCol
    BY <1>1, <1>4 DEF Surface
  <2> QED BY <1>4, <2>1, AssimilateSound
<1>6. b \in BlobRecords /\ Surface(b) = Surface(old) /\ Surface(b) = b.nextBottom
  BY <1>1, <1>5 DEF Sound, Surface
<1> HIDE DEF b
<1>7. /\ m \in Assemblers /\ m.currentRow = a.currentRow /\ m.cur = c
      /\ m.finished = a.finished /\ Len(m.active) = Len(a.active) - 1
      /\ m.active[c] = b /\ c \in Active(m)
      /\ \A j \in Active(m) : j < c => m.active[j] = a.active[j]
      /\ \A j \in Active(m) : c < j => j + 1 \in Active(a) /\ m.active[j] = a.active[j + 1]
  BY <1>1, <1>2, <1>6, JoinFields
<1> HIDE DEF m, c
<1>8. Finished(m) = Finished(a) /\ \A j \in Active(m) : j \in Active(a) /\ j \in Int
  BY <1>2, <1>7 DEF Finished, Active
\* The index in a of the blob that is at index j in m.
<1> DEFINE was(j) == IF j <= c THEN j ELSE j + 1
<1>9. \A j \in Active(m) : /\ was(j) \in Active(a) /\ was(j) # c + 1
                           /\ j # c => m.active[j] = a.active[was(j)]
                           /\ (was(j) = c) <=> (j = c)
                           /\ (c < was(j)) <=> (c < j)
  BY <1>2, <1>7, <1>8
<1>10. \A i, j \in Active(m) : /\ i # j => was(i) # was(j)
                               /\ i < j => was(i) < was(j)
  BY <1>2, <1>8
<1> HIDE DEF was
<1>11. ActiveSound(m)
  <2> SUFFICES ASSUME NEW j \in Active(m)
               PROVE  Sound(m.active[j]) /\ Surface(m.active[j]).row <= m.currentRow
    BY DEF ActiveSound
  <2>1. CASE j = c
    BY <1>1, <1>2, <1>5, <1>6, <1>7, <2>1 DEF ActiveSound, old
  <2>2. CASE j # c
    BY <1>1, <1>7, <1>9, <2>2 DEF ActiveSound
  <2> QED BY <2>1, <2>2
<1>12. FinishedSound(m)
  BY <1>1, <1>7, <1>8 DEF FinishedSound
<1>13. FinishedApart(m)
  <2>1. \A i, j \in Finished(m) : i # j => Apart(m.finished[i], m.finished[j])
    BY <1>1, <1>7, <1>8 DEF FinishedApart
  <2>2. ASSUME NEW i \in Active(m), NEW j \in Finished(m)
        PROVE  Apart(m.active[i], m.finished[j]) /\ Apart(m.finished[j], m.active[i])
    <3>1. CASE i = c
      <4>1. /\ Apart(old, a.finished[j]) /\ Apart(a.finished[j], old)
            /\ Apart(gone, a.finished[j]) /\ Apart(a.finished[j], gone)
        BY <1>1, <1>2, <1>8 DEF FinishedApart, old, gone
      <4> QED BY <1>5, <1>7, <3>1, <4>1 DEF Apart
    <3>2. CASE i # c
      BY <1>1, <1>7, <1>8, <1>9, <3>2 DEF FinishedApart
    <3> QED BY <3>1, <3>2
  <2> QED BY <2>1, <2>2 DEF FinishedApart
<1>14. ActiveApart(m, {s})
  <2> SUFFICES ASSUME NEW i \in Active(m), NEW j \in Active(m), i # j,
                      NEW u \in Segs(m.active[i]), NEW t \in Segs(m.active[j]), Touch(u, t)
               PROVE  t \in {s} /\ j = m.cur /\ m.cur < i
    BY DEF ActiveApart
  <2>1. \A k, l \in Active(a) : k # l =>
          \A x \in Segs(a.active[k]), y \in Segs(a.active[l]) :
            Touch(x, y) => y \in {s} /\ l = c /\ c < k
    BY <1>1 DEF ActiveApart, c
  <2>2. c + 1 # c
    BY <1>2
  <2>3. CASE i = c
    <3>1. /\ was(j) \in Active(a) /\ was(j) # c /\ was(j) # c + 1 /\ t \in Segs(a.active[was(j)])
      BY <1>9, <2>3
    <3>2. u \in Segs(a.active[c]) \/ u \in Segs(a.active[c + 1])
      BY <1>5, <1>7, <2>3 DEF old, gone
    <3> QED BY <1>2, <2>1, <3>1, <3>2
  <2>4. CASE j = c
    <3>1. /\ was(i) \in Active(a) /\ was(i) # c /\ was(i) # c + 1 /\ u \in Segs(a.active[was(i)])
          /\ (c < was(i)) <=> (c < i)
      BY <1>9, <2>4
    <3>2. t \in Segs(a.active[c]) \/ t \in Segs(a.active[c + 1])
      BY <1>5, <1>7, <2>4 DEF old, gone
    <3> QED BY <1>2, <1>7, <2>1, <2>2, <2>4, <3>1, <3>2
  <2>5. CASE i # c /\ j # c
    <3>1. /\ was(i) \in Active(a) /\ was(j) \in Active(a) /\ was(i) # was(j) /\ was(j) # c
          /\ u \in Segs(a.active[was(i)]) /\ t \in Segs(a.active[was(j)])
      BY <1>9, <1>10, <2>5
    <3> QED BY <2>1, <3>1
  <2> QED BY <2>3, <2>4, <2>5
<1>15. \A j \in Active(m) : Surface(m.active[j]) = Surface(a.active[was(j)])
  BY <1>6, <1>7, <1>9 DEF was, old
<1>16. ActiveInOrder(m, {s})
  <2> SUFFICES ASSUME NEW i \in Active(m), NEW j \in Active(m), i < j, i # c
               PROVE  Surface(m.active[i]).startCol <= Surface(m.active[j]).startCol
    BY <1>7 DEF ActiveInOrder
  <2> QED BY <1>1, <1>9, <1>10, <1>15 DEF ActiveInOrder, c
<1>17. Working(m, {s})
  BY <1>1, <1>7, <1>11, <1>12, <1>13, <1>14, <1>16 DEF Working
<1>18. \A j \in Active(m) : c < j =>
          /\ Surface(m.active[j]).row < a.currentRow
          /\ old.lastBottom.startCol <= Surface(m.active[j]).startCol
  BY <1>1, <1>9, <1>15 DEF Ahead, c, old
<1>19. /\ Working(n, {s}) /\ Trimmed(m, c + 1, n)
       /\ c + 1 \in Active(n) => /\ n.active[c + 1].nextBottom.row = NoRow
                                 /\ n.active[c + 1].lastBottom.row = n.currentRow - 1
  <2>1. \A x \in {s} : x.row = m.currentRow
    BY <1>1, <1>7
  <2>2. c + 1 \in Nat \ {0} /\ m.cur < c + 1
    BY <1>2, <1>7
  <2>3. \A j \in Active(m) : c + 1 <= j => Surface(m.active[j]).row < m.currentRow
    BY <1>2, <1>7, <1>8, <1>18
  <2> HIDE DEF n
  <2> QED BY <1>17, <2>1, <2>2, <2>3, BlobNewRowKeeps DEF n
<1> HIDE DEF n
<1>20. /\ n.currentRow = a.currentRow /\ n.cur = c /\ Len(n.active) \in Nat
       /\ Len(n.active) < Len(a.active) /\ n \in Assemblers
  BY <1>2, <1>7, <1>19 DEF Trimmed, Working, Assemblers
<1>21. /\ \A k \in Active(n) : k < c + 1 => k \in Active(m) /\ n.active[k] = m.active[k]
       /\ c \in Active(n) /\ n.active[c] = b
  BY <1>2, <1>7, <1>19 DEF Trimmed
<1>22. CurrentFresh(n)
  BY <1>1, <1>4, <1>5, <1>19, <1>20, <1>21 DEF CurrentFresh
<1>23. Ahead(n)
  <2> SUFFICES ASSUME NEW k \in Active(n), c < k
               PROVE  /\ Surface(n.active[k]).row < a.currentRow
                      /\ old.lastBottom.startCol <= Surface(n.active[k]).startCol
    BY <1>5, <1>20, <1>21 DEF Ahead
  <2>1. c + 1 <= k
    BY <1>2, <1>20 DEF Active
  <2>2. PICK j \in Active(m) : c + 1 <= j /\ Surface(n.active[k]) = Surface(m.active[j])
    BY <1>19, <2>1 DEF Trimmed
  <2>3. c < j
    BY <1>2, <1>8, <2>2
  <2> QED BY <1>18, <2>2, <2>3
<1>24. Behind(n, s.startCol, s.endCol)
  <2>1. \A k \in Active(n) : k < c =>
          k \in Active(a) /\ n.active[k] = a.active[k] /\ k # c /\ k <= c
    BY <1>2, <1>7, <1>8, <1>20, <1>21 DEF Active
  <2>2. \A k \in Active(n) : k < c =>
       /\ n.active[k].nextBottom.row = NoRow \/ n.active[k].nextBottom.row = n.currentRow
       /\ \/ n.active[k].lastBottom.row = NoRow
          \/ n.active[k].lastBottom.row < n.currentRow /\ n.active[k].lastBottom.endCol < s.startCol
    BY <1>1, <1>20, <2>1 DEF Behind, c
  <2>3. ASSUME NEW k \in Active(n), k <= c, n.active[k].nextBottom.row = n.currentRow
        PROVE  /\ n.active[k].nextBottom.startCol <= s.startCol /\ n.active[k].nextBottom.endCol <= s.endCol
               /\ k = c => n.active[k].lastBottom.startCol <= n.active[k].nextBottom.endCol
    <3>1. CASE k = c
      <4>1. c <= c
        BY <1>2
      <4> QED BY <1>1, <1>2, <1>5, <1>21, <3>1, <4>1 DEF Behind, c, old
    <3>2. CASE k # c
      <4>1. k < c
        BY <1>2, <2>3, <3>2 DEF Active
      <4> QED BY <1>1, <1>20, <2>1, <2>3, <4>1 DEF Behind, c
    <3> QED BY <3>1, <3>2
  <2> QED BY <1>20, <2>2, <2>3 DEF Behind
<1>25. Attached(n, s)
  BY <1>1, <1>5, <1>19, <1>20, <1>21, <1>22, <1>23, <1>24 DEF Attached
<1> QED BY <1>3, <1>20, <1>25 DEF n, c

\* When the next blob does not touch the segment, all is in order again.
LEMMA NothingLeftToJoin ==
  ASSUME NEW a, NEW s \in Segments, Attached(a, s),
         a.cur + 1 \in Active(a) => s.endCol < a.active[a.cur + 1].lastBottom.startCol
  PROVE  Ready(a, s.startCol, s.endCol)
<1> DEFINE c == a.cur
<1>1. /\ Working(a, {s}) /\ CurrentFresh(a) /\ Ahead(a) /\ Behind(a, s.startCol, s.endCol)
      /\ a \in Assemblers /\ a.currentRow < NoRow /\ ActiveSound(a)
      /\ ActiveApart(a, {s}) /\ ActiveInOrder(a, {s}) /\ a.currentRow = s.row
      /\ a.active[c].nextBottom.row = s.row /\ a.active[c].nextBottom.startCol <= s.startCol
      /\ c \in Active(a)
  BY DEF Attached, Working
<1>2. /\ c \in Nat /\ a.currentRow \in Int /\ Len(a.active) \in Nat /\ a.currentRow # NoRow
      /\ s.startCol \in Int /\ s.endCol \in Int /\ s.startCol <= s.endCol /\ c = a.cur
  BY <1>1 DEF Assemblers, NoRow, Segments, Bottom
<1> HIDE DEF c
<1>3. \A j \in Active(a) : /\ Surface(a.active[j]) \in Bottom
                           /\ Surface(a.active[j]).startCol \in Int /\ Surface(a.active[j]).row \in Int
  <2> SUFFICES ASSUME NEW j \in Active(a) PROVE Surface(a.active[j]) \in Bottom
    BY DEF Bottom
  <2> QED BY <1>1, SurfaceRow DEF ActiveSound
<1>4. ASSUME NEW j \in Active(a), c < j PROVE s.endCol < Surface(a.active[j]).startCol
  <2>1. c + 1 \in Active(a) /\ c + 1 <= j /\ j \in Int
    BY <1>2, <1>4 DEF Active
  <2>2. Surface(a.active[c + 1]) = a.active[c + 1].lastBottom
    BY <1>1, <1>2, <2>1 DEF CurrentFresh, Surface
  <2>3. s.endCol < Surface(a.active[c + 1]).startCol
    BY <1>2, <2>1, <2>2
  <2>4. CASE c + 1 = j
    BY <2>3, <2>4
  <2>5. CASE c + 1 # j
    <3>1. c + 1 < j /\ c + 1 # c
      BY <1>2, <2>1, <2>5
    <3>2. Surface(a.active[c + 1]).startCol <= Surface(a.active[j]).startCol
      BY <1>1, <1>2, <2>1, <3>1 DEF ActiveInOrder
    <3> QED BY <1>2, <1>3, <2>1, <2>3, <3>2
  <2> QED BY <2>4, <2>5
<1>5. ActiveApart(a, {})
  <2> SUFFICES ASSUME NEW i \in Active(a), NEW j \in Active(a), i # j,
                      NEW u \in Segs(a.active[i]), NEW t \in Segs(a.active[j]), Touch(u, t)
               PROVE  FALSE
    BY DEF ActiveApart
  <2>1. t = s /\ j = c /\ c < i
    BY <1>1, <1>2 DEF ActiveApart
  <2>2. /\ u.row <= Surface(a.active[i]).row /\ Within(u, Surface(a.active[i]))
        /\ u.row \in Int /\ u.startCol \in Int /\ u.endCol \in Int
    BY <1>1 DEF ActiveSound, Sound, Hulls, Segments, Bottom
  <2>3. Surface(a.active[i]).row < a.currentRow
    BY <1>1, <1>2, <2>1 DEF Ahead
  <2>4. s.row = u.row + 1 /\ u.startCol <= s.endCol
    BY <2>1 DEF Touch
  <2>5. u.row = Surface(a.active[i]).row
    BY <1>1, <1>2, <1>3, <2>2, <2>3, <2>4
  <2>6. s.endCol < u.startCol
    BY <1>2, <1>3, <1>4, <2>1, <2>2, <2>5 DEF Within
  <2> QED BY <1>2, <2>2, <2>4, <2>6
<1>6. ActiveInOrder(a, {})
  <2> SUFFICES ASSUME NEW i \in Active(a), NEW j \in Active(a), i < j
               PROVE  Surface(a.active[i]).startCol <= Surface(a.active[j]).startCol
    BY DEF ActiveInOrder
  <2>1. CASE i # c
    BY <1>1, <1>2, <2>1 DEF ActiveInOrder
  <2>2. CASE i = c
    <3>1. Surface(a.active[c]) = a.active[c].nextBottom
      BY <1>1, <1>2 DEF Surface
    <3>2. Surface(a.active[c]).startCol <= s.startCol
      BY <1>1, <3>1
    <3>3. s.endCol < Surface(a.active[j]).startCol
      BY <1>4, <2>2
    <3> QED BY <1>1, <1>2, <1>3, <2>2, <3>2, <3>3
  <2> QED BY <2>1, <2>2
<1>7. Working(a, {})
  BY <1>1, <1>5, <1>6 DEF Working
<1>8. a.cur \in 1..Len(a.active) + 1
  BY <1>1, <1>2 DEF Active
<1> QED BY <1>1, <1>7, <1>8 DEF Ready

LEMMA AbsorbKeeps ==
  ASSUME NEW a, NEW s \in Segments, Attached(a, s)
  PROVE  LET n == Absorb(a, s) IN
         /\ Ready(n, s.startCol, s.endCol) /\ n.currentRow = s.row
<1> DEFINE len == Len(a.active)
           n == Joining!Iterate(s, a, 0, len)
           Joins(m) == m.cur < Len(m.active) /\ s.endCol >= m.active[m.cur + 1].lastBottom.startCol
           Good(k, m) == Attached(m, s) /\ (Len(m.active) + k <= len \/ ~Joins(m))
           I == {p \in (0..len) \X Assemblers : Good(p[1], p[2])}
<1>1. a \in Assemblers /\ len \in Nat
  BY DEF Attached, Working, Assemblers
<1>2. s.endCol \in Int
  BY DEF Segments, Bottom
<1>3. <<0, a>> \in I
  <2>1. Good(0, a)
    BY <1>1
  <2>2. 0 \in 0..len
    BY <1>1
  <2> HIDE DEF Good
  <2> QED BY <1>1, <2>1, <2>2
<1>4. ASSUME NEW m, Attached(m, s), Joins(m)
      PROVE  /\ m.cur + 1 \in Active(m) /\ m.active[m.cur + 1].lastBottom.startCol <= s.endCol
  <2>1. m \in Assemblers /\ m.cur \in Active(m) /\ ActiveSound(m)
    BY <1>4 DEF Attached, Working
  <2>2. m.cur + 1 \in Active(m)
    BY <1>4, <2>1 DEF Active, Assemblers
  <2>3. m.active[m.cur + 1].lastBottom.startCol \in Int
    BY <2>1, <2>2 DEF ActiveSound, Sound, BlobRecords, Bottom
  <2> QED BY <1>2, <1>4, <2>2, <2>3
<1>5. ASSUME NEW k \in 0 + 1..len, NEW m, <<k - 1, m>> \in I
      PROVE  <<k, Join(s, m, k)>> \in I
  <2> DEFINE p == Join(s, m, k)
  <2>1. k - 1 \in 0..len /\ k \in 0..len /\ m \in Assemblers /\ Good(k - 1, m)
    BY <1>5
  <2>2. Len(m.active) \in Nat
    BY <2>1 DEF Assemblers
  <2>3. p \in Assemblers /\ Good(k, p)
    <3>1. CASE Joins(m)
      <4>1. m.cur + 1 \in Active(m) /\ m.active[m.cur + 1].lastBottom.startCol <= s.endCol
        BY <1>4, <2>1, <3>1
      <4> HIDE DEF p, len
      <4>2. Attached(p, s) /\ Len(p.active) < Len(m.active)
        BY <2>1, <4>1, JoinKeeps DEF p
      <4>3. p \in Assemblers /\ Len(p.active) \in Nat
        BY <4>2 DEF Attached, Working, Assemblers
      <4> QED BY <1>1, <2>1, <2>2, <3>1, <4>2, <4>3
    <3>2. CASE ~Joins(m)
      <4>1. p = m
        BY <3>2 DEF Join
      <4> HIDE DEF p
      <4> QED BY <2>1, <3>2, <4>1
    <3> QED BY <3>1, <3>2
  <2> HIDE DEF p, Good
  <2>4. <<k, p>> \in I
    BY <2>1, <2>3
  <2> QED BY <2>4 DEF p
<1>6. <<len, n>> \in I
  <2> HIDE DEF I, len
  <2>1. 0 \in Int /\ len \in Int /\ 0 <= len
    BY <1>1
  <2> QED BY <1>3, <1>5, <2>1, Joining!LoopRule
<1>7. Absorb(a, s) = n
  BY Zenon DEF Absorb, Loop, Joining!Iterate
<1> HIDE DEF n
<1>8. n \in Assemblers /\ Good(len, n)
  BY <1>6
<1>9. n.cur \in Active(n) /\ Len(n.active) \in Nat /\ ActiveSound(n) /\ n.currentRow = s.row
  BY <1>8 DEF Attached, Assemblers, Working
<1>10. ~Joins(n)
  <2> HIDE DEF Joins, len
  <2> QED BY <1>1, <1>8, <1>9 DEF Active
<1>11. ASSUME n.cur + 1 \in Active(n) PROVE s.endCol < n.active[n.cur + 1].lastBottom.startCol
  <2>1. n.active[n.cur + 1].lastBottom.startCol \in Int
    BY <1>9, <1>11 DEF ActiveSound, Sound, BlobRecords, Bottom
  <2>2. n.cur < Len(n.active)
    BY <1>9, <1>11 DEF Active
  <2> QED BY <1>2, <1>10, <2>1, <2>2
<1>12. Ready(n, s.startCol, s.endCol)
  BY <1>8, <1>11, NothingLeftToJoin
<1> QED BY <1>7, <1>9, <1>12

\* A segment that touches no blob becomes one, left of the cursor.
LEMMA InsertKeeps ==
  ASSUME NEW a, NEW s \in Segments, Ready(a, s.startCol, s.endCol), a.currentRow = s.row,
         a.cur \in Active(a) => s.endCol < a.active[a.cur].lastBottom.startCol
  PROVE  LET n == InsertNew(a, s) IN
         /\ Ready(n, s.startCol, s.endCol) /\ n.currentRow = s.row
<1> DEFINE c == a.cur
           b == AddToBlob(NewBlob, s)
           list == InsertAt(a.active, c, b)
           n == InsertNew(a, s)
<1>1. /\ Working(a, {}) /\ CurrentFresh(a) /\ Ahead(a) /\ Behind(a, s.startCol, s.endCol)
      /\ a \in Assemblers /\ a.currentRow < NoRow /\ a.currentRow # NoRow
      /\ ActiveSound(a) /\ FinishedSound(a) /\ FinishedApart(a)
      /\ ActiveApart(a, {}) /\ ActiveInOrder(a, {})
  BY DEF Ready, Working, Assemblers, NoRow
<1>2. /\ a.active \in Seq(BlobRecords) /\ c \in 1..Len(a.active) + 1 /\ c \in Nat
      /\ Len(a.active) \in Nat /\ a.currentRow \in Int /\ c = a.cur
      /\ s.row \in Int /\ s.startCol \in Int /\ s.endCol \in Int /\ s.startCol <= s.endCol
  BY <1>1 DEF Ready, Assemblers, Segments, Bottom
<1>3. Sound(b) /\ Segs(b) = {s} /\ b.nextBottom = s /\ b.lastBottom.row = NoRow
  BY NewBlobSound
<1> HIDE DEF c, b
<1>4. b \in BlobRecords /\ Surface(b) = s
  BY <1>1, <1>3 DEF Sound, Surface
<1>5. /\ list \in Seq(BlobRecords) /\ Len(list) = Len(a.active) + 1
      /\ \A j \in 1..Len(a.active) + 1 :
           list[j] = IF j < c THEN a.active[j] ELSE IF j = c THEN b ELSE a.active[j - 1]
  <2>1. a.active \in Seq(BlobRecords) /\ c \in 1..Len(a.active) + 1
    BY <1>2
  <2>2. b \in BlobRecords
    BY <1>4
  <2>3. list \in Seq(BlobRecords)
    BY <2>1, <2>2, Inserted, Zenon
  <2>4. Len(list) = Len(a.active) + 1
    BY <2>1, <2>2, Inserted
  <2>5. ASSUME NEW j \in 1..Len(a.active) + 1
        PROVE  list[j] = IF j < c THEN a.active[j] ELSE IF j = c THEN b ELSE a.active[j - 1]
    BY <2>1, <2>2, Inserted
  <2> QED BY <2>3, <2>4, <2>5
<1>6. n = [a EXCEPT !.active = list, !.cur = c + 1]
  BY <1>1, <1>2 DEF InsertNew, Assemblers, list, b
<1> HIDE DEF n, list
<1>7. /\ n \in Assemblers /\ n.currentRow = a.currentRow /\ n.cur = c + 1
      /\ n.active = list /\ n.finished = a.finished
  <2>1. c + 1 \in Nat
    BY <1>2
  <2> QED BY <1>1, <1>5, <1>6, <2>1 DEF Assemblers
<1>8. Finished(n) = Finished(a) /\ Active(n) = 1..Len(a.active) + 1 /\ c \in Active(n)
  BY <1>2, <1>5, <1>7 DEF Finished, Active
\* The index in a of the blob that is at index j in n.
<1> DEFINE was(j) == IF j < c THEN j ELSE j - 1
<1>9. n.active[c] = b
  BY <1>5, <1>7, <1>8
<1>10. \A j \in Active(n) : j # c => /\ was(j) \in Active(a) /\ n.active[j] = a.active[was(j)]
                                     /\ (was(j) < c) <=> (j < c)
                                     /\ (c <= was(j)) <=> (c < j)
  BY <1>2, <1>5, <1>7, <1>8 DEF Active
<1>11. \A i, j \in Active(n) : i # c /\ j # c => /\ i # j => was(i) # was(j)
                                                 /\ i < j => was(i) < was(j)
  BY <1>2, <1>8
<1> HIDE DEF was
<1>12. \A j \in Active(a) : /\ Surface(a.active[j]).startCol \in Int /\ Surface(a.active[j]).row \in Int
                            /\ a.active[j].lastBottom.startCol \in Int
                            /\ a.active[j].nextBottom.endCol \in Int
  <2> SUFFICES ASSUME NEW j \in Active(a)
               PROVE  /\ Surface(a.active[j]).startCol \in Int /\ Surface(a.active[j]).row \in Int
                      /\ a.active[j].lastBottom.startCol \in Int
                      /\ a.active[j].nextBottom.endCol \in Int
    OBVIOUS
  <2>1. Sound(a.active[j])
    BY <1>1 DEF ActiveSound
  <2>2. Surface(a.active[j]) \in Bottom
    BY <2>1, SurfaceRow
  <2>3. Surface(a.active[j]).startCol \in Int /\ Surface(a.active[j]).row \in Int
    BY <2>2 DEF Bottom
  <2> QED BY <2>1, <2>3 DEF Sound, BlobRecords, Bottom
\* The current blob has nothing in the row: it would have been touched.
<1>13. c \in Active(a) => /\ a.active[c].nextBottom.row = NoRow
                          /\ a.active[c].lastBottom.row = a.currentRow - 1
                          /\ Surface(a.active[c]) = a.active[c].lastBottom
  <2> SUFFICES ASSUME c \in Active(a)
               PROVE  /\ a.active[c].nextBottom.row = NoRow
                      /\ a.active[c].lastBottom.row = a.currentRow - 1
    BY DEF Surface
  <2>1. a.active[c].lastBottom.row = a.currentRow - 1
    BY <1>1, <1>2 DEF CurrentFresh
  <2>2. a.active[c].nextBottom.row # a.currentRow
    <3> SUFFICES ASSUME a.active[c].nextBottom.row = a.currentRow PROVE FALSE
      OBVIOUS
    <3>1. c <= a.cur
      BY <1>2
    <3>2. /\ a.active[c].nextBottom.endCol <= s.endCol
          /\ a.active[c].lastBottom.startCol <= a.active[c].nextBottom.endCol
      BY <1>1, <1>2, <3>1 DEF Behind
    <3> QED BY <1>2, <1>12, <3>2
  <2> QED BY <1>1, <1>2, <2>1, <2>2 DEF CurrentFresh
<1>14. ASSUME NEW j \in Active(a), c <= j
       PROVE  s.endCol < Surface(a.active[j]).startCol /\ Surface(a.active[j]).row < a.currentRow
  <2>1. c \in Active(a) /\ j \in Int
    BY <1>2, <1>14 DEF Active
  <2>2. s.endCol < Surface(a.active[c]).startCol /\ Surface(a.active[c]).row < a.currentRow
    BY <1>2, <1>13, <2>1
  <2>3. CASE j = c
    BY <2>2, <2>3
  <2>4. CASE j # c
    <3>1. c < j
      BY <1>2, <1>14, <2>1, <2>4
    <3>2. Surface(a.active[c]).startCol <= Surface(a.active[j]).startCol
      BY <1>1, <2>1, <3>1 DEF ActiveInOrder
    <3>3. Surface(a.active[j]).row < a.currentRow
      BY <1>1, <1>2, <3>1 DEF Ahead
    <3> QED BY <1>2, <1>12, <2>1, <2>2, <3>2, <3>3
  <2> QED BY <2>3, <2>4
<1>15. /\ \A k \in Finished(a) : \A u \in Segs(a.finished[k]) : ~Touch(s, u) /\ ~Touch(u, s)
       /\ \A k \in Active(a) : \A u \in Segs(a.active[k]) : ~Touch(s, u)
  BY <1>1, NothingBelow
<1>16. ASSUME NEW j \in Active(a), NEW u \in Segs(a.active[j]) PROVE ~Touch(u, s)
  <2> SUFFICES ASSUME Touch(u, s) PROVE FALSE
    OBVIOUS
  <2>1. /\ u.row \in Int /\ u.startCol \in Int /\ u.endCol \in Int /\ j \in Int
        /\ u.row <= Surface(a.active[j]).row /\ Within(u, Surface(a.active[j]))
    BY <1>1 DEF ActiveSound, Sound, Hulls, Segments, Bottom, Active
  <2>2. u.row = a.currentRow - 1 /\ u.startCol <= s.endCol /\ s.startCol <= u.endCol
    BY <1>2, <2>1 DEF Touch
  <2>3. CASE j < c
    <3>1. u.endCol < s.startCol
      BY <1>1, <1>2, <2>2, <2>3, LeftIsPassed
    <3> QED BY <1>2, <2>1, <2>2, <3>1
  <2>4. CASE ~(j < c)
    <3>1. s.endCol < Surface(a.active[j]).startCol /\ Surface(a.active[j]).row < a.currentRow
      BY <1>2, <1>14, <2>1, <2>4
    <3>2. u.row = Surface(a.active[j]).row
      BY <1>2, <1>12, <2>1, <2>2, <3>1
    <3> QED BY <1>2, <1>12, <2>1, <2>2, <3>1, <3>2 DEF Within
  <2> QED BY <2>3, <2>4
<1>17. ActiveSound(n)
  <2> SUFFICES ASSUME NEW j \in Active(n)
               PROVE  Sound(n.active[j]) /\ Surface(n.active[j]).row <= n.currentRow
    BY DEF ActiveSound
  <2>1. CASE j = c
    BY <1>2, <1>3, <1>4, <1>7, <1>9, <2>1
  <2>2. CASE j # c
    BY <1>1, <1>7, <1>10, <2>2 DEF ActiveSound
  <2> QED BY <2>1, <2>2
<1>18. FinishedSound(n)
  BY <1>1, <1>7, <1>8 DEF FinishedSound
<1>19. FinishedApart(n)
  <2>1. \A i, j \in Finished(n) : i # j => Apart(n.finished[i], n.finished[j])
    BY <1>1, <1>7, <1>8 DEF FinishedApart
  <2>2. ASSUME NEW i \in Active(n), NEW j \in Finished(n)
        PROVE  Apart(n.active[i], n.finished[j]) /\ Apart(n.finished[j], n.active[i])
    <3>1. CASE i = c
      BY <1>3, <1>7, <1>8, <1>9, <1>15, <3>1 DEF Apart
    <3>2. CASE i # c
      BY <1>1, <1>7, <1>8, <1>10, <3>2 DEF FinishedApart
    <3> QED BY <3>1, <3>2
  <2> QED BY <2>1, <2>2 DEF FinishedApart
<1>20. ActiveApart(n, {})
  <2> SUFFICES ASSUME NEW i \in Active(n), NEW j \in Active(n), i # j,
                      NEW u \in Segs(n.active[i]), NEW t \in Segs(n.active[j]), Touch(u, t)
               PROVE  FALSE
    BY DEF ActiveApart
  <2>1. CASE i = c
    BY <1>3, <1>9, <1>10, <1>15, <2>1
  <2>2. CASE j = c
    BY <1>3, <1>9, <1>10, <1>16, <2>2
  <2>3. CASE i # c /\ j # c
    <3>1. was(i) \in Active(a) /\ was(j) \in Active(a) /\ was(i) # was(j)
      BY <1>10, <1>11, <2>3
    <3>2. u \in Segs(a.active[was(i)]) /\ t \in Segs(a.active[was(j)])
      BY <1>10, <2>3
    <3> QED BY <1>1, <3>1, <3>2 DEF ActiveApart
  <2> QED BY <2>1, <2>2, <2>3
<1>21. ActiveInOrder(n, {})
  <2> SUFFICES ASSUME NEW i \in Active(n), NEW j \in Active(n), i < j
               PROVE  Surface(n.active[i]).startCol <= Surface(n.active[j]).startCol
    BY DEF ActiveInOrder
  <2>1. i \in Int /\ j \in Int
    BY <1>8
  <2>2. CASE i = c
    <3>1. /\ was(j) \in Active(a) /\ c <= was(j) /\ n.active[j] = a.active[was(j)]
      BY <1>2, <1>10, <2>1, <2>2
    <3>2. s.endCol < Surface(a.active[was(j)]).startCol
      BY <1>14, <3>1
    <3>3. Surface(n.active[i]) = s /\ Surface(n.active[j]) = Surface(a.active[was(j)])
      BY <1>4, <1>9, <2>2, <3>1
    <3>4. Surface(a.active[was(j)]).startCol \in Int
      BY <1>12, <3>1
    <3> QED BY <1>2, <3>2, <3>3, <3>4
  <2>3. CASE j = c
    <3>1. /\ was(i) \in Active(a) /\ was(i) < c /\ n.active[i] = a.active[was(i)]
      BY <1>2, <1>10, <2>1, <2>3
    <3>2. Surface(a.active[was(i)]).startCol <= s.startCol
      BY <1>1, <1>2, <3>1, LeftIsPassed
    <3> QED BY <1>4, <1>9, <2>3, <3>1, <3>2
  <2>4. CASE i # c /\ j # c
    <3>1. was(i) \in Active(a) /\ was(j) \in Active(a) /\ was(i) < was(j)
      BY <1>10, <1>11, <2>4
    <3>2. Surface(a.active[was(i)]).startCol <= Surface(a.active[was(j)]).startCol
      BY <1>1, <3>1 DEF ActiveInOrder
    <3> QED BY <1>10, <2>4, <3>2
  <2> QED BY <2>2, <2>3, <2>4
<1>22. ASSUME NEW j \in Active(n), ~(j < c + 1)
       PROVE  /\ j - 1 \in Active(a) /\ c <= j - 1 /\ n.active[j] = a.active[j - 1] /\ j \in Int
              /\ was(j) = j - 1
  <2>1. j # c /\ j \in Int /\ ~(j < c)
    BY <1>2, <1>8, <1>22
  <2>2. was(j) = j - 1
    BY <2>1 DEF was
  <2>3. was(j) \in Active(a) /\ n.active[j] = a.active[was(j)]
    BY <1>10, <2>1
  <2>4. c <= j - 1
    BY <1>2, <1>22, <2>1
  <2> QED BY <2>1, <2>2, <2>3, <2>4
<1>23. CurrentFresh(n)
  <2> SUFFICES ASSUME NEW k \in Active(n), k = c + 1 \/ k = c + 2
               PROVE  /\ n.active[k].lastBottom.row = a.currentRow - 1
                      /\ n.active[k].nextBottom.row = NoRow
    BY <1>2, <1>7 DEF CurrentFresh
  <2>1. k - 1 \in Active(a) /\ n.active[k] = a.active[k - 1]
    BY <1>2, <1>22
  <2>2. k - 1 = c \/ k - 1 = c + 1
    BY <1>2
  <2>3. CASE k - 1 = c
    BY <1>13, <2>1, <2>3
  <2>4. CASE k - 1 = c + 1
    <3>1. k - 1 # c
      BY <1>2, <2>4
    <3> QED BY <1>1, <1>2, <2>1, <2>4, <3>1 DEF CurrentFresh
  <2> QED BY <2>2, <2>3, <2>4
<1>24. Ahead(n)
  <2> SUFFICES ASSUME NEW k \in Active(n), c + 1 < k
               PROVE  /\ Surface(n.active[k]).row < a.currentRow
                      /\ n.active[c + 1].lastBottom.startCol <= Surface(n.active[k]).startCol
    BY <1>7 DEF Ahead
  <2>1. k \in Int /\ c + 1 \in Active(n) /\ ~(c + 1 < c + 1) /\ ~(k < c + 1)
    BY <1>2, <1>8
  <2>2. /\ k - 1 \in Active(a) /\ c <= k - 1 /\ n.active[k] = a.active[k - 1]
        /\ c < k - 1
    BY <1>2, <1>22, <2>1
  <2>3. c \in Active(a) /\ n.active[c + 1] = a.active[c]
    <3>1. (c + 1) - 1 \in Active(a) /\ n.active[c + 1] = a.active[(c + 1) - 1]
      BY <1>22, <2>1
    <3>2. (c + 1) - 1 = c
      BY <1>2
    <3> QED BY <3>1, <3>2
  <2> QED BY <1>1, <1>2, <2>2, <2>3 DEF Ahead
<1>25. Behind(n, s.startCol, s.endCol)
  <2>1. \A k \in Active(n) : k < c => k \in Active(a) /\ n.active[k] = a.active[k] /\ k < a.cur /\ k <= a.cur
                                      /\ k \in Int
    BY <1>2, <1>8, <1>10 DEF was
  <2>2. ASSUME NEW k \in Active(n), k < c + 1
        PROVE  /\ n.active[k].nextBottom.row = NoRow \/ n.active[k].nextBottom.row = n.currentRow
               /\ \/ n.active[k].lastBottom.row = NoRow
                  \/ n.active[k].lastBottom.row < n.currentRow /\ n.active[k].lastBottom.endCol < s.startCol
    <3>1. k = c \/ k < c
      BY <1>2, <1>8, <2>2
    <3>2. CASE k = c
      BY <1>3, <1>7, <1>9, <3>2
    <3>3. CASE k < c
      BY <1>1, <1>7, <2>1, <3>3 DEF Behind
    <3> QED BY <3>1, <3>2, <3>3
  <2>3. ASSUME NEW k \in Active(n), k <= c + 1, n.active[k].nextBottom.row = n.currentRow
        PROVE  /\ n.active[k].nextBottom.startCol <= s.startCol /\ n.active[k].nextBottom.endCol <= s.endCol
               /\ k # c + 1
    <3>1. k = c \/ k < c \/ k = c + 1
      BY <1>2, <1>8, <2>3
    <3>2. CASE k = c
      BY <1>2, <1>3, <1>9, <3>2
    <3>3. CASE k < c
      <4>1. k # c + 1
        BY <1>2, <1>8, <3>3
      <4> QED BY <1>1, <1>7, <2>1, <2>3, <3>3, <4>1 DEF Behind
    <3>4. CASE k = c + 1
      <4>1. n.active[k].nextBottom.row = NoRow
        BY <1>7, <1>23, <3>4, <1>1, <1>2, <1>13, <1>22 DEF Active
      <4> QED BY <1>1, <1>7, <2>3, <4>1
    <3> QED BY <3>1, <3>2, <3>3, <3>4
  <2> QED BY <1>7, <2>2, <2>3 DEF Behind
<1>26. Working(n, {})
  BY <1>1, <1>7, <1>17, <1>18, <1>19, <1>20, <1>21 DEF Working
<1>27. n.cur \in 1..Len(n.active) + 1
  BY <1>2, <1>5, <1>7
<1> QED BY <1>7, <1>23, <1>24, <1>25, <1>26, <1>27 DEF Ready, n

-----------------------------------------------------------------------------
(* Add.                                                                    *)

\* When a lower row begins, all blobs are above it.
LEMMA RowBegins ==
  ASSUME NEW a, Working(a, {}), NEW r \in Int, a.currentRow < r, r < NoRow
  PROVE  LET n == [a EXCEPT !.currentRow = r] IN
         /\ Working(n, {}) /\ n.currentRow = r
         /\ \A k \in Active(n) : Surface(n.active[k]).row < r
<1> DEFINE n == [a EXCEPT !.currentRow = r]
<1>1. /\ n \in Assemblers /\ n.cur = a.cur /\ n.currentRow = r
      /\ n.active = a.active /\ n.finished = a.finished /\ a.currentRow \in Int
  BY DEF Working, Assemblers
<1> HIDE DEF n
<1>2. Active(n) = Active(a) /\ Finished(n) = Finished(a)
  BY <1>1 DEF Active, Finished
<1>3. \A k \in Active(a) : /\ Sound(a.active[k]) /\ Surface(a.active[k]).row <= a.currentRow
                           /\ Surface(a.active[k]).row \in Int
  BY SurfaceRow DEF Working, ActiveSound, Bottom
<1>4. ActiveSound(n) /\ \A k \in Active(n) : Surface(n.active[k]).row < r
  BY <1>1, <1>2, <1>3 DEF ActiveSound
<1>5. FinishedSound(n)
  <2>1. \A k \in Finished(a) : /\ Sound(a.finished[k]) /\ a.finished[k].nextBottom.row = NoRow
                               /\ a.finished[k].lastBottom.row < a.currentRow - 1
                               /\ a.finished[k].lastBottom.row \in Int
    BY DEF Working, FinishedSound, Sound, BlobRecords, Bottom
  <2> QED BY <1>1, <1>2, <2>1 DEF FinishedSound
<1>6. FinishedApart(n)
  BY <1>1, <1>2 DEF Working, FinishedApart
<1>7. ActiveApart(n, {}) /\ ActiveInOrder(n, {})
  BY <1>1, <1>2 DEF Working, ActiveApart, ActiveInOrder
<1>8. Working(n, {})
  BY <1>1, <1>4, <1>5, <1>6, <1>7 DEF Working
<1> QED BY <1>1, <1>4, <1>8 DEF n

\* The segment becomes part of the blobs it touches, or a blob if it touches none and
\* there is memory; the assembler is ready for the segments to the right of it.
THEOREM AddKeeps ==
  ASSUME NEW a, NEW s \in Segments, NEW heapFull, Working(a, {}), a.currentRow <= s.row,
         a.currentRow = s.row => Ready(a, s.startCol, s.endCol)
  PROVE  LET n == Add(a, s, heapFull) IN
         /\ Ready(n.asm, s.startCol, s.endCol) /\ n.asm.currentRow = s.row
         /\ n.res = 0 \/ n.res = -1
<1> DEFINE lower == [a EXCEPT !.currentRow = s.row]
           rewound == IF s.row = a.currentRow THEN a ELSE RewindCurrent(lower)
           at == Seek(rewound, s)
           touches == at.cur <= Len(at.active) /\ s.endCol >= at.active[at.cur].lastBottom.startCol
           attached == [at EXCEPT !.active[at.cur] = AddToBlob(@, s)]
           n == Add(a, s, heapFull)
<1>1. /\ s.row \in Int /\ s.row < NoRow /\ s.startCol \in Int /\ s.endCol \in Int
      /\ a.currentRow \in Int
  BY DEF Segments, Bottom, Working, Assemblers
<1>2. Ready(rewound, s.startCol, s.endCol) /\ rewound.currentRow = s.row
  <2>1. CASE s.row = a.currentRow
    BY <2>1
  <2>2. CASE s.row # a.currentRow
    <3>1. a.currentRow < s.row
      BY <1>1, <2>2
    <3>2. /\ Working(lower, {}) /\ lower.currentRow = s.row
          /\ \A k \in Active(lower) : Surface(lower.active[k]).row < s.row
      BY <1>1, <3>1, RowBegins
    <3> HIDE DEF lower
    <3>3. Ready(RewindCurrent(lower), s.startCol, s.endCol) /\ RewindCurrent(lower).currentRow = s.row
      BY <3>2, RewindKeeps
    <3> QED BY <2>2, <3>3
  <2> QED BY <2>1, <2>2
<1>3. n = IF touches THEN [asm |-> Absorb(attached, s), res |-> 0]
          ELSE IF heapFull THEN [asm |-> at, res |-> -1]
          ELSE [asm |-> InsertNew(at, s), res |-> 0]
  BY Zenon DEF Add
<1> HIDE DEF rewound, n
<1>4. /\ Ready(at, s.startCol, s.endCol) /\ at.currentRow = s.row
      /\ at.cur \in Active(at) => s.startCol <= at.active[at.cur].lastBottom.endCol
  BY <1>2, SeekKeeps
<1> HIDE DEF at
<1>5. /\ at.cur \in 1..Len(at.active) + 1 /\ Len(at.active) \in Nat
      /\ \A k \in Active(at) : at.active[k].lastBottom.startCol \in Int
  <2>1. at \in Assemblers /\ ActiveSound(at) /\ at.cur \in 1..Len(at.active) + 1
    BY <1>4 DEF Ready, Working
  <2>2. at.active \in Seq(BlobRecords)
    BY <2>1 DEF Assemblers
  <2>3. ASSUME NEW k \in Active(at) PROVE at.active[k].lastBottom.startCol \in Int
    <3>1. at.active[k] \in BlobRecords
      BY <2>1 DEF ActiveSound, Sound
    <3> QED BY <3>1 DEF BlobRecords, Bottom
  <2> QED BY <2>1, <2>2, <2>3
<1>6. touches <=> at.cur \in Active(at) /\ at.active[at.cur].lastBottom.startCol <= s.endCol
  BY <1>1, <1>5 DEF Active
<1> HIDE DEF touches
<1>7. CASE touches
  <2>1. Attached(attached, s)
    BY <1>4, <1>6, <1>7, AttachKeeps
  <2> HIDE DEF attached
  <2>2. Ready(Absorb(attached, s), s.startCol, s.endCol) /\ Absorb(attached, s).currentRow = s.row
    BY <2>1, AbsorbKeeps
  <2>3. n.asm = Absorb(attached, s) /\ n.res = 0
    BY <1>3, <1>7
  <2> QED BY <2>2, <2>3 DEF n
<1>8. CASE ~touches /\ heapFull
  <2>1. n.asm = at /\ n.res = -1
    BY <1>3, <1>8
  <2> QED BY <1>4, <2>1 DEF n
<1>9. CASE ~touches /\ ~heapFull
  <2>1. at.cur \in Active(at) => s.endCol < at.active[at.cur].lastBottom.startCol
    BY <1>1, <1>5, <1>6, <1>9
  <2>2. Ready(InsertNew(at, s), s.startCol, s.endCol) /\ InsertNew(at, s).currentRow = s.row
    BY <1>4, <2>1, InsertKeeps
  <2>3. n.asm = InsertNew(at, s) /\ n.res = 0
    BY <1>3, <1>9
  <2> QED BY <2>2, <2>3 DEF n
<1> QED BY <1>7, <1>8, <1>9

-----------------------------------------------------------------------------
(* The elements of a list, whatever their order.                           *)

\* How often x is in the list s.
Times(x, s) == Cardinality({i \in 1..Len(s) : s[i] = x})

LEMMA TimesIsNat ==
  ASSUME NEW S, NEW s \in Seq(S), NEW x
  PROVE  /\ IsFiniteSet({i \in 1..Len(s) : s[i] = x}) /\ Times(x, s) \in Nat
         /\ Times(x, s) > 0 <=> x \in ToSet(s)
<1> DEFINE P == {i \in 1..Len(s) : s[i] = x}
<1>1. 0 \in Int /\ 1 \in Int /\ Len(s) \in Int /\ DOMAIN s = 1..Len(s)
  OBVIOUS
<1>2. IsFiniteSet(1..Len(s))
  BY <1>1, FS_Interval
<1>3. P \in SUBSET (1..Len(s))
  OBVIOUS
<1>4. IsFiniteSet(P)
  BY <1>2, <1>3, FS_Subset
<1>5. Cardinality(P) \in Nat /\ (Cardinality(P) = 0 <=> P = {})
  BY <1>4, FS_CardinalityType, FS_EmptySet
<1>6. P = {} <=> x \notin ToSet(s)
  BY <1>1 DEF ToSet
<1> QED BY <1>4, <1>5, <1>6 DEF Times

LEMMA TimesOfEmpty ==
  ASSUME NEW s, Len(s) = 0, NEW x
  PROVE  Times(x, s) = 0
<1>1. {i \in 1..Len(s) : s[i] = x} = {}
  OBVIOUS
<1> QED BY <1>1, FS_EmptySet DEF Times

LEMMA TimesOfConcat ==
  ASSUME NEW S, NEW s \in Seq(S), NEW t \in Seq(S), NEW x
  PROVE  Times(x, s \o t) = Times(x, s) + Times(x, t)
<1> DEFINE m == Len(s)
           P == {i \in 1..Len(s) : s[i] = x}
           Q == {i \in 1..Len(t) : t[i] = x}
           R == {i \in m + 1..m + Len(t) : t[i - m] = x}
           A == {i \in 1..Len(s \o t) : (s \o t)[i] = x}
           f == [i \in Q |-> m + i]
<1>1. m \in Nat /\ Len(t) \in Nat
  OBVIOUS
<1>2. /\ s \o t \in Seq(S) /\ Len(s \o t) = m + Len(t)
      /\ \A j \in 1..m + Len(t) : (s \o t)[j] = IF j <= m THEN s[j] ELSE t[j - m]
  BY Concat
<1>3. A = P \cup R
  <2>1. \A i \in 1..m + Len(t) : (i \in 1..m /\ i <= m) \/ (i \in m + 1..m + Len(t) /\ ~(i <= m))
    BY <1>1
  <2>2. \A i \in 1..m : i \in 1..m + Len(t) /\ i <= m
    BY <1>1
  <2>3. \A i \in m + 1..m + Len(t) : i \in 1..m + Len(t) /\ ~(i <= m)
    BY <1>1
  <2>4. A \subseteq P \cup R
    BY <1>2, <2>1
  <2>5. P \subseteq A
    BY <1>2, <2>2
  <2>6. R \subseteq A
    BY <1>2, <2>3
  <2> QED BY <2>4, <2>5, <2>6
<1>4. P \cap R = {}
  BY <1>1
<1>5. ExistsBijection(Q, R)
  <2>1. \A i \in Q : m + i \in R
    <3> SUFFICES ASSUME NEW i \in Q PROVE m + i \in m + 1..m + Len(t) /\ t[(m + i) - m] = x
      OBVIOUS
    <3>1. i \in 1..Len(t) /\ t[i] = x
      OBVIOUS
    <3>2. (m + i) - m = i /\ m + i \in m + 1..m + Len(t)
      BY <1>1, <3>1
    <3> QED BY <3>1, <3>2
  <2>2. f \in [Q -> R]
    BY <2>1
  <2>3. \A i, j \in Q : f[i] = f[j] => i = j
    BY <1>1
  <2>4. \A k \in R : \E i \in Q : f[i] = k
    <3> SUFFICES ASSUME NEW k \in R PROVE k - m \in Q /\ m + (k - m) = k
      OBVIOUS
    <3>1. k \in m + 1..m + Len(t) /\ t[k - m] = x
      OBVIOUS
    <3> QED BY <1>1, <3>1
  <2> HIDE DEF f, Q, R
  <2>5. f \in Bijection(Q, R)
    BY <2>2, <2>3, <2>4, Fun_IsBij
  <2> QED BY <2>5 DEF ExistsBijection
<1>6. IsFiniteSet(P) /\ IsFiniteSet(Q) /\ Cardinality(P) \in Nat /\ Cardinality(Q) \in Nat
  BY TimesIsNat DEF Times
<1> HIDE DEF P, Q, R, A
<1>7. IsFiniteSet(R) /\ Cardinality(R) = Cardinality(Q)
  BY <1>5, <1>6, FS_Bijection
<1>8. Cardinality(A) = Cardinality(P) + Cardinality(Q)
  <2>1. Cardinality(P \cup R) = Cardinality(P) + Cardinality(R) - Cardinality(P \cap R)
    BY <1>6, <1>7, FS_Union
  <2>2. Cardinality(P \cap R) = 0
    BY <1>4, FS_EmptySet
  <2> QED BY <1>3, <1>6, <1>7, <2>1, <2>2
<1> QED BY <1>8 DEF Times, A, P, Q

\* The same elements, each as often.
Same(s, t) == Len(s) = Len(t) /\ \A x : Times(x, s) = Times(x, t)

\* Each element of t, and each two of them, are elements of s.
EachFrom(s, t) == \A i \in 1..Len(t) : \E k \in 1..Len(s) : t[i] = s[k]
TwoFrom(s, t) ==
  \A i, j \in 1..Len(t) : i # j => \E k, l \in 1..Len(s) : k # l /\ t[i] = s[k] /\ t[j] = s[l]

\* What is true of every element stays true, and of every two.
LEMMA SameElements ==
  ASSUME NEW S, NEW s \in Seq(S), NEW t \in Seq(S), Same(s, t)
  PROVE  ToSet(s) = ToSet(t) /\ EachFrom(s, t) /\ TwoFrom(s, t)
<1>1. DOMAIN s = 1..Len(s) /\ DOMAIN t = 1..Len(t)
  OBVIOUS
<1>2. \A x : x \in ToSet(s) <=> x \in ToSet(t)
  <2> SUFFICES ASSUME NEW x PROVE x \in ToSet(s) <=> x \in ToSet(t)
    OBVIOUS
  <2>1. Times(x, s) > 0 <=> x \in ToSet(s)
    BY TimesIsNat
  <2>2. Times(x, t) > 0 <=> x \in ToSet(t)
    BY TimesIsNat
  <2> QED BY <2>1, <2>2 DEF Same
<1>3. \A i \in 1..Len(t) : \E k \in 1..Len(s) : t[i] = s[k]
  BY <1>1, <1>2 DEF ToSet
<1>4. ASSUME NEW i \in 1..Len(t), NEW j \in 1..Len(t), i # j
      PROVE  \E k, l \in 1..Len(s) : k # l /\ t[i] = s[k] /\ t[j] = s[l]
  <2>1. CASE t[i] # t[j]
    BY <1>3, <2>1
  <2>2. CASE t[i] = t[j]
    <3> DEFINE x == t[i]
               P == {k \in 1..Len(s) : s[k] = x}
               Q == {k \in 1..Len(t) : t[k] = x}
    <3>1. PICK k \in 1..Len(s) : x = s[k]
      BY <1>3
    <3>2. IsFiniteSet(P) /\ IsFiniteSet(Q) /\ Cardinality(P) = Cardinality(Q)
      BY TimesIsNat DEF Times, Same
    <3>3. i \in Q /\ j \in Q /\ k \in P
      BY <2>2, <3>1
    <3>4. \E l \in P : l # k
      <4> SUFFICES ASSUME \A l \in P : l = k PROVE FALSE
        OBVIOUS
      <4>1. P = {k}
        BY <3>3
      <4> HIDE DEF P, Q
      <4>2. Cardinality(P \ {k}) = Cardinality(P) - 1 /\ P \ {k} = {}
        BY <3>2, <3>3, <4>1, FS_RemoveElement
      <4>3. Cardinality(Q \ {i}) = Cardinality(Q) - 1 /\ IsFiniteSet(Q \ {i}) /\ j \in Q \ {i}
        BY <1>4, <3>2, <3>3, FS_RemoveElement
      <4>4. Cardinality(P \ {k}) = 0 /\ Cardinality(Q \ {i}) # 0
        BY <4>2, <4>3, FS_EmptySet
      <4> QED BY <3>2, <4>2, <4>3, <4>4
    <3>5. PICK l \in P : l # k
      BY <3>4
    <3> QED BY <2>2, <3>1, <3>5
  <2> QED BY <2>1, <2>2
<1>5. ToSet(s) = ToSet(t)
  BY <1>2
<1> QED BY <1>3, <1>4, <1>5 DEF EachFrom, TwoFrom

LEMMA HeadAndTail ==
  ASSUME NEW S, NEW s \in Seq(S), s # <<>>
  PROVE  /\ Head(s) = s[1] /\ Head(s) \in S /\ Tail(s) \in Seq(S)
         /\ Len(s) \in Nat \ {0} /\ Len(Tail(s)) = Len(s) - 1
         /\ \A i \in 1..Len(s) - 1 : Tail(s)[i] = s[i + 1]
         /\ \A x : Times(x, s) = Times(x, <<Head(s)>>) + Times(x, Tail(s))
<1>1. /\ Head(s) = s[1] /\ Head(s) \in S /\ Tail(s) \in Seq(S)
      /\ Len(s) \in Nat \ {0} /\ Len(Tail(s)) = Len(s) - 1
      /\ \A i \in 1..Len(s) - 1 : Tail(s)[i] = s[i + 1]
  OBVIOUS
<1>2. <<Head(s)>> \in Seq(S)
  BY <1>1
<1>3. s = <<Head(s)>> \o Tail(s)
  OBVIOUS
<1> QED BY <1>1, <1>2, <1>3, TimesOfConcat

LEMMA OneMore ==
  ASSUME NEW S, NEW s \in Seq(S), NEW e \in S
  PROVE  /\ Len(Append(s, e)) = Len(s) + 1
         /\ \A i \in 1..Len(s) + 1 : Append(s, e)[i] = IF i = Len(s) + 1 THEN e ELSE s[i]
OBVIOUS

LEMMA Appended ==
  ASSUME NEW S, NEW s \in Seq(S), NEW e \in S
  PROVE  /\ Append(s, e) \in Seq(S) /\ Len(Append(s, e)) = Len(s) + 1
         /\ \A i \in 1..Len(s) + 1 : Append(s, e)[i] = IF i = Len(s) + 1 THEN e ELSE s[i]
         /\ \A x : Times(x, Append(s, e)) = Times(x, s) + Times(x, <<e>>)
<1>1. /\ Append(s, e) \in Seq(S) /\ Len(Append(s, e)) = Len(s) + 1
      /\ \A i \in 1..Len(s) + 1 : Append(s, e)[i] = IF i = Len(s) + 1 THEN e ELSE s[i]
  OBVIOUS
<1>2. <<e>> \in Seq(S) /\ Append(s, e) = s \o <<e>>
  OBVIOUS
<1> QED BY <1>1, <1>2, TimesOfConcat

-----------------------------------------------------------------------------
(* Two sorted lists are merged.                                            *)

Descending(s) == \A i, j \in 1..Len(s) : i < j => s[i].area >= s[j].area

NoSmaller(s, t) == \A i \in 1..Len(s), j \in 1..Len(t) : s[i].area >= t[j].area

\* The head of one list goes to the end of the new one.
LEMMA TakeHead ==
  ASSUME NEW new \in Seq(BlobRecords), NEW from \in Seq(BlobRecords), NEW other \in Seq(BlobRecords),
         from # <<>>
  PROVE  LET longer == Append(new, Head(from))
             rest == Tail(from) IN
         /\ longer \in Seq(BlobRecords) /\ rest \in Seq(BlobRecords)
         /\ Len(longer) = Len(new) + 1 /\ Len(rest) = Len(from) - 1
         /\ \A x : /\ Times(x, longer) + (Times(x, other) + Times(x, rest))
                      = Times(x, new) + (Times(x, other) + Times(x, from))
                   /\ Times(x, longer) + (Times(x, rest) + Times(x, other))
                      = Times(x, new) + (Times(x, from) + Times(x, other))
         /\ /\ Descending(new) /\ Descending(from) /\ Descending(other)
            /\ NoSmaller(new, from) /\ NoSmaller(new, other)
            /\ other = <<>> \/ Head(from).area >= Head(other).area
            => /\ Descending(longer) /\ Descending(rest)
               /\ NoSmaller(longer, rest) /\ NoSmaller(longer, other)
<1> DEFINE h == Head(from)
           longer == Append(new, h)
           rest == Tail(from)
<1>1. /\ h = from[1] /\ h \in BlobRecords /\ rest \in Seq(BlobRecords)
      /\ Len(from) \in Nat \ {0} /\ Len(rest) = Len(from) - 1
      /\ \A i \in 1..Len(from) - 1 : rest[i] = from[i + 1]
      /\ \A x : Times(x, from) = Times(x, <<h>>) + Times(x, rest)
  BY HeadAndTail
<1> HIDE DEF h, rest
<1>2. /\ longer \in Seq(BlobRecords) /\ Len(longer) = Len(new) + 1 /\ Len(new) \in Nat
      /\ \A i \in 1..Len(new) + 1 : longer[i] = IF i = Len(new) + 1 THEN h ELSE new[i]
      /\ \A x : Times(x, longer) = Times(x, new) + Times(x, <<h>>)
  BY <1>1, Appended
<1> HIDE DEF longer
<1>3. ASSUME NEW x
      PROVE  /\ Times(x, longer) + (Times(x, other) + Times(x, rest))
                = Times(x, new) + (Times(x, other) + Times(x, from))
             /\ Times(x, longer) + (Times(x, rest) + Times(x, other))
                = Times(x, new) + (Times(x, from) + Times(x, other))
  <2>1. <<h>> \in Seq(BlobRecords)
    BY <1>1
  <2>2. /\ Times(x, new) \in Nat /\ Times(x, rest) \in Nat /\ Times(x, <<h>>) \in Nat
        /\ Times(x, other) \in Nat
    BY <1>1, <2>1, TimesIsNat
  <2>3. /\ Times(x, longer) = Times(x, new) + Times(x, <<h>>)
        /\ Times(x, from) = Times(x, <<h>>) + Times(x, rest)
    BY <1>1, <1>2
  <2> QED BY <2>2, <2>3
<1>4. /\ \A i \in 1..Len(new) : new[i].area \in Nat
      /\ \A i \in 1..Len(from) : from[i].area \in Nat
      /\ \A i \in 1..Len(other) : other[i].area \in Nat
      /\ \A i \in 1..Len(rest) : rest[i].area \in Nat
  <2>1. ASSUME NEW l \in Seq(BlobRecords), NEW i \in 1..Len(l) PROVE l[i].area \in Nat
    <3>1. l[i] \in BlobRecords
      OBVIOUS
    <3> QED BY <3>1 DEF BlobRecords
  <2> QED BY <1>1, <2>1
<1>5. ASSUME Descending(new), Descending(from), Descending(other),
             NoSmaller(new, from), NoSmaller(new, other),
             other = <<>> \/ Head(from).area >= Head(other).area
      PROVE  /\ Descending(longer) /\ Descending(rest)
             /\ NoSmaller(longer, rest) /\ NoSmaller(longer, other)
  <2>1. \A i \in 1..Len(rest) : i + 1 \in 1..Len(from) /\ rest[i] = from[i + 1] /\ 1 < i + 1
    BY <1>1
  <2>2. 1 \in 1..Len(from)
    BY <1>1
  <2>3. \A i \in 1..Len(longer) : i = Len(new) + 1 \/ (i \in 1..Len(new) /\ i # Len(new) + 1)
    BY <1>2
  <2>4. Descending(longer)
    <3> SUFFICES ASSUME NEW i \in 1..Len(longer), NEW j \in 1..Len(longer), i < j
                 PROVE  longer[i].area >= longer[j].area
      BY DEF Descending
    <3>1. i \in 1..Len(new) /\ longer[i] = new[i]
      BY <1>2, <2>3
    <3>2. CASE j = Len(new) + 1
      BY <1>1, <1>2, <1>5, <2>2, <3>1, <3>2 DEF NoSmaller
    <3>3. CASE j # Len(new) + 1
      BY <1>2, <1>5, <2>3, <3>1, <3>3 DEF Descending
    <3> QED BY <3>2, <3>3
  <2>5. Descending(rest)
    <3> SUFFICES ASSUME NEW i \in 1..Len(rest), NEW j \in 1..Len(rest), i < j
                 PROVE  rest[i].area >= rest[j].area
      BY DEF Descending
    <3>1. i + 1 < j + 1
      OBVIOUS
    <3> QED BY <1>5, <2>1, <3>1 DEF Descending
  <2>6. NoSmaller(longer, rest)
    <3> SUFFICES ASSUME NEW i \in 1..Len(longer), NEW j \in 1..Len(rest)
                 PROVE  longer[i].area >= rest[j].area
      BY DEF NoSmaller
    <3>1. CASE i = Len(new) + 1
      BY <1>1, <1>2, <1>5, <2>1, <2>2, <3>1 DEF Descending
    <3>2. CASE i # Len(new) + 1
      BY <1>2, <1>5, <2>1, <2>3, <3>2 DEF NoSmaller
    <3> QED BY <3>1, <3>2
  <2>7. NoSmaller(longer, other)
    <3> SUFFICES ASSUME NEW i \in 1..Len(longer), NEW j \in 1..Len(other)
                 PROVE  longer[i].area >= other[j].area
      BY DEF NoSmaller
    <3>1. CASE i = Len(new) + 1
      <4>1. other # <<>> /\ Len(other) \in Nat /\ 1 \in 1..Len(other) /\ Head(other) = other[1]
        OBVIOUS
      <4>2. longer[i] = h /\ h.area >= other[1].area
        BY <1>2, <1>5, <3>1, <4>1 DEF h
      <4>3. j = 1 \/ 1 < j
        BY <4>1
      <4>4. other[1].area >= other[j].area
        BY <1>4, <1>5, <4>1, <4>3 DEF Descending
      <4>5. h.area \in Nat /\ other[1].area \in Nat /\ other[j].area \in Nat
        BY <1>1, <1>4, <2>2, <4>1
      <4> QED BY <4>2, <4>4, <4>5
    <3>2. CASE i # Len(new) + 1
      BY <1>2, <1>5, <2>3, <3>2 DEF NoSmaller
    <3> QED BY <3>1, <3>2
  <2> QED BY <2>4, <2>5, <2>6, <2>7
<1> QED BY <1>1, <1>2, <1>3, <1>5 DEF h, longer, rest

LEMMA MergeListsSorts ==
  ASSUME NEW old1 \in Seq(BlobRecords), NEW old2 \in Seq(BlobRecords)
  PROVE  LET n == MergeLists(old1, old2) IN
         /\ n \in Seq(BlobRecords) /\ Len(n) = Len(old1) + Len(old2)
         /\ \A x : Times(x, n) = Times(x, old1) + Times(x, old2)
         /\ Descending(old1) /\ Descending(old2) => Descending(n)
<1> DEFINE len == Len(old1) + Len(old2)
           first == [old1 |-> old1, old2 |-> old2, new |-> <<>>]
           last == Choosing!Iterate(0, first, 0, len)
           Lists == [old1 : Seq(BlobRecords), old2 : Seq(BlobRecords), new : Seq(BlobRecords)]
           Sorted(m) == /\ Descending(m.new) /\ Descending(m.old1) /\ Descending(m.old2)
                        /\ NoSmaller(m.new, m.old1) /\ NoSmaller(m.new, m.old2)
           Good(k, m) == /\ Len(m.old1) + Len(m.old2) = len - k /\ Len(m.new) = k
                         /\ \A x : Times(x, m.new) + (Times(x, m.old1) + Times(x, m.old2))
                                   = Times(x, old1) + Times(x, old2)
                         /\ Descending(old1) /\ Descending(old2) => Sorted(m)
           I == {p \in (0..len) \X Lists : Good(p[1], p[2])}
<1>1. len \in Nat /\ 0 \in 0..len /\ Len(old1) \in Nat /\ Len(old2) \in Nat
  OBVIOUS
<1>2. ASSUME NEW s \in Seq(BlobRecords), NEW x PROVE Times(x, s) \in Nat
  BY TimesIsNat
<1>3. <<>> \in Seq(BlobRecords) /\ Len(<<>>) = 0 /\ \A x : Times(x, <<>>) = 0
  <2>1. <<>> \in Seq(BlobRecords) /\ Len(<<>>) = 0
    OBVIOUS
  <2>2. ASSUME NEW x PROVE Times(x, <<>>) = 0
    BY <2>1, TimesOfEmpty
  <2> QED BY <2>1, <2>2
<1>4. <<0, first>> \in I
  <2>1. first \in Lists /\ first.new = <<>> /\ first.old1 = old1 /\ first.old2 = old2
    BY <1>3
  <2> HIDE DEF first
  <2>2. Len(first.old1) + Len(first.old2) = len - 0 /\ Len(first.new) = 0
    BY <1>1, <1>3, <2>1
  <2>3. ASSUME NEW x PROVE Times(x, first.new) + (Times(x, first.old1) + Times(x, first.old2))
                           = Times(x, old1) + Times(x, old2)
    <3>1. Times(x, old1) \in Nat /\ Times(x, old2) \in Nat /\ Times(x, first.new) = 0
      BY <1>2, <1>3, <2>1
    <3> QED BY <2>1, <3>1
  <2>4. Descending(old1) /\ Descending(old2) => Sorted(first)
    BY <1>3, <2>1 DEF Descending, NoSmaller
  <2> HIDE DEF Sorted
  <2>5. Good(0, first)
    BY <2>2, <2>3, <2>4
  <2> HIDE DEF Good, Lists, len
  <2> QED BY <1>1, <2>1, <2>5
<1>5. ASSUME NEW k \in 0 + 1..len, NEW m, <<k - 1, m>> \in I
      PROVE  <<k, Choose(0, m, k)>> \in I
  <2> DEFINE p == Choose(0, m, k)
             Second == m.old1 = <<>> \/ (m.old2 # <<>> /\ Head(m.old2).area > Head(m.old1).area)
  <2>1. k - 1 \in 0..len /\ k \in 0..len /\ m \in Lists /\ Good(k - 1, m)
    <3> HIDE DEF Good, Lists, len
    <3>1. k - 1 \in 0..len /\ m \in Lists /\ Good(k - 1, m)
      BY <1>5
    <3> QED BY <1>1, <3>1
  <2>2. /\ m.new \in Seq(BlobRecords) /\ m.old1 \in Seq(BlobRecords) /\ m.old2 \in Seq(BlobRecords)
        /\ Len(m.new) \in Nat /\ Len(m.old1) \in Nat /\ Len(m.old2) \in Nat
    BY <2>1
  <2>3. m.old1 # <<>> \/ m.old2 # <<>>
    <3>1. Len(m.old1) + Len(m.old2) = len - (k - 1) /\ len - (k - 1) # 0
      BY <1>1, <2>1
    <3>2. ASSUME m.old1 = <<>>, m.old2 = <<>> PROVE Len(m.old1) + Len(m.old2) = 0
      BY <1>3, <3>2
    <3> QED BY <3>1, <3>2
  <2>4. \A s \in {m.old1, m.old2} : s # <<>> => Head(s).area \in Nat
    <3> SUFFICES ASSUME NEW s \in {m.old1, m.old2}, s # <<>> PROVE Head(s).area \in Nat
      OBVIOUS
    <3>1. Head(s) \in BlobRecords
      BY <2>2, HeadAndTail
    <3> QED BY <3>1 DEF BlobRecords
  <2>5. CASE Second
    <3> DEFINE new == Append(m.new, Head(m.old2))  rest == Tail(m.old2)
    <3>1. m.old2 # <<>> /\ (m.old1 = <<>> \/ Head(m.old2).area >= Head(m.old1).area)
      BY <2>3, <2>4, <2>5
    <3>2. p = [m EXCEPT !.new = new, !.old2 = rest]
      BY <2>1, <2>5 DEF Choose
    <3>3. /\ new \in Seq(BlobRecords) /\ rest \in Seq(BlobRecords)
          /\ Len(new) = Len(m.new) + 1 /\ Len(rest) = Len(m.old2) - 1
          /\ \A x : Times(x, new) + (Times(x, m.old1) + Times(x, rest))
                    = Times(x, m.new) + (Times(x, m.old1) + Times(x, m.old2))
          /\ Sorted(m) => /\ Descending(new) /\ Descending(rest)
                          /\ NoSmaller(new, rest) /\ NoSmaller(new, m.old1)
      BY <2>2, <3>1, TakeHead
    <3> HIDE DEF p, new, rest
    <3>4. p \in Lists /\ p.new = new /\ p.old1 = m.old1 /\ p.old2 = rest
      BY <2>1, <3>2, <3>3
    <3>5. ASSUME NEW x PROVE Times(x, p.new) + (Times(x, p.old1) + Times(x, p.old2))
                             = Times(x, old1) + Times(x, old2)
      <4>1. Times(x, m.new) + (Times(x, m.old1) + Times(x, m.old2)) = Times(x, old1) + Times(x, old2)
        BY <2>1
      <4> QED BY <3>3, <3>4, <4>1
    <3>6. Len(p.old1) + Len(p.old2) = len - k /\ Len(p.new) = k
      <4>1. Len(m.old1) + Len(m.old2) = len - (k - 1) /\ Len(m.new) = k - 1
        BY <2>1
      <4>2. k \in Int /\ len \in Int
        BY <1>1, <2>1
      <4> HIDE DEF len
      <4>3. Len(m.old1) + (Len(m.old2) - 1) = len - k /\ (Len(m.old1) - 1) + Len(m.old2) = len - k
        <5>1. \A i, j \in Nat : i + j = len - (k - 1) => i + (j - 1) = len - k /\ (i - 1) + j = len - k
          BY <4>2
        <5>2. Len(m.old1) \in Nat /\ Len(m.old2) \in Nat
          BY <2>2
        <5> QED BY <4>1, <5>1, <5>2
      <4>4. (k - 1) + 1 = k
        BY <4>2
      <4> QED BY <3>3, <3>4, <4>1, <4>3, <4>4
    <3>7. Descending(old1) /\ Descending(old2) => Sorted(p)
      BY <2>1, <3>3, <3>4
    <3> HIDE DEF Sorted, len
    <3>8. Good(k, p)
      BY <3>5, <3>6, <3>7
    <3> HIDE DEF Good, Lists
    <3>9. <<k, p>> \in I
      BY <2>1, <3>4, <3>8
    <3> QED BY <3>9 DEF p
  <2>6. CASE ~Second
    <3> DEFINE new == Append(m.new, Head(m.old1))  rest == Tail(m.old1)
    <3>1. m.old1 # <<>> /\ (m.old2 = <<>> \/ Head(m.old1).area >= Head(m.old2).area)
      BY <2>4, <2>6
    <3>2. p = [m EXCEPT !.new = new, !.old1 = rest]
      BY <2>1, <2>6 DEF Choose
    <3>3. /\ new \in Seq(BlobRecords) /\ rest \in Seq(BlobRecords)
          /\ Len(new) = Len(m.new) + 1 /\ Len(rest) = Len(m.old1) - 1
          /\ \A x : Times(x, new) + (Times(x, rest) + Times(x, m.old2))
                    = Times(x, m.new) + (Times(x, m.old1) + Times(x, m.old2))
          /\ Sorted(m) => /\ Descending(new) /\ Descending(rest)
                          /\ NoSmaller(new, rest) /\ NoSmaller(new, m.old2)
      BY <2>2, <3>1, TakeHead
    <3> HIDE DEF p, new, rest
    <3>4. p \in Lists /\ p.new = new /\ p.old1 = rest /\ p.old2 = m.old2
      BY <2>1, <3>2, <3>3
    <3>5. ASSUME NEW x PROVE Times(x, p.new) + (Times(x, p.old1) + Times(x, p.old2))
                             = Times(x, old1) + Times(x, old2)
      <4>1. Times(x, m.new) + (Times(x, m.old1) + Times(x, m.old2)) = Times(x, old1) + Times(x, old2)
        BY <2>1
      <4> QED BY <3>3, <3>4, <4>1
    <3>6. Len(p.old1) + Len(p.old2) = len - k /\ Len(p.new) = k
      <4>1. Len(m.old1) + Len(m.old2) = len - (k - 1) /\ Len(m.new) = k - 1
        BY <2>1
      <4>2. k \in Int /\ len \in Int
        BY <1>1, <2>1
      <4> HIDE DEF len
      <4>3. Len(m.old1) + (Len(m.old2) - 1) = len - k /\ (Len(m.old1) - 1) + Len(m.old2) = len - k
        <5>1. \A i, j \in Nat : i + j = len - (k - 1) => i + (j - 1) = len - k /\ (i - 1) + j = len - k
          BY <4>2
        <5>2. Len(m.old1) \in Nat /\ Len(m.old2) \in Nat
          BY <2>2
        <5> QED BY <4>1, <5>1, <5>2
      <4>4. (k - 1) + 1 = k
        BY <4>2
      <4> QED BY <3>3, <3>4, <4>1, <4>3, <4>4
    <3>7. Descending(old1) /\ Descending(old2) => Sorted(p)
      BY <2>1, <3>3, <3>4
    <3> HIDE DEF Sorted, len
    <3>8. Good(k, p)
      BY <3>5, <3>6, <3>7
    <3> HIDE DEF Good, Lists
    <3>9. <<k, p>> \in I
      BY <2>1, <3>4, <3>8
    <3> QED BY <3>9 DEF p
  <2> QED BY <2>5, <2>6
<1>6. <<len, last>> \in I
  <2> HIDE DEF I, len, first
  <2>1. 0 \in Int /\ len \in Int /\ 0 <= len
    BY <1>1
  <2> QED BY <1>4, <1>5, <2>1, Choosing!LoopRule
<1>7. MergeLists(old1, old2) = last.new
  BY Zenon DEF MergeLists, Loop, Choosing!Iterate
<1> HIDE DEF last
<1>8. last \in Lists /\ Good(len, last)
  BY <1>6
<1>9. last.old1 = <<>> /\ last.old2 = <<>>
  <2>1. /\ last.old1 \in Seq(BlobRecords) /\ last.old2 \in Seq(BlobRecords)
        /\ Len(last.old1) \in Nat /\ Len(last.old2) \in Nat
    BY <1>8
  <2>2. Len(last.old1) + Len(last.old2) = 0
    BY <1>1, <1>8
  <2>3. ASSUME NEW i \in Nat, NEW j \in Nat, i + j = 0 PROVE i = 0 /\ j = 0
    BY <2>3
  <2>4. Len(last.old1) = 0 /\ Len(last.old2) = 0
    BY <2>1, <2>2, <2>3
  <2> QED BY <2>1, <2>4
<1>10. ASSUME NEW x PROVE Times(x, last.new) = Times(x, old1) + Times(x, old2)
  <2>1. Times(x, last.new) \in Nat /\ Times(x, last.old1) = 0 /\ Times(x, last.old2) = 0
    BY <1>2, <1>3, <1>8, <1>9
  <2>2. Times(x, last.new) + (Times(x, last.old1) + Times(x, last.old2)) = Times(x, old1) + Times(x, old2)
    BY <1>8
  <2> QED BY <2>1, <2>2
<1>11. Len(last.new) = len /\ last.new \in Seq(BlobRecords)
  BY <1>8
<1>12. Descending(old1) /\ Descending(old2) => Descending(last.new)
  BY <1>8
<1> HIDE DEF Good
<1> QED BY <1>7, <1>10, <1>11, <1>12

-----------------------------------------------------------------------------
(* A pass merges blocks to blocks of twice the size.                       *)

LEMMA Products ==
  ASSUME NEW w \in Nat, NEW i \in Nat, NEW j \in Nat
  PROVE  /\ w * i \in Nat /\ w * (i + 1) = w * i + w
         /\ i <= j => w * i <= w * j
<1>1. w * i \in Nat /\ w * (i + 1) = w * i + w
  OBVIOUS
<1>2. ASSUME i <= j PROVE w * i <= w * j
  <2>1. PICK k \in Nat : j = i + k
    <3>1. j - i \in Nat /\ j = i + (j - i)
      BY <1>2
    <3> QED BY <3>1
  <2>2. w * k \in Nat /\ w * i \in Nat
    OBVIOUS
  <2>3. w * (i + k) = w * i + w * k
    OBVIOUS
  <2> QED BY <2>1, <2>2, <2>3
<1> QED BY <1>1, <1>2

LEMMA Halves ==
  ASSUME NEW k \in Nat \ {0}
  PROVE  /\ k \div 2 \in Nat /\ (k - 1) \div 2 \in Nat /\ (k + 1) \div 2 \in Nat /\ 2 * (k \div 2) <= k
         /\ \/ k % 2 = 1 /\ (k + 1) \div 2 = k \div 2 + 1 /\ (k - 1) \div 2 = k \div 2
            \/ k % 2 = 0 /\ (k + 1) \div 2 = k \div 2 /\ (k - 1) \div 2 = k \div 2 - 1
OBVIOUS

\* What is taken from two lists and added to two others leaves the sum.
LEMMA Exchanged ==
  ASSUME NEW m1 \in Nat, NEW m2 \in Nat, NEW old1 \in Nat, NEW old2 \in Nat,
         NEW n1 \in Nat, NEW n2 \in Nat, NEW rest1 \in Nat, NEW rest2 \in Nat, NEW moved,
         n1 + n2 = (m1 + m2) + moved, moved = (old1 - rest1) + (old2 - rest2)
  PROVE  (n1 + n2) + (rest1 + rest2) = (m1 + m2) + (old1 + old2)
OBVIOUS

\* Blocks of w elements, the first w, the next w and so on, are sorted.
BlocksDescending(s, w) ==
  \A i, j \in 1..Len(s) : i < j =>
    \A d \in Nat : w * d < i /\ j <= w * (d + 1) => s[i].area >= s[j].area

LEMMA OneBlock ==
  ASSUME NEW s \in Seq(BlobRecords), NEW w \in Nat, BlocksDescending(s, w), Len(s) <= w
  PROVE  Descending(s)
<1> SUFFICES ASSUME NEW i \in 1..Len(s), NEW j \in 1..Len(s), i < j
             PROVE  s[i].area >= s[j].area
  BY DEF Descending
<1>1. w * 0 = 0 /\ w * (0 + 1) = w
  OBVIOUS
<1>2. w * 0 < i /\ j <= w * (0 + 1)
  BY <1>1
<1>3. \A d \in Nat : w * d < i /\ j <= w * (d + 1) => s[i].area >= s[j].area
  BY DEF BlocksDescending
<1>4. 0 \in Nat
  OBVIOUS
<1> HIDE DEF BlocksDescending
<1> QED BY <1>2, <1>3, <1>4

LEMMA SmallBlocks ==
  ASSUME NEW s
  PROVE  BlocksDescending(s, 1)
BY DEF BlocksDescending

LEMMA SameList ==
  ASSUME NEW S, NEW s \in Seq(S), NEW t \in Seq(S), Len(s) = Len(t), \A i \in 1..Len(s) : s[i] = t[i]
  PROVE  s = t
OBVIOUS

LEMMA FrontAndRest ==
  ASSUME NEW s \in Seq(BlobRecords), NEW n \in Nat \ {0}
  PROVE  LET front == Front_n(s, n)  rest == Rest_n(s, n) IN
         /\ front \in Seq(BlobRecords) /\ rest \in Seq(BlobRecords)
         /\ Len(front) = (IF n <= Len(s) THEN n ELSE Len(s))
         /\ Len(rest) = (IF n <= Len(s) THEN Len(s) - n ELSE 0)
         /\ \A x : Times(x, s) = Times(x, front) + Times(x, rest)
         /\ BlocksDescending(s, n) => Descending(front) /\ BlocksDescending(rest, n)
<1> DEFINE m == IF n <= Len(s) THEN n ELSE Len(s)
           front == Front_n(s, n)
           rest == Rest_n(s, n)
<1>1. Len(s) \in Nat /\ Min({n, Len(s)}) = m /\ m \in 0..Len(s) /\ m <= n
  <2>1. n \in Int /\ Len(s) \in Int /\ Len(s) \in Nat
    OBVIOUS
  <2>2. Min({n, Len(s)}) = IF n <= Len(s) THEN n ELSE Len(s)
    BY <2>1, Extremes, Zenon
  <2> QED BY <2>1, <2>2
<1>2. /\ front \in Seq(BlobRecords) /\ Len(front) = m /\ \A i \in 1..m : front[i] = s[i]
  <2>1. front = SubSeq(s, 1, m)
    BY <1>1 DEF Front_n
  <2> HIDE DEF front, m
  <2> QED BY <1>1, <2>1
<1>3. /\ rest \in Seq(BlobRecords) /\ Len(rest) = Len(s) - m
      /\ \A i \in 1..Len(s) - m : rest[i] = s[n + i] /\ n = m
  <2>1. rest = SubSeq(s, n + 1, Len(s))
    BY DEF Rest_n
  <2> HIDE DEF rest
  <2>2. CASE n <= Len(s)
    <3>1. n + 1 \in 1..Len(s) + 1 /\ Len(s) \in Nat /\ m = n
      BY <1>1, <2>2
    <3>2. /\ SubSeq(s, n + 1, Len(s)) \in Seq(BlobRecords)
          /\ Len(SubSeq(s, n + 1, Len(s))) = Len(s) - n
          /\ \A i \in 1..Len(s) - n : SubSeq(s, n + 1, Len(s))[i] = s[n + i]
      BY <3>1
    <3> QED BY <2>1, <3>1, <3>2
  <2>3. CASE ~(n <= Len(s))
    <3>1. m = Len(s) /\ Len(s) - m = 0 /\ 1..Len(s) - m = {}
      BY <1>1, <2>3
    <3>2. SubSeq(s, n + 1, Len(s)) = <<>>
      BY <1>1, <2>3
    <3>3. <<>> \in Seq(BlobRecords) /\ Len(<<>>) = 0
      OBVIOUS
    <3>4. rest \in Seq(BlobRecords) /\ Len(rest) = Len(s) - m
      BY <2>1, <3>1, <3>2, <3>3
    <3> HIDE DEF m
    <3> QED BY <3>1, <3>4
  <2> QED BY <2>2, <2>3
<1>4. s = front \o rest
  <2>1. \A i \in 1..Len(s) : i <= m \/ (~(i <= m) /\ i - m \in 1..Len(s) - m /\ m + (i - m) = i)
    BY <1>1
  <2>2. \A i \in 1..Len(s) : i <= m => i \in 1..m
    BY <1>1
  <2> HIDE DEF front, rest, m
  <2>3. /\ front \o rest \in Seq(BlobRecords) /\ Len(front \o rest) = Len(s)
        /\ \A i \in 1..Len(s) : (front \o rest)[i] = IF i <= m THEN front[i] ELSE rest[i - m]
    <3>1. Len(front) + Len(rest) = Len(s)
      BY <1>1, <1>2, <1>3
    <3> QED BY <1>2, <1>3, <3>1, Concat
  <2>4. \A i \in 1..Len(s) : (front \o rest)[i] = s[i]
    BY <1>2, <1>3, <2>1, <2>2, <2>3
  <2> QED BY <2>3, <2>4, SameList
<1>5. \A x : Times(x, s) = Times(x, front) + Times(x, rest)
  <2> HIDE DEF front, rest
  <2> QED BY <1>2, <1>3, <1>4, TimesOfConcat, Zenon
<1>6. ASSUME BlocksDescending(s, n) PROVE Descending(front) /\ BlocksDescending(rest, n)
  <2> HIDE DEF front, rest
  <2>1. BlocksDescending(front, n)
    <3>1. \A i \in 1..Len(front) : i \in 1..Len(s) /\ front[i] = s[i]
      BY <1>1, <1>2
    <3> QED BY <1>6, <3>1 DEF BlocksDescending
  <2>2. Descending(front)
    BY <1>1, <1>2, <2>1, OneBlock
  <2>3. BlocksDescending(rest, n)
    <3> SUFFICES ASSUME NEW i \in 1..Len(rest), NEW j \in 1..Len(rest), i < j, NEW d \in Nat,
                        n * d < i, j <= n * (d + 1)
                 PROVE  rest[i].area >= rest[j].area
      BY DEF BlocksDescending
    <3>1. n + i \in 1..Len(s) /\ n + j \in 1..Len(s) /\ n + i < n + j
      BY <1>1, <1>3
    <3>2. n * (d + 1) < n + i /\ n + j <= n * ((d + 1) + 1)
      <4>1. n * (d + 1) = n * d + n /\ n * ((d + 1) + 1) = n * (d + 1) + n /\ n * d \in Nat
            /\ n * (d + 1) \in Nat
        BY Products
      <4>2. i \in Int /\ j \in Int
        OBVIOUS
      <4> QED BY <4>1, <4>2
    <3>3. d + 1 \in Nat
      OBVIOUS
    <3>4. s[n + i].area >= s[n + j].area
      BY <1>6, <3>1, <3>2, <3>3 DEF BlocksDescending
    <3>5. rest[i] = s[n + i] /\ rest[j] = s[n + j]
      BY <1>3
    <3> QED BY <3>4, <3>5
  <2> QED BY <2>2, <2>3
<1>7. Len(rest) = (IF n <= Len(s) THEN Len(s) - n ELSE 0)
  BY <1>1, <1>3
<1> HIDE DEF front, rest
<1>8. /\ front \in Seq(BlobRecords) /\ rest \in Seq(BlobRecords)
      /\ Len(front) = (IF n <= Len(s) THEN n ELSE Len(s))
  BY <1>2, <1>3
<1> QED BY <1>5, <1>6, <1>7, <1>8 DEF front, rest

\* A sorted block, or less, is put after full blocks.
LEMMA BlockAdded ==
  ASSUME NEW s \in Seq(BlobRecords), NEW t \in Seq(BlobRecords), NEW w \in Nat \ {0}, NEW c \in Nat,
         BlocksDescending(s, w), Descending(t), Len(s) = w * c
  PROVE  BlocksDescending(s \o t, w)
<1>1. /\ Len(s) \in Nat /\ Len(t) \in Nat /\ Len(s \o t) = Len(s) + Len(t)
      /\ \A i \in 1..Len(s) + Len(t) : (s \o t)[i] = IF i <= Len(s) THEN s[i] ELSE t[i - Len(s)]
  <2>1. Len(s) \in Nat /\ Len(t) \in Nat
    OBVIOUS
  <2>2. /\ Len(s \o t) = Len(s) + Len(t)
        /\ \A i \in 1..Len(s) + Len(t) : (s \o t)[i] = IF i <= Len(s) THEN s[i] ELSE t[i - Len(s)]
    BY Concat
  <2> QED BY <2>1, <2>2
<1> SUFFICES ASSUME NEW i \in 1..Len(s) + Len(t), NEW j \in 1..Len(s) + Len(t), i < j, NEW d \in Nat,
                    w * d < i, j <= w * (d + 1)
             PROVE  (s \o t)[i].area >= (s \o t)[j].area
  BY <1>1 DEF BlocksDescending
<1>2. CASE j <= Len(s)
  <2>1. i \in 1..Len(s) /\ j \in 1..Len(s) /\ (s \o t)[i] = s[i] /\ (s \o t)[j] = s[j]
    BY <1>1, <1>2
  <2> QED BY <2>1 DEF BlocksDescending
<1>3. CASE ~(i <= Len(s))
  <2>1. /\ i - Len(s) \in 1..Len(t) /\ j - Len(s) \in 1..Len(t) /\ i - Len(s) < j - Len(s)
        /\ ~(j <= Len(s))
    BY <1>1, <1>3
  <2>2. (s \o t)[i] = t[i - Len(s)] /\ (s \o t)[j] = t[j - Len(s)]
    BY <1>1, <1>3, <2>1
  <2> QED BY <2>1, <2>2 DEF Descending
<1>4. CASE i <= Len(s) /\ ~(j <= Len(s))
  <2>1. w * d < w * c /\ w * c < w * (d + 1)
    <3> DEFINE x == w * d  y == w * c  z == w * (d + 1)
    <3>1. x \in Nat /\ y \in Nat /\ z \in Nat /\ i \in Int /\ j \in Int
      BY Products
    <3>2. x < i /\ i <= y /\ ~(j <= y) /\ j <= z
      BY <1>4
    <3> HIDE DEF x, y, z
    <3>3. x < y /\ y < z
      BY <3>1, <3>2
    <3> QED BY <3>3 DEF x, y, z
  <2>2. w * d \in Nat /\ w * c \in Nat /\ w * (d + 1) \in Nat
    BY Products
  <2>3. ~(c <= d)
    <3>1. c <= d => w * c <= w * d
      BY Products
    <3> QED BY <2>1, <2>2, <3>1
  <2>4. ~(d + 1 <= c)
    <3>1. d + 1 \in Nat
      OBVIOUS
    <3>2. d + 1 <= c => w * (d + 1) <= w * c
      BY <3>1, Products
    <3> QED BY <2>1, <2>2, <3>2
  <2> QED BY <2>3, <2>4
<1> QED BY <1>2, <1>3, <1>4

\* What MergePass works on: two lists that shrink and two that grow.
Passes == [old1 : Seq(BlobRecords), old2 : Seq(BlobRecords),
           new1 : Seq(BlobRecords), new2 : Seq(BlobRecords)]

InAll(x, m) == (Times(x, m.new1) + Times(x, m.new2)) + (Times(x, m.old1) + Times(x, m.old2))

Less(l, n) == IF n <= l THEN l - n ELSE 0

\* The lengths of its lists.
LenOld1(m) == Len(m.old1)
LenOld2(m) == Len(m.old2)
LenNew1(m) == Len(m.new1)
LenNew2(m) == Len(m.new2)

LEMMA LengthsAreNat ==
  ASSUME NEW m \in Passes
  PROVE  LenOld1(m) \in Nat /\ LenOld2(m) \in Nat /\ LenNew1(m) \in Nat /\ LenNew2(m) \in Nat
BY DEF Passes, LenOld1, LenOld2, LenNew1, LenNew2

\* How many blobs the step from m to p takes from the shrinking lists.
Moved(m, p) == (LenOld1(m) - LenOld1(p)) + (LenOld2(m) - LenOld2(p))

\* They went, as a block of w, to the first, or second, of the growing lists.
ToFirst(m, p, w) ==
  /\ LenNew1(p) = LenNew1(m) + Moved(m, p) /\ p.new2 = m.new2
  /\ \A c \in Nat : LenNew1(m) = w * c => BlocksDescending(p.new1, w)
  /\ Moved(m, p) = 0 => p.new1 = m.new1
ToSecond(m, p, w) ==
  /\ LenNew2(p) = LenNew2(m) + Moved(m, p) /\ p.new1 = m.new1
  /\ \A c \in Nat : LenNew2(m) = w * c => BlocksDescending(p.new2, w)
  /\ Moved(m, p) = 0 => p.new2 = m.new2

\* One round: a run of each list becomes a block of one of the new lists.
LEMMA RoundKeeps ==
  ASSUME NEW n \in Nat \ {0}, NEW m \in Passes, NEW turn \in Nat, NEW w \in Nat \ {0},
         BlocksDescending(m.old1, n), BlocksDescending(m.old2, n),
         BlocksDescending(m.new1, w), BlocksDescending(m.new2, w)
  PROVE  LET p == MergeRuns(n, m, turn) IN
         /\ p \in Passes
         /\ LenOld1(p) = Less(LenOld1(m), n) /\ LenOld2(p) = Less(LenOld2(m), n)
         /\ \A x : InAll(x, p) = InAll(x, m)
         /\ BlocksDescending(p.old1, n) /\ BlocksDescending(p.old2, n)
         /\ turn % 2 = 1 => ToFirst(m, p, w)
         /\ turn % 2 = 0 => ToSecond(m, p, w)
<1> DEFINE f1 == Front_n(m.old1, n)
           f2 == Front_n(m.old2, n)
           r1 == Rest_n(m.old1, n)
           r2 == Rest_n(m.old2, n)
           merged == MergeLists(f1, f2)
           p == MergeRuns(n, m, turn)
<1>1. /\ m.old1 \in Seq(BlobRecords) /\ m.old2 \in Seq(BlobRecords)
      /\ m.new1 \in Seq(BlobRecords) /\ m.new2 \in Seq(BlobRecords)
  BY DEF Passes
<1>2. /\ LenOld1(m) \in Nat /\ LenOld2(m) \in Nat /\ LenNew1(m) \in Nat /\ LenNew2(m) \in Nat
  BY LengthsAreNat
<1>3. p = [old1 |-> r1, old2 |-> r2,
           new1 |-> IF turn % 2 = 1 THEN m.new1 \o merged ELSE m.new1,
           new2 |-> IF turn % 2 = 0 THEN m.new2 \o merged ELSE m.new2]
  BY DEF MergeRuns
<1>4. /\ f1 \in Seq(BlobRecords) /\ r1 \in Seq(BlobRecords)
      /\ Len(f1) = (IF n <= LenOld1(m) THEN n ELSE LenOld1(m))
      /\ Len(r1) = (IF n <= LenOld1(m) THEN LenOld1(m) - n ELSE 0)
      /\ \A x : Times(x, m.old1) = Times(x, f1) + Times(x, r1)
      /\ Descending(f1) /\ BlocksDescending(r1, n)
  BY <1>1, FrontAndRest DEF LenOld1
<1>5. /\ f2 \in Seq(BlobRecords) /\ r2 \in Seq(BlobRecords)
      /\ Len(f2) = (IF n <= LenOld2(m) THEN n ELSE LenOld2(m))
      /\ Len(r2) = (IF n <= LenOld2(m) THEN LenOld2(m) - n ELSE 0)
      /\ \A x : Times(x, m.old2) = Times(x, f2) + Times(x, r2)
      /\ Descending(f2) /\ BlocksDescending(r2, n)
  BY <1>1, FrontAndRest DEF LenOld2
<1> HIDE DEF f1, f2, r1, r2, p
<1>6. /\ merged \in Seq(BlobRecords) /\ Len(merged) = Len(f1) + Len(f2)
      /\ \A x : Times(x, merged) = Times(x, f1) + Times(x, f2)
      /\ Descending(merged)
  BY <1>4, <1>5, MergeListsSorts
<1> HIDE DEF merged
<1>7. Len(r1) = Less(LenOld1(m), n) /\ Len(r2) = Less(LenOld2(m), n)
  BY <1>4, <1>5 DEF Less
<1>8. Len(merged) = (LenOld1(m) - Len(r1)) + (LenOld2(m) - Len(r2)) /\ Len(merged) \in Nat
  <2>1. Len(f1) = LenOld1(m) - Len(r1) /\ Len(f1) \in Nat
    BY <1>2, <1>4
  <2>2. Len(f2) = LenOld2(m) - Len(r2) /\ Len(f2) \in Nat
    BY <1>2, <1>5
  <2>3. Len(merged) = Len(f1) + Len(f2)
    BY <1>6
  <2>4. Len(r1) \in Nat /\ Len(r2) \in Nat
    BY <1>4, <1>5
  <2> QED BY <1>2, <2>1, <2>2, <2>3, <2>4
<1>9. ASSUME NEW s \in Seq(BlobRecords), BlocksDescending(s, w)
      PROVE  /\ s \o merged \in Seq(BlobRecords) /\ Len(s \o merged) = Len(s) + Len(merged)
             /\ \A x : Times(x, s \o merged) = Times(x, s) + Times(x, merged)
             /\ \A c \in Nat : Len(s) = w * c => BlocksDescending(s \o merged, w)
             /\ Len(merged) = 0 => s \o merged = s
  <2>1. s \o merged \in Seq(BlobRecords) /\ Len(s \o merged) = Len(s) + Len(merged)
    BY <1>6, Concat
  <2>2. \A x : Times(x, s \o merged) = Times(x, s) + Times(x, merged)
    BY <1>6, TimesOfConcat
  <2>3. \A c \in Nat : Len(s) = w * c => BlocksDescending(s \o merged, w)
    BY <1>6, <1>9, BlockAdded
  <2>4. ASSUME Len(merged) = 0 PROVE s \o merged = s
    <3>1. merged = <<>>
      BY <1>6, <2>4
    <3> QED BY <3>1
  <2> QED BY <2>1, <2>2, <2>3, <2>4
<1>10. ASSUME NEW x, NEW s \in Seq(BlobRecords) PROVE Times(x, s) \in Nat
  BY TimesIsNat
<1>11. ASSUME NEW x
       PROVE  /\ Times(x, m.new1) \in Nat /\ Times(x, m.new2) \in Nat
              /\ Times(x, f1) \in Nat /\ Times(x, f2) \in Nat
              /\ Times(x, r1) \in Nat /\ Times(x, r2) \in Nat
              /\ Times(x, m.old1) = Times(x, f1) + Times(x, r1)
              /\ Times(x, m.old2) = Times(x, f2) + Times(x, r2)
              /\ Times(x, merged) = Times(x, f1) + Times(x, f2)
  BY <1>1, <1>4, <1>5, <1>6, <1>10
<1>12. CASE turn % 2 = 1
  <2>1. p = [old1 |-> r1, old2 |-> r2, new1 |-> m.new1 \o merged, new2 |-> m.new2]
    <3>1. turn % 2 # 0
      BY <1>12
    <3> QED BY <1>3, <1>12, <3>1
  <2>2. p.old1 = r1 /\ p.old2 = r2 /\ p.new1 = m.new1 \o merged /\ p.new2 = m.new2
    BY <2>1
  <2>3. p \in Passes
    BY <1>1, <1>4, <1>5, <1>9, <2>1 DEF Passes
  <2>4. ASSUME NEW x PROVE InAll(x, p) = InAll(x, m)
    <3>1. Times(x, p.new1) = Times(x, m.new1) + Times(x, merged)
      BY <1>1, <1>9, <2>2
    <3> QED BY <1>11, <2>2, <3>1 DEF InAll
  <2>5. /\ LenOld1(p) = Less(LenOld1(m), n) /\ LenOld2(p) = Less(LenOld2(m), n)
        /\ BlocksDescending(p.old1, n) /\ BlocksDescending(p.old2, n)
    BY <1>4, <1>5, <1>7, <2>2 DEF LenOld1, LenOld2
  <2>6. Len(merged) = Moved(m, p)
    BY <1>8, <2>2 DEF LenOld1, LenOld2, Moved
  <2>7. /\ LenNew1(p) = LenNew1(m) + Len(merged) /\ p.new2 = m.new2
        /\ \A c \in Nat : LenNew1(m) = w * c => BlocksDescending(p.new1, w)
        /\ Len(merged) = 0 => p.new1 = m.new1
    BY <1>1, <1>9, <2>2 DEF LenNew1, LenNew2
  <2>8. turn % 2 # 0
    BY <1>12
  <2>9. ToFirst(m, p, w)
    BY <2>6, <2>7 DEF ToFirst
  <2> QED BY <1>12, <2>3, <2>4, <2>5, <2>8, <2>9 DEF p
<1>13. CASE turn % 2 = 0
  <2>1. p = [old1 |-> r1, old2 |-> r2, new1 |-> m.new1, new2 |-> m.new2 \o merged]
    <3>1. turn % 2 # 1
      BY <1>13
    <3> QED BY <1>3, <1>13, <3>1
  <2>2. p.old1 = r1 /\ p.old2 = r2 /\ p.new1 = m.new1 /\ p.new2 = m.new2 \o merged
    BY <2>1
  <2>3. p \in Passes
    BY <1>1, <1>4, <1>5, <1>9, <2>1 DEF Passes
  <2>4. ASSUME NEW x PROVE InAll(x, p) = InAll(x, m)
    <3>1. Times(x, p.new2) = Times(x, m.new2) + Times(x, merged)
      BY <1>1, <1>9, <2>2
    <3> QED BY <1>11, <2>2, <3>1 DEF InAll
  <2>5. /\ LenOld1(p) = Less(LenOld1(m), n) /\ LenOld2(p) = Less(LenOld2(m), n)
        /\ BlocksDescending(p.old1, n) /\ BlocksDescending(p.old2, n)
    BY <1>4, <1>5, <1>7, <2>2 DEF LenOld1, LenOld2
  <2>6. Len(merged) = Moved(m, p)
    BY <1>8, <2>2 DEF LenOld1, LenOld2, Moved
  <2>7. /\ LenNew2(p) = LenNew2(m) + Len(merged) /\ p.new1 = m.new1
        /\ \A c \in Nat : LenNew2(m) = w * c => BlocksDescending(p.new2, w)
        /\ Len(merged) = 0 => p.new2 = m.new2
    BY <1>1, <1>9, <2>2 DEF LenNew1, LenNew2
  <2>8. turn % 2 # 1
    BY <1>13
  <2>9. ToSecond(m, p, w)
    BY <2>6, <2>7 DEF ToSecond
  <2> QED BY <1>13, <2>3, <2>4, <2>5, <2>8, <2>9 DEF p
<1>14. turn % 2 = 1 \/ turn % 2 = 0
  OBVIOUS
<1> QED BY <1>12, <1>13, <1>14

\* A pass over m full blocks of n in each list, and what is left of the last.
LEMMA MergePassKeeps ==
  ASSUME NEW old1 \in Seq(BlobRecords), NEW old2 \in Seq(BlobRecords),
         NEW n \in Nat \ {0}, NEW m \in Nat, m < Len(old2),
         BlocksDescending(old1, n), BlocksDescending(old2, n),
         n * m <= Len(old1), Len(old1) <= n * (m + 1),
         n * m <= Len(old2), Len(old2) <= n * (m + 1)
  PROVE  LET p == MergePass(old1, old2, n)
             w == 2 * n
             half == m \div 2 IN
         /\ p.new1 \in Seq(BlobRecords) /\ p.new2 \in Seq(BlobRecords)
         /\ LenNew1(p) + LenNew2(p) = Len(old1) + Len(old2)
         /\ \A x : Times(x, p.new1) + Times(x, p.new2) = Times(x, old1) + Times(x, old2)
         /\ BlocksDescending(p.new1, w) /\ BlocksDescending(p.new2, w)
         /\ w * half <= LenNew1(p) /\ LenNew1(p) <= w * (half + 1)
         /\ w * half <= LenNew2(p) /\ LenNew2(p) <= w * (half + 1)
         /\ m = 0 => LenNew2(p) = 0
<1> DEFINE w == 2 * n
           half == m \div 2
           L1 == Len(old1)
           L2 == Len(old2)
           rounds == Max({L1, L2})
           first == [old1 |-> old1, old2 |-> old2, new1 |-> <<>>, new2 |-> <<>>]
           last == Merging!Iterate(n, first, 0, rounds)
           N(i) == n * i
           W(i) == w * i
           Sums(v) == /\ (LenNew1(v) + LenNew2(v)) + (LenOld1(v) + LenOld2(v)) = L1 + L2
                      /\ \A x : InAll(x, v) = Times(x, old1) + Times(x, old2)
           Sorted(v) == /\ BlocksDescending(v.old1, n) /\ BlocksDescending(v.old2, n)
                        /\ BlocksDescending(v.new1, w) /\ BlocksDescending(v.new2, w)
           Full(k, v) == /\ LenOld1(v) = L1 - N(k) /\ LenOld2(v) = L2 - N(k)
                         /\ LenNew1(v) = W((k + 1) \div 2) /\ LenNew2(v) = W(k \div 2)
           Done(v) == /\ LenOld1(v) = 0 /\ LenOld2(v) = 0
                      /\ W(half) <= LenNew1(v) /\ LenNew1(v) <= W(half) + w
                      /\ W(half) <= LenNew2(v) /\ LenNew2(v) <= W(half) + w
                      /\ m = 0 => LenNew2(v) = 0
           Good(k, v) == /\ Sums(v) /\ Sorted(v)
                         /\ k <= m => Full(k, v)
                         /\ k > m => Done(v)
           I == {q \in (0..rounds) \X Passes : Good(q[1], q[2])}
<1>1. L1 \in Nat /\ L2 \in Nat /\ rounds \in Nat /\ L2 <= rounds /\ m < rounds
  <2>1. L1 \in Int /\ L2 \in Int /\ L1 \in Nat /\ L2 \in Nat
    OBVIOUS
  <2>2. rounds = IF L1 >= L2 THEN L1 ELSE L2
    BY <2>1, Extremes, Zenon
  <2> QED BY <2>1, <2>2
<1>2. w \in Nat \ {0} /\ w = n + n
  OBVIOUS
<1>3. /\ \A i \in Nat : N(i) \in Nat /\ N(i + 1) = N(i) + n
      /\ \A i, j \in Nat : i <= j => N(i) <= N(j)
      /\ N(0) = 0
  <2>1. n \in Nat /\ n * 0 = 0
    OBVIOUS
  <2> QED BY <2>1, Products
<1>4. /\ \A i \in Nat : W(i) \in Nat /\ W(i + 1) = W(i) + w
      /\ W(0) = 0
  <2>1. w \in Nat /\ w * 0 = 0
    OBVIOUS
  <2> HIDE DEF w
  <2> QED BY <2>1, Products
<1>5. N(m) <= L1 /\ N(m) <= L2 /\ L1 <= N(m) + n /\ L2 <= N(m) + n
  BY <1>3
<1>6. half \in Nat
  OBVIOUS
<1> HIDE DEF L1, L2, rounds, N, W, w, half
<1>7. <<0, first>> \in I
  <2>1. <<>> \in Seq(BlobRecords) /\ Len(<<>>) = 0
    OBVIOUS
  <2>2. /\ first \in Passes /\ first.old1 = old1 /\ first.old2 = old2
        /\ first.new1 = <<>> /\ first.new2 = <<>>
    BY <2>1 DEF Passes
  <2> HIDE DEF first
  <2>3. Sums(first)
    <3>1. (LenNew1(first) + LenNew2(first)) + (LenOld1(first) + LenOld2(first)) = L1 + L2
      BY <1>1, <2>1, <2>2 DEF L1, L2, LenOld1, LenOld2, LenNew1, LenNew2
    <3>2. ASSUME NEW x PROVE InAll(x, first) = Times(x, old1) + Times(x, old2)
      <4>1. Times(x, old1) \in Nat /\ Times(x, old2) \in Nat
        BY TimesIsNat
      <4>2. Times(x, <<>>) = 0
        BY <2>1, TimesOfEmpty
      <4> QED BY <2>2, <4>1, <4>2 DEF InAll
    <3> QED BY <3>1, <3>2
  <2>4. Sorted(first)
    BY <2>1, <2>2 DEF BlocksDescending
  <2>5. Full(0, first)
    <3>1. (0 + 1) \div 2 = 0 /\ 0 \div 2 = 0
      OBVIOUS
    <3>2. L1 - N(0) = L1 /\ L2 - N(0) = L2
      <4>1. N(0) = 0 /\ L1 \in Int /\ L2 \in Int
        BY <1>1, <1>3
      <4> QED BY <4>1
    <3>3. W((0 + 1) \div 2) = 0 /\ W(0 \div 2) = 0
      BY <1>4, <3>1, Zenon
    <3> QED BY <2>1, <2>2, <3>2, <3>3 DEF L1, L2, LenOld1, LenOld2, LenNew1, LenNew2
  <2> HIDE DEF Sums, Sorted, Full, Done
  <2>6. Good(0, first)
    BY <2>3, <2>4, <2>5
  <2>7. 0 \in 0..rounds
    BY <1>1
  <2> HIDE DEF Good
  <2> QED BY <2>2, <2>6, <2>7
<1>8. ASSUME NEW k \in 0 + 1..rounds, NEW v, <<k - 1, v>> \in I
      PROVE  <<k, MergeRuns(n, v, k)>> \in I
  <2> DEFINE p == MergeRuns(n, v, k)
             run == Moved(v, p)
  <2>1. k - 1 \in 0..rounds /\ v \in Passes /\ Good(k - 1, v)
    <3> HIDE DEF Good
    <3> QED BY <1>8
  <2>2. k \in 0..rounds /\ k \in Nat \ {0} /\ k - 1 \in Nat /\ (k - 1) + 1 = k
    BY <1>1
  <2>3. /\ LenOld1(v) \in Nat /\ LenOld2(v) \in Nat /\ LenNew1(v) \in Nat /\ LenNew2(v) \in Nat
    BY <2>1, LengthsAreNat
  <2>4. Sums(v) /\ Sorted(v)
    BY <2>1
  <2>5. /\ p \in Passes
        /\ LenOld1(p) = Less(LenOld1(v), n) /\ LenOld2(p) = Less(LenOld2(v), n)
        /\ \A x : InAll(x, p) = InAll(x, v)
        /\ BlocksDescending(p.old1, n) /\ BlocksDescending(p.old2, n)
        /\ k % 2 = 1 => ToFirst(v, p, w)
        /\ k % 2 = 0 => ToSecond(v, p, w)
    <3> HIDE DEF Good
    <3>1. /\ BlocksDescending(v.old1, n) /\ BlocksDescending(v.old2, n)
          /\ BlocksDescending(v.new1, w) /\ BlocksDescending(v.new2, w)
          /\ k \in Nat
      BY <2>2, <2>4
    <3>2. /\ p \in Passes
          /\ LenOld1(p) = Less(LenOld1(v), n) /\ LenOld2(p) = Less(LenOld2(v), n)
      BY <1>2, <2>1, <3>1, RoundKeeps, Zenon
    <3>3. \A x : InAll(x, p) = InAll(x, v)
      BY <1>2, <2>1, <3>1, RoundKeeps, Zenon
    <3>4. BlocksDescending(p.old1, n) /\ BlocksDescending(p.old2, n)
      BY <1>2, <2>1, <3>1, RoundKeeps, Zenon
    <3>5. (k % 2 = 1 => ToFirst(v, p, w)) /\ (k % 2 = 0 => ToSecond(v, p, w))
      BY <1>2, <2>1, <3>1, RoundKeeps, Zenon
    <3> HIDE DEF p, run
    <3> QED BY <3>2, <3>3, <3>4, <3>5
  <2>6. /\ k \div 2 \in Nat /\ (k - 1) \div 2 \in Nat /\ (k + 1) \div 2 \in Nat
        /\ \/ k % 2 = 1 /\ (k + 1) \div 2 = k \div 2 + 1 /\ (k - 1) \div 2 = k \div 2
           \/ k % 2 = 0 /\ (k + 1) \div 2 = k \div 2 /\ (k - 1) \div 2 = k \div 2 - 1
    BY <2>2, Halves
  <2> HIDE DEF p
  <2>a. k % 2 = 1 => LenNew1(p) = LenNew1(v) + run /\ LenNew2(p) = LenNew2(v)
    BY <2>5 DEF LenNew2, ToFirst
  <2>b. k % 2 = 0 => LenNew2(p) = LenNew2(v) + run /\ LenNew1(p) = LenNew1(v)
    BY <2>5 DEF LenNew1, ToSecond
  <2>7. /\ LenOld1(p) \in Nat /\ LenOld2(p) \in Nat /\ LenNew1(p) \in Nat /\ LenNew2(p) \in Nat
    BY <2>5, LengthsAreNat
  <2>8. ASSUME Full(k - 1, v), k - 1 <= m
        PROVE  /\ LenOld1(v) = L1 - N(k - 1) /\ LenOld2(v) = L2 - N(k - 1)
               /\ LenNew1(v) = W(k \div 2) /\ LenNew2(v) = W((k - 1) \div 2)
               /\ Sorted(p)
    <3>1. /\ LenOld1(v) = L1 - N(k - 1) /\ LenOld2(v) = L2 - N(k - 1)
          /\ LenNew1(v) = W(k \div 2) /\ LenNew2(v) = W((k - 1) \div 2)
      BY <2>2, <2>8
    <3>2. LenNew1(v) = w * (k \div 2) /\ LenNew2(v) = w * ((k - 1) \div 2)
      BY <3>1 DEF W
    <3>3. Sorted(p)
      <4>1. CASE k % 2 = 1
        BY <2>4, <2>5, <2>6, <3>2, <4>1 DEF ToFirst
      <4>2. CASE k % 2 = 0
        BY <2>4, <2>5, <2>6, <3>2, <4>2 DEF ToSecond
      <4> QED BY <2>6, <4>1, <4>2
    <3> QED BY <3>1, <3>3
  <2>9. ASSUME k <= m PROVE Full(k, p) /\ Sorted(p)
    <3>0. k - 1 <= m
      BY <2>2, <2>9
    <3>a. Full(k - 1, v)
      BY <2>1, <2>2, <3>0
    <3>1. /\ LenOld1(v) = L1 - N(k - 1) /\ LenOld2(v) = L2 - N(k - 1)
          /\ LenNew1(v) = W(k \div 2) /\ LenNew2(v) = W((k - 1) \div 2)
          /\ Sorted(p)
      BY <2>8, <3>0, <3>a
    <3>2. N(k - 1) + n = N(k) /\ N(k) <= N(m) /\ N(k - 1) \in Nat /\ N(k) \in Nat /\ N(m) \in Nat
      <4>1. N((k - 1) + 1) = N(k - 1) + n
        BY <1>3, <2>2
      <4> QED BY <1>3, <2>2, <2>9, <4>1
    <3>3. n <= LenOld1(v) /\ n <= LenOld2(v)
      BY <1>1, <1>5, <3>1, <3>2
    <3>4. LenOld1(p) = LenOld1(v) - n /\ LenOld2(p) = LenOld2(v) - n /\ run = w
      <4>1. LenOld1(p) = LenOld1(v) - n /\ LenOld2(p) = LenOld2(v) - n
        BY <2>5, <3>3 DEF Less
      <4> QED BY <1>2, <2>3, <4>1 DEF Moved
    <3>5. LenOld1(p) = L1 - N(k) /\ LenOld2(p) = L2 - N(k)
      <4> HIDE DEF N
      <4>1. N(k) = N(k - 1) + n /\ L1 \in Nat /\ L2 \in Nat /\ n \in Nat
        BY <1>1, <3>2
      <4>2. LenOld1(p) = (L1 - N(k - 1)) - n /\ LenOld2(p) = (L2 - N(k - 1)) - n
        BY <3>1, <3>4
      <4>3. N(k - 1) \in Nat
        BY <3>2
      <4> HIDE DEF L1, L2
      <4> QED BY <4>1, <4>2, <4>3
    <3>6. LenNew1(p) = W((k + 1) \div 2) /\ LenNew2(p) = W(k \div 2)
      <4>1. CASE k % 2 = 1
        <5>1. (k + 1) \div 2 = k \div 2 + 1 /\ (k - 1) \div 2 = k \div 2
          BY <2>6, <4>1
        <5>2. W(k \div 2 + 1) = W(k \div 2) + w
          BY <1>4, <2>6
        <5> QED BY <2>a, <3>1, <3>4, <4>1, <5>1, <5>2
      <4>2. CASE k % 2 = 0
        <5>1. (k + 1) \div 2 = k \div 2 /\ ((k - 1) \div 2) + 1 = k \div 2
          BY <2>6, <4>2
        <5>2. W(((k - 1) \div 2) + 1) = W((k - 1) \div 2) + w
          BY <1>4, <2>6
        <5> QED BY <2>b, <3>1, <3>4, <4>2, <5>1, <5>2
      <4> QED BY <2>6, <4>1, <4>2
    <3> QED BY <3>1, <3>5, <3>6
  <2>10. ASSUME k = m + 1 PROVE Done(p) /\ Sorted(p)
    <3>1. k - 1 = m
      BY <2>2, <2>10
    <3>2. /\ LenOld1(v) = L1 - N(m) /\ LenOld2(v) = L2 - N(m)
          /\ LenNew1(v) = W(k \div 2) /\ LenNew2(v) = W(m \div 2)
          /\ Sorted(p)
      <4>1. Full(k - 1, v) /\ k - 1 <= m
        BY <2>1, <3>1
      <4> QED BY <2>8, <3>1, <4>1
    <3>3. N(m) \in Nat
      BY <1>3
    <3>4. LenOld1(v) <= n /\ LenOld2(v) <= n
      BY <1>1, <1>5, <3>2, <3>3
    <3>5. LenOld1(p) = 0 /\ LenOld2(p) = 0
      BY <2>3, <2>5, <3>4 DEF Less
    <3>6. run \in Nat /\ run <= w
      BY <1>2, <2>3, <3>4, <3>5 DEF Moved
    <3> HIDE DEF run
    <3>7. half = (k - 1) \div 2 /\ W(half) \in Nat
      BY <1>4, <1>6, <3>1 DEF half
    <3>8. CASE k % 2 = 1
      <4>1. k \div 2 = half
        BY <2>6, <3>7, <3>8
      <4>2. LenNew1(p) = W(half) + run /\ LenNew2(p) = W(half)
        BY <2>a, <3>1, <3>2, <3>7, <3>8, <4>1
      <4>3. m = 0 => W(half) = 0
        <5>1. m = 0 => half = 0
          BY DEF half
        <5> QED BY <1>4, <5>1
      <4>4. Done(p)
        BY <1>2, <3>5, <3>6, <3>7, <4>2, <4>3
      <4> QED BY <3>2, <4>4
    <3>9. CASE k % 2 = 0
      <4>1. k \div 2 = half + 1
        BY <1>6, <2>6, <3>7, <3>9
      <4>2. W(half + 1) = W(half) + w
        BY <1>4, <1>6
      <4>3. LenNew1(p) = W(half) + w /\ LenNew2(p) = W(half) + run
        BY <2>b, <3>1, <3>2, <3>7, <3>9, <4>1, <4>2
      <4>4. m # 0
        BY <2>10, <3>9
      <4>5. Done(p)
        BY <1>2, <3>5, <3>6, <3>7, <4>3, <4>4
      <4> QED BY <3>2, <4>5
    <3> QED BY <2>6, <3>8, <3>9
  <2>11. ASSUME k > m + 1 PROVE Done(p) /\ Sorted(p)
    <3>1. Done(v)
      BY <2>1, <2>2, <2>11
    <3>2. LenOld1(p) = 0 /\ LenOld2(p) = 0 /\ run = 0
      BY <2>3, <2>5, <3>1 DEF Less, Moved
    <3>3. p.new1 = v.new1 /\ p.new2 = v.new2
      BY <2>5, <2>6, <3>2 DEF ToFirst, ToSecond
    <3>4. Done(p)
      BY <3>1, <3>2, <3>3 DEF LenNew1, LenNew2
    <3>5. Sorted(p)
      BY <2>4, <2>5, <3>3
    <3> QED BY <3>4, <3>5
  <2>12. Sums(p)
    <3>1. LenNew1(p) + LenNew2(p) = (LenNew1(v) + LenNew2(v)) + run
      <4>1. run \in Int
        BY <2>3, <2>7 DEF Moved
      <4> HIDE DEF run
      <4>2. CASE k % 2 = 1
        <5>1. LenNew1(p) = LenNew1(v) + run /\ LenNew2(p) = LenNew2(v)
          BY <2>a, <4>2
        <5> QED BY <2>3, <4>1, <5>1
      <4>3. CASE k % 2 = 0
        <5>1. LenNew2(p) = LenNew2(v) + run /\ LenNew1(p) = LenNew1(v)
          BY <2>b, <4>3
        <5> QED BY <2>3, <4>1, <5>1
      <4> QED BY <2>6, <4>2, <4>3
    <3>2. (LenNew1(v) + LenNew2(v)) + (LenOld1(v) + LenOld2(v)) = L1 + L2
      BY <2>4
    <3>3. (LenNew1(p) + LenNew2(p)) + (LenOld1(p) + LenOld2(p)) = L1 + L2
      <4>1. LenNew1(p) \in Nat /\ LenNew2(p) \in Nat
        BY <2>7
      <4>2. /\ run = (LenOld1(v) - LenOld1(p)) + (LenOld2(v) - LenOld2(p))
            /\ LenOld1(v) \in Nat /\ LenOld2(v) \in Nat /\ LenNew1(v) \in Nat /\ LenNew2(v) \in Nat
            /\ LenOld1(p) \in Nat /\ LenOld2(p) \in Nat
        BY <2>3, <2>7 DEF Moved
      <4>3. (LenNew1(p) + LenNew2(p)) + (LenOld1(p) + LenOld2(p))
              = (LenNew1(v) + LenNew2(v)) + (LenOld1(v) + LenOld2(v))
        <5> DEFINE m1 == LenNew1(v)  m2 == LenNew2(v)  n1 == LenNew1(p)  n2 == LenNew2(p)
                   old1v == LenOld1(v)  old2v == LenOld2(v)  old1p == LenOld1(p)  old2p == LenOld2(p)
        <5>1. /\ m1 \in Nat /\ m2 \in Nat /\ n1 \in Nat /\ n2 \in Nat
              /\ old1v \in Nat /\ old2v \in Nat /\ old1p \in Nat /\ old2p \in Nat
              /\ n1 + n2 = (m1 + m2) + run /\ run = (old1v - old1p) + (old2v - old2p)
          BY <3>1, <4>1, <4>2
        <5> HIDE DEF run, m1, m2, n1, n2, old1v, old2v, old1p, old2p
        <5>2. (n1 + n2) + (old1p + old2p) = (m1 + m2) + (old1v + old2v)
          BY <5>1, Exchanged
        <5> QED BY <5>2 DEF m1, m2, n1, n2, old1v, old2v, old1p, old2p
      <4> QED BY <3>2, <4>3
    <3>4. \A x : InAll(x, p) = Times(x, old1) + Times(x, old2)
      BY <2>4, <2>5
    <3> QED BY <3>3, <3>4
  <2> HIDE DEF Sums, Sorted, Full, Done, run
  <2>13. Good(k, p)
    <3>1. k <= m \/ k = m + 1 \/ k > m + 1
      BY <2>2
    <3> QED BY <2>2, <2>9, <2>10, <2>11, <2>12, <3>1
  <2> HIDE DEF Good
  <2>14. <<k, p>> \in I
    BY <2>2, <2>5, <2>13
  <2> QED BY <2>14 DEF p
<1>9. <<rounds, last>> \in I
  <2> HIDE DEF I, first
  <2>1. 0 \in Int /\ rounds \in Int /\ 0 <= rounds
    BY <1>1
  <2> QED BY <1>7, <1>8, <2>1, Merging!LoopRule
<1>10. MergePass(old1, old2, n) = last
  BY Zenon DEF MergePass, Loop, Merging!Iterate, rounds, first, L1, L2
<1> HIDE DEF last
<1>11. last \in Passes /\ Sums(last) /\ Sorted(last) /\ Done(last)
  <2> HIDE DEF Sums, Sorted, Full, Done
  <2>1. last \in Passes /\ Good(rounds, last)
    <3> HIDE DEF Good
    <3> QED BY <1>9
  <2> QED BY <1>1, <2>1
<1>12. /\ last.new1 \in Seq(BlobRecords) /\ last.new2 \in Seq(BlobRecords)
       /\ last.old1 \in Seq(BlobRecords) /\ last.old2 \in Seq(BlobRecords)
       /\ LenNew1(last) \in Nat /\ LenNew2(last) \in Nat
  BY <1>11, LengthsAreNat DEF Passes
<1>13. LenNew1(last) + LenNew2(last) = L1 + L2
  BY <1>1, <1>11, <1>12
<1>14. ASSUME NEW x PROVE Times(x, last.new1) + Times(x, last.new2) = Times(x, old1) + Times(x, old2)
  <2>1. Times(x, last.old1) = 0 /\ Times(x, last.old2) = 0
    <3>1. Len(last.old1) = 0 /\ Len(last.old2) = 0
      BY <1>11 DEF LenOld1, LenOld2
    <3> QED BY <3>1, TimesOfEmpty
  <2>2. InAll(x, last) = Times(x, old1) + Times(x, old2)
    BY <1>11
  <2>3. Times(x, last.new1) \in Nat /\ Times(x, last.new2) \in Nat
    BY <1>12, TimesIsNat
  <2> QED BY <2>1, <2>2, <2>3 DEF InAll
<1>15. W(half) + w = w * (half + 1) /\ W(half) = w * half
  BY <1>4, <1>6 DEF W
<1>16. /\ BlocksDescending(last.new1, w) /\ BlocksDescending(last.new2, w)
       /\ w * half <= LenNew1(last) /\ LenNew1(last) <= w * (half + 1)
       /\ w * half <= LenNew2(last) /\ LenNew2(last) <= w * (half + 1)
       /\ m = 0 => LenNew2(last) = 0
  BY <1>11, <1>15
<1> QED BY <1>10, <1>12, <1>13, <1>14, <1>16 DEF w, half, L1, L2, LenNew1, LenNew2

-----------------------------------------------------------------------------
(* Passes over blocks of twice the size leave one sorted list.             *)

\* What SortLists works on, and the lengths of its lists.
Sorts == [first : Seq(BlobRecords), second : Seq(BlobRecords), blocksize : Nat \ {0}]
LenFirst(v) == Len(v.first)
LenSecond(v) == Len(v.second)

InBoth(x, v) == Times(x, v.first) + Times(x, v.second)

Blocks(v) == BlocksDescending(v.first, v.blocksize) /\ BlocksDescending(v.second, v.blocksize)

\* Each list is m blocks and what is left, a block at most.
Pairs(v, m) ==
  /\ v.blocksize * m <= LenFirst(v) /\ LenFirst(v) <= v.blocksize * (m + 1)
  /\ v.blocksize * m <= LenSecond(v) /\ LenSecond(v) <= v.blocksize * (m + 1)
  /\ m < LenSecond(v)

LEMMA TwiceTheBlocks ==
  ASSUME NEW n \in Nat \ {0}, NEW h \in Nat \ {0}
  PROVE  h < (2 * n) * h
<1>1. PICK k \in Nat : n = k + 1
  <2>1. n - 1 \in Nat /\ n = (n - 1) + 1
    OBVIOUS
  <2> QED BY <2>1
<1>2. (2 * (k + 1)) * h = 2 * (k * h) + 2 * h /\ k * h \in Nat
  OBVIOUS
<1> QED BY <1>1, <1>2

\* One pass: the lists stay sorted in blocks, and half the blocks are left.
LEMMA SortPassKeeps ==
  ASSUME NEW v \in Sorts, v.second # <<>>, Blocks(v), NEW m \in Nat, Pairs(v, m), NEW turn
  PROVE  LET p == SortPass(0, v, turn) IN
         /\ p \in Sorts /\ Blocks(p)
         /\ LenFirst(p) + LenSecond(p) = LenFirst(v) + LenSecond(v)
         /\ \A x : InBoth(x, p) = InBoth(x, v)
         /\ p.second = <<>> => Descending(p.first)
         /\ p.second # <<>> => Pairs(p, m \div 2) /\ m \div 2 < m
<1> DEFINE n == v.blocksize
           w == 2 * n
           half == m \div 2
           pass == MergePass(v.first, v.second, n)
           p == SortPass(0, v, turn)
<1>1. v.first \in Seq(BlobRecords) /\ v.second \in Seq(BlobRecords) /\ n \in Nat \ {0}
  BY DEF Sorts
<1>2. p = [first |-> pass.new1, second |-> pass.new2, blocksize |-> w]
  BY DEF SortPass
<1>3. /\ m < Len(v.second) /\ BlocksDescending(v.first, n) /\ BlocksDescending(v.second, n)
      /\ n * m <= Len(v.first) /\ Len(v.first) <= n * (m + 1)
      /\ n * m <= Len(v.second) /\ Len(v.second) <= n * (m + 1)
  BY DEF Pairs, Blocks, LenFirst, LenSecond
<1> HIDE DEF n, p
<1>4. /\ pass.new1 \in Seq(BlobRecords) /\ pass.new2 \in Seq(BlobRecords)
      /\ LenNew1(pass) + LenNew2(pass) = Len(v.first) + Len(v.second)
      /\ \A x : Times(x, pass.new1) + Times(x, pass.new2) = Times(x, v.first) + Times(x, v.second)
      /\ BlocksDescending(pass.new1, w) /\ BlocksDescending(pass.new2, w)
  BY <1>1, <1>3, MergePassKeeps, Zenon
<1>5. /\ w * half <= LenNew1(pass) /\ LenNew1(pass) <= w * (half + 1)
      /\ w * half <= LenNew2(pass) /\ LenNew2(pass) <= w * (half + 1)
      /\ m = 0 => LenNew2(pass) = 0
  BY <1>1, <1>3, MergePassKeeps, Zenon
<1>6. half \in Nat /\ w \in Nat \ {0} /\ (m # 0 => half < m)
  BY <1>1
<1> HIDE DEF pass
<1>7. /\ p.first = pass.new1 /\ p.second = pass.new2 /\ p.blocksize = w
      /\ LenFirst(p) = LenNew1(pass) /\ LenSecond(p) = LenNew2(pass)
  BY <1>2 DEF LenFirst, LenSecond, LenNew1, LenNew2
<1>8. LenFirst(p) \in Nat /\ LenSecond(p) \in Nat
  BY <1>4, <1>7 DEF LenFirst, LenSecond
<1>9. p \in Sorts /\ Blocks(p)
  BY <1>2, <1>4, <1>6, <1>7 DEF Sorts, Blocks
<1>10. LenFirst(p) + LenSecond(p) = LenFirst(v) + LenSecond(v)
  BY <1>4, <1>7 DEF LenFirst, LenSecond
<1>11. \A x : InBoth(x, p) = InBoth(x, v)
  BY <1>4, <1>7 DEF InBoth
<1>12. half # 0 => half < w * half
  <2>1. n \in Nat \ {0}
    BY <1>1
  <2> HIDE DEF half
  <2> QED BY <1>6, <2>1, TwiceTheBlocks
<1> HIDE DEF half, w
<1>13. w * half \in Nat
  BY <1>6
<1>14. ASSUME p.second = <<>> PROVE Descending(p.first)
  <2>1. LenSecond(p) = 0
    BY <1>14 DEF LenSecond
  <2>2. half = 0
    <3>1. w * half <= 0
      BY <1>5, <1>7, <2>1
    <3> QED BY <1>6, <1>12, <1>13, <3>1
  <2>3. w * (half + 1) = w
    BY <1>6, <2>2
  <2>4. Len(p.first) <= w /\ p.first \in Seq(BlobRecords) /\ BlocksDescending(p.first, w) /\ w \in Nat
    BY <1>4, <1>5, <1>6, <1>7, <2>3 DEF LenFirst
  <2> QED BY <2>4, OneBlock
<1>15. ASSUME p.second # <<>> PROVE Pairs(p, half) /\ half < m
  <2>1. LenSecond(p) # 0
    <3>1. p.second \in Seq(BlobRecords)
      BY <1>4, <1>7
    <3> QED BY <1>15, <3>1 DEF LenSecond
  <2>2. m # 0
    BY <1>5, <1>7, <2>1
  <2>3. half < LenSecond(p)
    <3>1. w * half <= LenSecond(p)
      BY <1>5, <1>7
    <3> QED BY <1>6, <1>8, <1>12, <1>13, <2>1, <3>1
  <2>4. Pairs(p, half)
    BY <1>5, <1>7, <2>3 DEF Pairs
  <2> QED BY <1>6, <2>2, <2>4
<1> QED BY <1>9, <1>10, <1>11, <1>14, <1>15 DEF p, half

\* The two halves of a list become one that is sorted.
LEMMA SortListsSorts ==
  ASSUME NEW first \in Seq(BlobRecords), NEW second \in Seq(BlobRecords),
         \/ Len(second) = 0 /\ Len(first) <= 1
         \/ Len(second) > 0 /\ (Len(first) = Len(second) \/ Len(first) + 1 = Len(second))
  PROVE  LET s == SortLists(first, second) IN
         /\ s \in Seq(BlobRecords) /\ Len(s) = Len(first) + Len(second)
         /\ \A x : Times(x, s) = Times(x, first) + Times(x, second)
         /\ Descending(s)
<1> DEFINE L1 == Len(first)
           L2 == Len(second)
           rounds == L1 + L2
           start == [first |-> first, second |-> second, blocksize |-> 1]
           last == Sorting!Iterate(0, start, 0, rounds)
           Left(k, v) == \E m \in Nat : Pairs(v, m) /\ m + k <= L2 - 1
           Good(k, v) == /\ Blocks(v) /\ LenFirst(v) + LenSecond(v) = rounds
                         /\ \A x : InBoth(x, v) = Times(x, first) + Times(x, second)
                         /\ v.second = <<>> => Descending(v.first)
                         /\ v.second # <<>> => Left(k, v)
           I == {q \in (0..rounds) \X Sorts : Good(q[1], q[2])}
<1>1. L1 \in Nat /\ L2 \in Nat /\ rounds \in Nat /\ 0 \in 0..rounds
  OBVIOUS
<1>2. <<0, start>> \in I
  <2>1. start \in Sorts /\ start.first = first /\ start.second = second /\ start.blocksize = 1
    BY DEF Sorts
  <2> HIDE DEF start
  <2>2. LenFirst(start) = L1 /\ LenSecond(start) = L2
    BY <2>1 DEF LenFirst, LenSecond
  <2>3. Blocks(start)
    BY <2>1, SmallBlocks DEF Blocks
  <2>4. \A x : InBoth(x, start) = Times(x, first) + Times(x, second)
    BY <2>1 DEF InBoth
  <2>5. ASSUME start.second = <<>> PROVE Descending(start.first)
    <3>1. Len(first) <= 1
      <4>1. Len(second) = 0
        BY <2>1, <2>5
      <4> QED BY <4>1
    <3> QED BY <2>1, <3>1 DEF Descending
  <2>6. ASSUME start.second # <<>> PROVE Left(0, start)
    <3>1. L2 > 0
      BY <2>1, <2>6
    <3>2. L1 = L2 \/ L1 + 1 = L2
      BY <3>1
    <3> HIDE DEF L1, L2
    <3>3. L2 - 1 \in Nat /\ 1 * (L2 - 1) = L2 - 1 /\ 1 * ((L2 - 1) + 1) = L2
      BY <1>1, <3>1
    <3>4. Pairs(start, L2 - 1)
      BY <1>1, <2>1, <2>2, <3>2, <3>3 DEF Pairs
    <3>5. (L2 - 1) + 0 <= L2 - 1
      BY <3>3
    <3> QED BY <3>3, <3>4, <3>5
  <2> HIDE DEF Left
  <2>7. Good(0, start)
    BY <2>2, <2>3, <2>4, <2>5, <2>6
  <2> HIDE DEF Good
  <2> QED BY <1>1, <2>1, <2>7
<1> HIDE DEF L1, L2, start
<1>3. ASSUME NEW k \in 0 + 1..rounds, NEW v, <<k - 1, v>> \in I
      PROVE  <<k, SortPass(0, v, k)>> \in I
  <2> DEFINE p == SortPass(0, v, k)
  <2>1. k - 1 \in 0..rounds /\ v \in Sorts /\ Good(k - 1, v)
    <3> HIDE DEF Good
    <3> QED BY <1>3
  <2>2. k \in 0..rounds /\ k \in Nat
    BY <1>1
  <2>3. CASE v.second = <<>>
    <3>1. p = v
      BY <2>3 DEF SortPass
    <3>2. Good(k, v)
      BY <2>1, <2>3
    <3> HIDE DEF Good, p
    <3>3. <<k, p>> \in I
      BY <2>1, <2>2, <3>1, <3>2
    <3> QED BY <3>3 DEF p
  <2>4. CASE v.second # <<>>
    <3>1. PICK m \in Nat : Pairs(v, m) /\ m + (k - 1) <= L2 - 1
      BY <2>1, <2>4, Zenon
    <3>2. Blocks(v)
      BY <2>1
    <3>3. /\ p \in Sorts /\ Blocks(p)
          /\ LenFirst(p) + LenSecond(p) = LenFirst(v) + LenSecond(v)
          /\ \A x : InBoth(x, p) = InBoth(x, v)
      BY <2>1, <2>4, <3>1, <3>2, SortPassKeeps, Zenon
    <3>4. p.second = <<>> => Descending(p.first)
      BY <2>1, <2>4, <3>1, <3>2, SortPassKeeps, Zenon
    <3>5. p.second # <<>> => Pairs(p, m \div 2) /\ m \div 2 < m
      BY <2>1, <2>4, <3>1, <3>2, SortPassKeeps, Zenon
    <3> HIDE DEF p
    <3>6. ASSUME p.second # <<>> PROVE Left(k, p)
      <4>1. m \div 2 \in Nat /\ m \div 2 + k <= L2 - 1
        <5>1. m \div 2 \in Nat /\ m \div 2 < m
          BY <3>5, <3>6
        <5> QED BY <1>1, <2>2, <3>1, <5>1
      <4> QED BY <3>5, <3>6, <4>1
    <3>7. LenFirst(p) + LenSecond(p) = rounds /\ \A x : InBoth(x, p) = Times(x, first) + Times(x, second)
      BY <2>1, <3>3
    <3> HIDE DEF Left, rounds
    <3>8. Good(k, p)
      BY <3>3, <3>4, <3>6, <3>7
    <3> HIDE DEF Good
    <3>9. <<k, p>> \in I
      BY <2>2, <3>3, <3>8
    <3> QED BY <3>9 DEF p
  <2> QED BY <2>3, <2>4
<1>4. <<rounds, last>> \in I
  <2> HIDE DEF I
  <2>1. 0 \in Int /\ rounds \in Int /\ 0 <= rounds
    BY <1>1
  <2> QED BY <1>2, <1>3, <2>1, Sorting!LoopRule
<1>5. SortLists(first, second) = last.first
  BY Zenon DEF SortLists, Loop, Sorting!Iterate, start, L1, L2
<1> HIDE DEF last
<1>6. last \in Sorts /\ Good(rounds, last)
  <2> HIDE DEF Good
  <2> QED BY <1>4
<1>7. last.second = <<>>
  <2>1. ASSUME NEW m \in Nat PROVE ~(m + rounds <= L2 - 1)
    BY <1>1
  <2> HIDE DEF rounds
  <2> QED BY <1>6, <2>1
<1>8. last.first \in Seq(BlobRecords) /\ Descending(last.first)
  BY <1>6, <1>7 DEF Sorts
<1>9. Len(last.first) = rounds
  <2>1. LenSecond(last) = 0 /\ LenFirst(last) \in Nat
    BY <1>7, <1>8 DEF LenSecond, LenFirst
  <2>2. LenFirst(last) + LenSecond(last) = rounds
    BY <1>6
  <2> QED BY <1>1, <2>1, <2>2 DEF LenFirst
<1>10. ASSUME NEW x PROVE Times(x, last.first) = Times(x, first) + Times(x, second)
  <2>1. InBoth(x, last) = Times(x, first) + Times(x, second)
    BY <1>6
  <2>2. Times(x, last.second) = 0 /\ Times(x, last.first) \in Nat
    <3>1. Len(last.second) = 0
      BY <1>7
    <3> QED BY <1>8, <3>1, TimesOfEmpty, TimesIsNat
  <2> QED BY <2>1, <2>2 DEF InBoth
<1> QED BY <1>5, <1>8, <1>9, <1>10 DEF L1, L2

\* The finished blobs, sorted, are the same blobs.
THEOREM SortFinishedSorts ==
  ASSUME NEW a, a.finished \in Seq(BlobRecords)
  PROVE  LET s == SortLists(SplitList(a.finished)[1], SplitList(a.finished)[2]) IN
         /\ s \in Seq(BlobRecords) /\ Same(a.finished, s) /\ Descending(s)
<1> DEFINE f == a.finished
           L == Len(f)
           half == Max({1, L \div 2})
           front == Front_n(f, half)
           rest == Rest_n(f, half)
           s == SortLists(front, rest)
<1>1. L \in Nat /\ half \in Nat \ {0} /\ half = IF 1 >= L \div 2 THEN 1 ELSE L \div 2
  <2>1. L \in Nat /\ L \div 2 \in Int /\ 1 \in Int
    OBVIOUS
  <2> HIDE DEF L
  <2>2. half = IF 1 >= L \div 2 THEN 1 ELSE L \div 2
    BY <2>1, Extremes, Zenon
  <2> HIDE DEF half
  <2> QED BY <2>1, <2>2
<1> HIDE DEF half
<1>2. /\ front \in Seq(BlobRecords) /\ rest \in Seq(BlobRecords)
      /\ Len(front) = (IF half <= L THEN half ELSE L)
      /\ Len(rest) = (IF half <= L THEN L - half ELSE 0)
      /\ \A x : Times(x, f) = Times(x, front) + Times(x, rest)
  BY <1>1, FrontAndRest
<1> HIDE DEF front, rest
<1>3. \/ Len(rest) = 0 /\ Len(front) <= 1
      \/ Len(rest) > 0 /\ (Len(front) = Len(rest) \/ Len(front) + 1 = Len(rest))
  <2> HIDE DEF L
  <2>1. CASE L <= 1
    BY <1>1, <1>2, <2>1
  <2>2. CASE L > 1
    BY <1>1, <1>2, <2>2
  <2> QED BY <1>1, <2>1, <2>2
<1>4. /\ s \in Seq(BlobRecords) /\ Len(s) = Len(front) + Len(rest)
      /\ \A x : Times(x, s) = Times(x, front) + Times(x, rest)
      /\ Descending(s)
  BY <1>2, <1>3, SortListsSorts
<1>5. Len(f) = Len(s)
  <2> HIDE DEF s
  <2> QED BY <1>1, <1>2, <1>4
<1>6. Same(f, s)
  <2> HIDE DEF s, f
  <2> QED BY <1>2, <1>4, <1>5 DEF Same
<1>7. SplitList(a.finished)[1] = front /\ SplitList(a.finished)[2] = rest
  BY DEF SplitList, front, rest, half
<1> HIDE DEF s
<1> QED BY <1>4, <1>6, <1>7 DEF s

-----------------------------------------------------------------------------
(* The end of the frame.                                                   *)

\* What blobify finds: whole blobs, none of which touches another.
Ended(f) ==
  /\ f \in Seq(BlobRecords)
  /\ \A i \in 1..Len(f) : Sound(f[i]) /\ f[i].nextBottom.row = NoRow
  /\ \A i, j \in 1..Len(f) : i # j => Apart(f[i], f[j])

SegmentLists(f) == {b.segments : b \in ToSet(f)}

LEMMA SegmentListsOf ==
  ASSUME NEW S, NEW f \in Seq(S), NEW x
  PROVE  x \in SegmentLists(f) <=> \E i \in 1..Len(f) : x = f[i].segments
<1>1. DOMAIN f = 1..Len(f)
  OBVIOUS
<1>2. ASSUME x \in SegmentLists(f) PROVE \E i \in 1..Len(f) : x = f[i].segments
  <2>1. PICK b \in ToSet(f) : x = b.segments
    BY <1>2, Zenon DEF SegmentLists
  <2>2. PICK i \in 1..Len(f) : b = f[i]
    BY <1>1 DEF ToSet
  <2> QED BY <2>1, <2>2
<1>3. ASSUME NEW i \in 1..Len(f), x = f[i].segments PROVE x \in SegmentLists(f)
  <2> DEFINE b == f[i]
  <2>1. b \in ToSet(f)
    BY <1>1 DEF ToSet
  <2>2. x = b.segments
    BY <1>3
  <2> HIDE DEF b
  <2> QED BY <2>1, <2>2, Zenon DEF SegmentLists
<1> QED BY <1>2, <1>3

LEMMA SameSegmentLists ==
  ASSUME NEW S, NEW f \in Seq(S), NEW g \in Seq(S),
         \A i \in 1..Len(f) : \E j \in 1..Len(g) : f[i].segments = g[j].segments,
         \A j \in 1..Len(g) : \E i \in 1..Len(f) : f[i].segments = g[j].segments
  PROVE  SegmentLists(f) = SegmentLists(g)
<1>1. ASSUME NEW x PROVE x \in SegmentLists(f) <=> x \in SegmentLists(g)
  <2>1. x \in SegmentLists(f) <=> \E i \in 1..Len(f) : x = f[i].segments
    BY SegmentListsOf
  <2>2. x \in SegmentLists(g) <=> \E i \in 1..Len(g) : x = g[i].segments
    BY SegmentListsOf
  <2>3. ASSUME NEW i \in 1..Len(f), x = f[i].segments PROVE \E j \in 1..Len(g) : x = g[j].segments
    BY <2>3
  <2>4. ASSUME NEW j \in 1..Len(g), x = g[j].segments PROVE \E i \in 1..Len(f) : x = f[i].segments
    BY <2>4
  <2> QED BY <2>1, <2>2, <2>3, <2>4
<1> QED BY <1>1

\* While nothing is being joined no two blobs touch, active or finished.
LEMMA AllApart ==
  ASSUME NEW a, Working(a, {})
  PROVE  LET all == a.active \o a.finished
             L == Len(a.active) + Len(a.finished) IN
         /\ all \in Seq(BlobRecords) /\ Len(all) = L
         /\ \A j \in 1..L : Sound(all[j]) /\ (~(j <= Len(a.active)) => all[j].nextBottom.row = NoRow)
         /\ \A i, j \in 1..L : i # j => Apart(all[i], all[j])
<1> DEFINE all == a.active \o a.finished
           La == Len(a.active)
           Lf == Len(a.finished)
           L == La + Lf
<1>1. /\ a \in Assemblers /\ a.active \in Seq(BlobRecords) /\ a.finished \in Seq(BlobRecords)
      /\ La \in Nat /\ Lf \in Nat /\ L \in Nat
      /\ ActiveSound(a) /\ FinishedSound(a) /\ FinishedApart(a) /\ ActiveApart(a, {})
  BY DEF Working, Assemblers
<1>4. /\ all \in Seq(BlobRecords) /\ Len(all) = L
      /\ \A j \in 1..L : all[j] = IF j <= La THEN a.active[j] ELSE a.finished[j - La]
  BY <1>1, Concat
<1>a. La = Len(a.active) /\ Lf = Len(a.finished) /\ L = La + Lf
  OBVIOUS
<1> HIDE DEF all, L, La, Lf
<1>8. ASSUME NEW j \in 1..L
      PROVE  /\ j <= La => j \in Active(a)
             /\ ~(j <= La) => j - La \in Finished(a)
  <2>1. Active(a) = 1..La /\ Finished(a) = 1..Lf
    BY <1>a DEF Active, Finished
  <2>2. La \in Nat /\ Lf \in Nat /\ L = La + Lf
    BY <1>1, <1>a
  <2>3. (j <= La => j \in 1..La) /\ (~(j <= La) => j - La \in 1..Lf)
    BY <2>2
  <2> QED BY <2>1, <2>3
<1>9. ASSUME NEW j \in 1..L
      PROVE  Sound(all[j]) /\ (~(j <= La) => all[j].nextBottom.row = NoRow)
  BY <1>1, <1>4, <1>8 DEF ActiveSound, FinishedSound
<1>10. ASSUME NEW i \in 1..L, NEW j \in 1..L, i # j PROVE Apart(all[i], all[j])
  <2>1. CASE i <= La /\ j <= La
    BY <1>1, <1>4, <1>8, <1>10, <2>1 DEF ActiveApart, Apart
  <2>2. CASE i <= La /\ ~(j <= La)
    BY <1>1, <1>4, <1>8, <2>2 DEF FinishedApart
  <2>3. CASE ~(i <= La) /\ j <= La
    BY <1>1, <1>4, <1>8, <2>3 DEF FinishedApart
  <2>4. CASE ~(i <= La) /\ ~(j <= La)
    <3>1. i - La # j - La
      BY <1>1, <1>10
    <3> QED BY <1>1, <1>4, <1>8, <2>4, <3>1 DEF FinishedApart
  <2> QED BY <2>1, <2>2, <2>3, <2>4
<1> QED BY <1>4, <1>9, <1>10 DEF all, L, La, Lf

\* Every blob is finished, with the segments it has.
LEMMA EndFrameKeeps ==
  ASSUME NEW a, Working(a, {})
  PROVE  LET n == EndFrame(a)
             all == a.active \o a.finished IN
         /\ n = [a EXCEPT !.active = <<>>, !.finished = n.finished]
         /\ Ended(n.finished) /\ Len(n.finished) = Len(all)
         /\ SegmentLists(n.finished) = SegmentLists(all)
<1> DEFINE n == EndFrame(a)
           all == a.active \o a.finished
           La == Len(a.active)
           Lf == Len(a.finished)
           L == La + Lf
           rows == [k \in DOMAIN a.active |-> NewRow(a.active[k])]
           back == Reverse(rows)
           f == back \o a.finished
           P(i) == IF i <= La THEN La - i + 1 ELSE i
<1>1. /\ a \in Assemblers /\ a.active \in Seq(BlobRecords) /\ a.finished \in Seq(BlobRecords)
      /\ La \in Nat /\ Lf \in Nat /\ L \in Nat
      /\ ActiveSound(a) /\ FinishedSound(a) /\ FinishedApart(a) /\ ActiveApart(a, {})
  BY DEF Working, Assemblers
<1>2. n = [a EXCEPT !.active = <<>>, !.finished = f]
  BY DEF EndFrame
<1>3. n.finished = f
  BY <1>1, <1>2 DEF Assemblers
<1>4. /\ all \in Seq(BlobRecords) /\ Len(all) = L
      /\ \A j \in 1..L : all[j] = IF j <= La THEN a.active[j] ELSE a.finished[j - La]
  BY <1>1, Concat
<1>5. /\ back \in Seq(BlobRecords) /\ Len(back) = La
      /\ \A i \in 1..La : back[i] = NewRow(a.active[La - i + 1])
  <2>1. \A k \in 1..La : NewRow(a.active[k]) \in BlobRecords
    BY <1>1, NewRowSound DEF ActiveSound, Active, Sound
  <2>2. DOMAIN a.active = 1..La
    BY <1>1
  <2>3. rows \in Seq(BlobRecords) /\ Len(rows) = La /\ \A k \in 1..La : rows[k] = NewRow(a.active[k])
    BY <1>1, <2>1, <2>2
  <2> HIDE DEF rows, La
  <2>4. \A i \in 1..La : La - i + 1 \in 1..La /\ (La - i) + 1 = La - i + 1
    BY <1>1
  <2>5. back = [i \in 1..La |-> rows[(La - i) + 1]]
    BY <2>3 DEF Reverse
  <2> HIDE DEF back
  <2>6. \A i \in 1..La : rows[(La - i) + 1] \in BlobRecords
    BY <2>1, <2>3, <2>4
  <2>7. back \in Seq(BlobRecords) /\ Len(back) = La
    BY <1>1, <2>5, <2>6
  <2>8. \A i \in 1..La : back[i] = NewRow(a.active[La - i + 1])
    BY <2>3, <2>4, <2>5
  <2> QED BY <2>7, <2>8
<1> HIDE DEF all, back, rows
<1>6. /\ f \in Seq(BlobRecords) /\ Len(f) = L
      /\ \A i \in 1..L : f[i] = IF i <= La THEN back[i] ELSE a.finished[i - La]
  <2>1. Len(a.finished) = Lf
    OBVIOUS
  <2> HIDE DEF La, Lf
  <2> QED BY <1>1, <1>5, <2>1, Concat
<1>a. La = Len(a.active) /\ Lf = Len(a.finished) /\ L = La + Lf
  OBVIOUS
<1> HIDE DEF f, L, La, Lf
<1>7. \A i \in 1..L : P(i) \in 1..L /\ P(P(i)) = i
  BY <1>1 DEF L
<1>9. /\ \A j \in 1..L : Sound(all[j]) /\ (~(j <= La) => all[j].nextBottom.row = NoRow)
      /\ \A i, j \in 1..L : i # j => Apart(all[i], all[j])
  BY <1>a, AllApart DEF all
<1>11. ASSUME NEW i \in 1..L
       PROVE  /\ Sound(f[i]) /\ f[i].nextBottom.row = NoRow
              /\ Segs(f[i]) = Segs(all[P(i)]) /\ f[i].segments = all[P(i)].segments
  <2>1. CASE i <= La
    <3>1. P(i) = La - i + 1 /\ P(i) <= La /\ P(i) \in 1..L /\ i \in 1..La
      <4>1. P(i) = La - i + 1 /\ P(i) \in 1..L
        BY <1>7, <2>1
      <4> HIDE DEF P
      <4>2. La - i + 1 <= La /\ i \in 1..La
        BY <1>1, <1>a, <2>1
      <4> QED BY <4>1, <4>2
    <3> DEFINE b == all[P(i)]
    <3>2. f[i] = NewRow(b)
      <4>1. f[i] = NewRow(a.active[La - i + 1])
        BY <1>5, <1>6, <2>1, <3>1
      <4>2. b = a.active[La - i + 1]
        BY <1>4, <3>1
      <4> QED BY <4>1, <4>2
    <3>3. Sound(b)
      BY <1>9, <3>1
    <3> HIDE DEF b
    <3>4. NewRow(b).segments = b.segments
      BY <3>3 DEF NewRow, Sound, BlobRecords
    <3>5. Sound(NewRow(b)) /\ NewRow(b).nextBottom.row = NoRow /\ Segs(NewRow(b)) = Segs(b)
      BY <3>3, NewRowSound
    <3> QED BY <3>2, <3>4, <3>5 DEF b
  <2>2. CASE ~(i <= La)
    <3>1. P(i) = i /\ f[i] = all[i]
      BY <1>4, <1>6, <2>2
    <3> QED BY <1>9, <2>2, <3>1
  <2> QED BY <2>1, <2>2
<1> HIDE DEF P
<1>12. ASSUME NEW i \in 1..L, NEW j \in 1..L, i # j PROVE Apart(f[i], f[j])
  <2>1. P(i) \in 1..L /\ P(j) \in 1..L /\ P(i) # P(j)
    BY <1>7, <1>12
  <2>2. Apart(all[P(i)], all[P(j)])
    BY <1>9, <2>1
  <2> QED BY <1>11, <2>2 DEF Apart
<1>13. Ended(f)
  BY <1>6, <1>11, <1>12 DEF Ended
<1>14. SegmentLists(f) = SegmentLists(all)
  <2>1. \A i \in 1..L : \E j \in 1..L : f[i].segments = all[j].segments
    BY <1>7, <1>11
  <2>2. \A j \in 1..L : \E i \in 1..L : f[i].segments = all[j].segments
    <3>1. \A j \in 1..L : P(j) \in 1..L /\ f[P(j)].segments = all[P(P(j))].segments
      BY <1>7, <1>11
    <3> QED BY <1>7, <3>1
  <2>3. Len(f) = L /\ Len(all) = L
    BY <1>4, <1>6
  <2>4. /\ \A i \in 1..Len(f) : \E j \in 1..Len(all) : f[i].segments = all[j].segments
        /\ \A j \in 1..Len(all) : \E i \in 1..Len(f) : f[i].segments = all[j].segments
    BY <2>1, <2>2, <2>3
  <2> QED BY <1>4, <1>6, <2>4, SameSegmentLists
<1> QED BY <1>2, <1>3, <1>4, <1>6, <1>13, <1>14 DEF n, all

\* At the end of a frame every blob is finished, in order of area; none is lost or
\* there twice, and no two of them touch.
THEOREM FrameEnds ==
  ASSUME NEW a, Working(a, {})
  PROVE  LET n == SortFinished(EndFrame(a))
             all == a.active \o a.finished IN
         /\ n \in Assemblers /\ n.currentRow = a.currentRow /\ n.active = <<>>
         /\ Ended(n.finished) /\ Descending(n.finished)
         /\ Len(n.finished) = Len(all) /\ SegmentLists(n.finished) = SegmentLists(all)
<1> DEFINE e == EndFrame(a)
           all == a.active \o a.finished
           s == SortLists(SplitList(e.finished)[1], SplitList(e.finished)[2])
           n == SortFinished(e)
<1>1. /\ e = [a EXCEPT !.active = <<>>, !.finished = e.finished]
      /\ Ended(e.finished) /\ Len(e.finished) = Len(all)
      /\ SegmentLists(e.finished) = SegmentLists(all)
  BY EndFrameKeeps
<1>2. a \in Assemblers
  BY DEF Working
<1> HIDE DEF e, all
<1>3. /\ e.active = <<>> /\ e.currentRow = a.currentRow
      /\ DOMAIN e = {"currentRow", "active", "cur", "finished"}
  BY <1>1, <1>2 DEF Assemblers
<1>4. n = [e EXCEPT !.finished = s]
  BY DEF SortFinished
<1> HIDE DEF n
<1>5. n.active = <<>> /\ n.currentRow = a.currentRow /\ n.finished = s
  BY <1>3, <1>4
<1>6. /\ e.finished \in Seq(BlobRecords) /\ s \in Seq(BlobRecords)
      /\ Same(e.finished, s) /\ Descending(s)
  BY <1>1, SortFinishedSorts DEF Ended
<1>a. n \in Assemblers
  <2>1. <<>> \in Seq(BlobRecords)
    OBVIOUS
  <2>2. e \in Assemblers
    BY <1>1, <1>2, <2>1 DEF Assemblers, Ended
  <2> QED BY <1>4, <1>6, <2>2 DEF Assemblers
<1> HIDE DEF s
<1>7. ToSet(e.finished) = ToSet(s) /\ EachFrom(e.finished, s) /\ TwoFrom(e.finished, s)
  <2> DEFINE d == e.finished
  <2>1. d \in Seq(BlobRecords) /\ Same(d, s)
    BY <1>6
  <2> HIDE DEF d
  <2>2. ToSet(d) = ToSet(s) /\ EachFrom(d, s) /\ TwoFrom(d, s)
    BY <1>6, <2>1, SameElements, Zenon
  <2> QED BY <2>2 DEF d
<1>8. Ended(s)
  <2>1. \A i \in 1..Len(s) : Sound(s[i]) /\ s[i].nextBottom.row = NoRow
    BY <1>1, <1>7 DEF Ended, EachFrom
  <2>2. ASSUME NEW i \in 1..Len(s), NEW j \in 1..Len(s), i # j PROVE Apart(s[i], s[j])
    <3>1. PICK k \in 1..Len(e.finished), l \in 1..Len(e.finished) :
                 k # l /\ s[i] = e.finished[k] /\ s[j] = e.finished[l]
      BY <1>7, <2>2 DEF TwoFrom
    <3>2. Apart(e.finished[k], e.finished[l])
      BY <1>1, <3>1 DEF Ended
    <3> QED BY <3>1, <3>2
  <2> QED BY <1>6, <2>1, <2>2 DEF Ended
<1>9. Len(s) = Len(all)
  BY <1>1, <1>6 DEF Same
<1>10. SegmentLists(s) = SegmentLists(all)
  BY <1>1, <1>7 DEF SegmentLists
<1> QED BY <1>5, <1>6, <1>a, <1>8, <1>9, <1>10 DEF n, e, all
=============================================================================
