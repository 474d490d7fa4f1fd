------------------------------- MODULE MCBlobs -------------------------------
(* Blobs with two signatures of colour codes and an ordinary one, whose     *)
(* blobs are taken from a few boxes: a row of six one apart, one below, a    *)
(* distant pair, a box around half of the row, one of a single row.         *)
EXTENDS Blobs

B(left, right, top, bottom) ==
  [left |-> left, right |-> right, top |-> top, bottom |-> bottom,
   area |-> (right - left) * (bottom - top)]

Row(n) == B(3 * n, 3 * n + 2, n % 2, 2 + (n % 2))
Wide == B(3, 8, 0, 2)
Below == B(0, 2, 3, 6)
Far == B(30, 32, 0, 2)
Farther == B(33, 35, 0, 2)
Around == B(0, 9, 0, 4)
Flat == B(3, 9, 4, 5)
Large == B(6, 14, 5, 12)

ByArea(boxes) == SetToSortSeq(boxes, LAMBDA b, c : b.area > c.area \/ (b.area = c.area /\ b.left < c.left))

\* The boxes of each signature, and the parameters: constants of their own, which TLC
\* evaluates once, before its workers share them.
Boxes1 ==
  {{}, {Row(0)}, {Row(2), Far}, {Row(0), Around}, {Row(0), Row(2), Far},
   {Wide, Flat}, {Row(0), Row(2), Row(4)}, {Below, Large}}
Boxes2 ==
  {{}, {Row(1)}, {Wide, Farther}, {Below, Farther}, {Row(0), Row(2)},
   {Row(1), Row(3), Row(5)}, {Row(3), Below}}
Boxes3 ==
  {{}, {Around}, {Row(0), Wide, Row(2)}, {Below, Row(2), Flat}, {Far, Farther, Row(1)},
   {Large, Row(4), Row(0)}, {Wide, Row(3), Row(4)}}

MCFrames == {[g \in 1..3 |-> ByArea(f[g])] : f \in Boxes1 \X Boxes2 \X Boxes3}

P(maxBlobs, perModel, minArea, mode) ==
  [m_maxBlobs |-> maxBlobs, m_maxBlobsPerModel |-> perModel, m_minArea |-> minArea, m_ccMode |-> mode]

Enabled == P(6, 2, 4, "ENABLED")
CodesOnly == P(100, 3, 0, "CC_ONLY")
Mixed == P(100, 3, 0, "MIXED")
Disabled == P(3, 3, 0, "DISABLED")

MCParams == {Enabled, CodesOnly, Mixed, Disabled}
=============================================================================
