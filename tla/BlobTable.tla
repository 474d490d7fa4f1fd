------------------------------ MODULE BlobTable ------------------------------
(***************************************************************************)
(* What blobify does to the table of blobs: combine2, combine, the colour  *)
(* codes of processCC, compress.  A blob is its box, its signature (0: the *)
(* blob is invalid) and its clump: m_model holds the signature in its low  *)
(* three bits and the clump above them.                                    *)
(***************************************************************************)
EXTENDS Loops, SequencesExt

CONSTANTS
  m_mergeDist, m_maxCodedDist,
  MAX_BLOBS,              \* blobs the table has room for
  MAX_COLOR_CODE_MODELS   \* signatures of a colour code at most

ASSUME TableAssumption ==
  /\ m_mergeDist \in Nat /\ m_maxCodedDist \in Nat
  /\ MAX_BLOBS \in Nat \ {0} /\ MAX_COLOR_CODE_MODELS \in Nat \ {0, 1}

CL_NUM_SIGNATURES == 7
TOL == 400

Invalid(b) == [b EXCEPT !.sig = 0, !.clump = 0]
Valid(b) == b.sig # 0
Marked(b) == b.clump # 0

Area(b) == (b.right - b.left) * (b.bottom - b.top)
Encloses(a, b) == a.left <= b.left /\ a.right >= b.right /\ a.top <= b.top /\ a.bottom >= b.bottom

\* The passes compare each blob i with those behind it: for (i...) for (j = i+1...).  The
\* turn of blob i holds its index, the blob as it was when its turn came, and the
\* signatures that count as colour codes, for the passes that ask.
TurnOf(blobs, i, codeSigs) == [i |-> i, blob |-> blobs[i], codeSigs |-> codeSigs]
Turn(Step(_, _, _), blobs, i, codeSigs) ==
  Loop(Step, TurnOf(blobs, i, codeSigs), blobs, i, Len(blobs))

-----------------------------------------------------------------------------
(* The blobs of one signature are copied from what its assembler finished. *)

\* A blob that is large enough and of more than one row, as far as there is room.
CopyBlob(c, to, k) ==
  LET b == c.from[k]
  IN IF Len(to) < c.room /\ b.area >= c.minArea /\ b.bottom - b.top > 1
       THEN Append(to, [sig |-> c.sig, clump |-> 0, left |-> b.left, right |-> b.right,
                        top |-> b.top, bottom |-> b.bottom])
       ELSE to

-----------------------------------------------------------------------------
(* Blobs of one signature that nearly touch become one.                    *)

Within(x, lo, hi) == lo <= x /\ x <= hi
RowsMeet(a, b) == Within(b.top, a.top, a.bottom) \/ Within(b.bottom, a.top, a.bottom)
ColsMeet(a, b) == Within(b.left, a.left, a.right) \/ Within(b.right, a.left, a.right)

\* On which side b extends a: the first of the four that does.
Side(a, b) ==
  IF b.left <= a.left /\ a.left - b.right <= m_mergeDist /\ RowsMeet(a, b) THEN "left"
  ELSE IF b.right >= a.right /\ b.left - a.right <= m_mergeDist /\ RowsMeet(a, b) THEN "right"
  ELSE IF b.top <= a.top /\ a.top - b.bottom <= m_mergeDist /\ ColsMeet(a, b) THEN "top"
  ELSE IF b.bottom >= a.bottom /\ b.top - a.bottom <= m_mergeDist /\ ColsMeet(a, b) THEN "bottom"
  ELSE "none"

\* The blob whose turn it is, with its box compared as it was, takes one side of blob j.
JoinTouching(turn, bs, j) ==
  LET side == Side(turn.blob, bs[j])
  IN IF Valid(bs[j]) /\ side # "none"
       THEN [bs EXCEPT ![turn.i][side] = bs[j][side], ![j] = Invalid(@)]
       ELSE bs

JoinTurn(codeSigs, bs, i) == IF Valid(bs[i]) THEN Turn(JoinTouching, bs, i, codeSigs) ELSE bs
combine2(blobs) == Loop(JoinTurn, {}, blobs, 0, Len(blobs))

\* Mutant: one pass is held to be enough.
Combine2UntilDone_OnePass(blobs) == combine2(blobs)

\* blobify repeats it until nothing is joined: no more often than there are blobs.
Combine2UntilDone(blobs) ==
  LET pass[k \in 0..Len(blobs) + 1] == IF k = 0 THEN blobs ELSE combine2(pass[k - 1])
      done == CHOOSE k \in 0..Len(blobs) : pass[k + 1] = pass[k]
  IN pass[done]

-----------------------------------------------------------------------------
(* Blobs inside others go, whatever their signatures.                      *)

\* Mutant: of two enclosed blobs the one found first is kept.
DropEnclosed_OneWay(turn, bs, j) ==
  IF Valid(bs[j]) /\ Encloses(turn.blob, bs[j]) THEN [bs EXCEPT ![j] = Invalid(@)] ELSE bs

\* The blob whose turn it is goes on removing others after it was removed itself.
DropEnclosed(turn, bs, j) ==
  IF ~Valid(bs[j]) THEN bs
  ELSE IF Encloses(turn.blob, bs[j]) THEN [bs EXCEPT ![j] = Invalid(@)]
  ELSE IF Encloses(bs[j], turn.blob) THEN [bs EXCEPT ![turn.i] = Invalid(@)]
  ELSE bs

DropTurn(codeSigs, bs, i) == IF Valid(bs[i]) THEN Turn(DropEnclosed, bs, i, codeSigs) ELSE bs
combine(blobs) == Loop(DropTurn, {}, blobs, 0, Len(blobs))

\* Only what is valid stays, in its order.
KeepValid(blobs, kept, k) == IF Valid(blobs[k]) THEN Append(kept, blobs[k]) ELSE kept
compress(blobs) == Loop(KeepValid, blobs, <<>>, 0, Len(blobs))

-----------------------------------------------------------------------------
(* Clumps of colour code blobs that are close to each other.               *)

\* The gap between two boxes side by side or one above the other; else a large number.
distance(a, b) ==
  LET rows == \/ Within(b.top, a.top, a.bottom)
              \/ a.top <= b.bottom /\ (b.bottom <= a.bottom \/ b.top <= a.top)
      cols == \/ Within(b.left, a.left, a.right)
              \/ a.left <= b.right /\ (b.right <= a.right \/ b.left <= a.left)
  IN IF a.left >= b.left /\ rows THEN a.left - b.right
     ELSE IF b.left >= a.left /\ rows THEN b.left - a.right
     ELSE IF a.top >= b.top /\ cols THEN a.top - b.bottom
     ELSE IF b.top >= a.top /\ cols THEN b.top - a.bottom
     ELSE 32767

\* codeSigs: the signatures that count as colour codes, CC_SIGNATURE.
closeby(a, b, codeSigs) ==
  /\ Valid(a) /\ Valid(b)
  /\ <<a.sig, a.clump>> # <<b.sig, b.clump>>
  /\ a.sig \in codeSigs /\ b.sig \in codeSigs
  /\ distance(a, b) <= m_maxCodedDist

\* The number of clumps made so far.
Clumps(blobs) == Max({0} \cup {blobs[k].clump : k \in DOMAIN blobs})

\* Of two close blobs the unmarked one joins the other's clump, two unmarked ones are a
\* new clump, two marked ones are left for the next pass.
MarkPair(turn, bs, j) ==
  LET i == turn.i
      clump == IF Marked(bs[i]) THEN bs[i].clump
               ELSE IF Marked(bs[j]) THEN bs[j].clump
               ELSE Clumps(bs) + 1
  IN IF closeby(bs[i], bs[j], turn.codeSigs) /\ ~(Marked(bs[i]) /\ Marked(bs[j]))
       THEN [bs EXCEPT ![i].clump = clump, ![j].clump = clump]
       ELSE bs

\* Pass 1.
MarkTurn(codeSigs, bs, i) == Turn(MarkPair, bs, i, codeSigs)
MarkClose(blobs, codeSigs) == Loop(MarkTurn, codeSigs, blobs, 0, Len(blobs))

mergeClumps(bs, clump0, clump1) ==
  [k \in DOMAIN bs |-> IF bs[k].clump = clump1 THEN [bs[k] EXCEPT !.clump = clump0] ELSE bs[k]]

MergePair(turn, bs, j) ==
  IF /\ Marked(bs[j]) /\ bs[j].clump # turn.blob.clump
     /\ closeby(bs[turn.i], bs[j], turn.codeSigs)
    THEN mergeClumps(bs, turn.blob.clump, bs[j].clump)
    ELSE bs

\* Mutant: only blobs of the same clump number are looked at.
MergeClose_None(blobs, codeSigs) == blobs

\* Pass 2: clumps that are close to each other are one.
MergeTurn(codeSigs, bs, i) == IF Marked(bs[i]) THEN Turn(MergePair, bs, i, codeSigs) ELSE bs
MergeClose(blobs, codeSigs) == Loop(MergeTurn, codeSigs, blobs, 0, Len(blobs))

-----------------------------------------------------------------------------
(* Pass 3: a colour code for each clump.  Members are indices of blobs.    *)

\* As many as the code's array holds.
AddMember(c, members, k) ==
  IF c.blobs[k].clump = c.clump /\ Len(members) < 2 * MAX_COLOR_CODE_MODELS
    THEN Append(members, k)
    ELSE members
MembersOf(blobs, clump) ==
  Loop(AddMember, [blobs |-> blobs, clump |-> clump], <<>>, 0, Len(blobs))

\* An area within a factor of five.
Similar(area0, area1) ==
  (area0 * 100) \div (100 + TOL) <= area1 /\ area1 <= area0 + (area0 * TOL) \div 100

KeepSimilar(c, kept, k) ==
  IF Similar(Area(c.blobs[c.members[k]]), c.area) THEN Append(kept, c.members[k]) ELSE kept

\* Members of a size like that of the first that is like most others.
cleanup(blobs, members) ==
  LET area(k) == Area(blobs[members[k]])
      numEqual(k) == Cardinality({l \in DOMAIN members : l # k /\ Similar(area(k), area(l))})
      maxEqual == Max({0} \cup {numEqual(k) : k \in DOMAIN members})
      chosen == Min({k \in DOMAIN members : numEqual(k) = maxEqual})
  IN IF maxEqual = 0
       THEN <<>>
       ELSE Loop(KeepSimilar, [blobs |-> blobs, members |-> members, area |-> area(chosen)],
                 <<>>, 0, Len(members))

Middle(b, horiz) == IF horiz THEN (b.right + b.left) \div 2 ELSE (b.bottom + b.top) \div 2
Abs(x) == IF x < 0 THEN -x ELSE x

\* By the distance of their middles from the first's: neighbours in the wrong order
\* change places, in as many passes as there are members.
SwapNeighbours(c, members, k) ==
  LET dist(m) == Abs(Middle(c.blobs[c.first], c.horiz) - Middle(c.blobs[m], c.horiz))
  IN IF dist(members[k - 1]) > dist(members[k])
       THEN [members EXCEPT ![k - 1] = members[k], ![k] = members[k - 1]]
       ELSE members
SortPass(c, members, pass) == Loop(SwapNeighbours, c, members, 1, Len(members))
sort(blobs, members, first, horiz) ==
  Loop(SortPass, [blobs |-> blobs, first |-> first, horiz |-> horiz], members, 0, Len(members))

\* Of neighbours with one signature the first.
KeepChange(c, kept, k) ==
  IF k = 1 \/ c.blobs[c.members[k]].sig # c.blobs[c.members[k - 1]].sig
    THEN Append(kept, c.members[k])
    ELSE kept
cleanup2(blobs, members) ==
  Loop(KeepChange, [blobs |-> blobs, members |-> members], <<>>, 0, Len(members))

Front_n(s, n) == SubSeq(s, 1, IF Len(s) < n THEN Len(s) ELSE n)

\* The signatures read as digits to base 8.
NextDigit(sigs, code, k) == 8 * code + sigs[k]
Code(sigs) == Loop(NextDigit, sigs, 0, 0, Len(sigs))

TimesEight(none, power, k) == 8 * power
EightTo(n) == Loop(TimesEight, {}, 1, 0, n)

\* The digits of a code: what is left of it after the last n of them.
DropDigit(none, code, k) == code \div 8
Without(code, n) == Loop(DropDigit, {}, code, 0, n)
Digits(code) ==
  LET n == CHOOSE k \in 1..MAX_COLOR_CODE_MODELS :
             Without(code, k) = 0 /\ \A l \in 1..k - 1 : Without(code, l) # 0
  IN [k \in 1..n |-> Without(code, n - k) % 8]

\* The member that lies farthest on a side: of equal ones the first.
Beyond(side, b, c) == IF side \in {"left", "top"} THEN b[side] < c[side] ELSE b[side] > c[side]
FartherOut(c, m, k) ==
  IF Beyond(c.side, c.blobs[c.members[k]], c.blobs[m]) THEN c.members[k] ELSE m
Extreme(blobs, members, side) ==
  Loop(FartherOut, [blobs |-> blobs, members |-> members, side |-> side],
       members[1], 1, Len(members))

\* Average of a member's extent along one axis.
AddExtent(c, sum, k) == sum + c.blobs[c.members[k]][c.to] - c.blobs[c.members[k]][c.from]
Average(blobs, members, from, to) ==
  Loop(AddExtent, [blobs |-> blobs, members |-> members, from |-> from, to |-> to],
       0, 0, Len(members)) \div Len(members)

\* The members of a clump along the direction in which it is longer.
InLine(blobs, members) ==
  LET left == Extreme(blobs, members, "left")
      right == Extreme(blobs, members, "right")
      top == Extreme(blobs, members, "top")
      bottom == Extreme(blobs, members, "bottom")
      width == ((blobs[right].right - blobs[left].left) * 100)
                 \div Average(blobs, members, "left", "right")
      height == ((blobs[bottom].bottom - blobs[top].top) * 100)
                 \div Average(blobs, members, "top", "bottom")
  IN [order |-> IF width > height THEN sort(blobs, members, left, TRUE)
                                  ELSE sort(blobs, members, top, FALSE),
      left |-> blobs[left].left, right |-> blobs[right].right,
      top |-> blobs[top].top, bottom |-> blobs[bottom].bottom]

\* Mutant: the code is always read from the first member.
SmallerCode_Forward(sigs) == Code(sigs)

\* Of a code's two readings the smaller.
SmallerCode(sigs) == LET forward == Code(sigs) backward == Code(Reverse(sigs))
                     IN IF forward < backward THEN forward ELSE backward

\* Mutant: the table may be filled to its last word.
HasRoom_Overfull(numBlobs, numCodes) == numCodes <= MAX_BLOBS - numBlobs

\* Codes follow the blobs in the same memory, at six words to a blob's five.
HasRoom(numBlobs, numCodes) == 6 * numCodes < 5 * (MAX_BLOBS - numBlobs) - 6

\* The blobs of a line whose signatures are its code.
CodedBlobs(blobs, line) == Front_n(cleanup2(blobs, line.order), MAX_COLOR_CODE_MODELS)
SigsOf(blobs, members) == [k \in DOMAIN members |-> blobs[members[k]].sig]

AddCode(st, line, used) ==
  [blobs |-> [k \in DOMAIN st.blobs |-> IF k \in ToSet(used) THEN Invalid(st.blobs[k])
                                                             ELSE st.blobs[k]],
   codes |-> Append(st.codes, [model |-> SmallerCode(SigsOf(st.blobs, used)),
                               left |-> line.left, right |-> line.right,
                               top |-> line.top, bottom |-> line.bottom])]

\* One clump: its blobs make a code, or stay to be invalidated.
CodeOfClump(none, st, clump) ==
  LET members == cleanup(st.blobs, MembersOf(st.blobs, clump))
      line == InLine(st.blobs, members)
      used == CodedBlobs(st.blobs, line)
  IN IF HasRoom(Len(st.blobs), Len(st.codes)) /\ Len(members) >= 2 /\ Len(used) >= 2
       THEN AddCode(st, line, used)
       ELSE st

\* The codes of all clumps, and the table with the blobs they used and all that are
\* left of colour codes invalid; experimental MIXED keeps those of no clump.
MakeCodes(blobs, count, codeSigs, mixed) ==
  LET st == Loop(CodeOfClump, {}, [blobs |-> blobs, codes |-> <<>>], 0, count)
      dropped(b) == Marked(b) \/ (~mixed /\ b.sig \in codeSigs)
  IN [codes |-> st.codes,
      blobs |-> [k \in DOMAIN blobs |-> IF dropped(st.blobs[k]) THEN Invalid(st.blobs[k])
                                                                ELSE st.blobs[k]]]
=============================================================================
