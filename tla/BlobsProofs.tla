----------------------------- MODULE BlobsProofs -----------------------------
(***************************************************************************)
(* What is read from a frame is what blobify built, and what it builds has *)
(* its promised form, for any frames, parameters and table size.  The      *)
(* passes of blobify come first: what they do to any table of blobs.       *)
(***************************************************************************)
EXTENDS Blobs, SequenceTheorems, FiniteSetTheorems, TLAPS

Joining == INSTANCE Recursion WITH Step <- JoinTouching
JoinTurns == INSTANCE Recursion WITH Step <- JoinTurn
Passes == INSTANCE Recursion WITH Step <- LAMBDA none, blobs, k : combine2(blobs)
Dropping == INSTANCE Recursion WITH Step <- DropEnclosed
DropTurns == INSTANCE Recursion WITH Step <- DropTurn
Marking == INSTANCE Recursion WITH Step <- MarkPair
MarkTurns == INSTANCE Recursion WITH Step <- MarkTurn
Merging == INSTANCE Recursion WITH Step <- MergePair
MergeTurns == INSTANCE Recursion WITH Step <- MergeTurn
Numbers == INSTANCE Recursion WITH Step <- NextDigit
Powers == INSTANCE Recursion WITH Step <- TimesEight
Shifts == INSTANCE Recursion WITH Step <- DropDigit
Gathering == INSTANCE Recursion WITH Step <- AddMember
Sizing == INSTANCE Recursion WITH Step <- KeepSimilar
Swapping == INSTANCE Recursion WITH Step <- SwapNeighbours
Sorting == INSTANCE Recursion WITH Step <- SortPass
Thinning == INSTANCE Recursion WITH Step <- KeepChange
Reaching == INSTANCE Recursion WITH Step <- FartherOut
Coding == INSTANCE Recursion WITH Step <- CodeOfClump
Keeping == INSTANCE Recursion WITH Step <- KeepValid
Copying == INSTANCE Recursion WITH Step <- CopyBlob
Choosing == INSTANCE Recursion WITH Step <- Bigger

Sides == {"left", "right", "top", "bottom"}

\* A blob with its signature in S.
Entry(S) == [sig : S, clump : Nat, left : Nat, right : Nat, top : Nat, bottom : Nat]

LEMMA Upto ==
  ASSUME NEW n \in Nat
  PROVE  IsFiniteSet(1..n) /\ Cardinality(1..n) = n
<1>1. /\ IsFiniteSet(1..n)
      /\ Cardinality(1..n) = IF 1 > n THEN 0 ELSE n - 1 + 1
  BY FS_Interval
<1> QED BY <1>1

LEMMA FunctionIsSequence ==
  ASSUME NEW T, NEW n \in Nat, NEW f, f = [k \in 1..n |-> f[k]], \A k \in 1..n : f[k] \in T
  PROVE  f \in Seq(T) /\ Len(f) = n
<1>1. f \in [1..n -> T]
  OBVIOUS
<1>2. f \in Seq(T)
  BY <1>1, SeqDef
<1>3. DOMAIN f = 1..n
  OBVIOUS
<1> QED BY <1>2, <1>3, LenProperties

LEMMA SeqOfMore ==
  ASSUME NEW A, NEW B, A \subseteq B, NEW s \in Seq(A)
  PROVE  s \in Seq(B)
<1>1. s = [k \in 1..Len(s) |-> s[k]] /\ Len(s) \in Nat /\ \A k \in 1..Len(s) : s[k] \in B
  OBVIOUS
<1> QED BY <1>1, FunctionIsSequence

-----------------------------------------------------------------------------
(* Blobs.                                                                  *)

LEMMA InvalidBlob ==
  ASSUME NEW S, 0 \in S, NEW b \in Entry(S)
  PROVE  /\ Invalid(b) \in Entry(S) /\ ~Valid(Invalid(b)) /\ ~Marked(Invalid(b))
         /\ Invalid(b).sig = 0 /\ Invalid(b).clump = 0
         /\ \A side \in Sides : Invalid(b)[side] = b[side]
BY DEF Entry, Invalid, Valid, Marked, Sides

LEMMA SideChanged ==
  ASSUME NEW S, NEW b \in Entry(S), NEW side \in Sides, NEW v \in Nat
  PROVE  /\ [b EXCEPT ![side] = v] \in Entry(S)
         /\ [b EXCEPT ![side] = v].sig = b.sig /\ [b EXCEPT ![side] = v].clump = b.clump
BY DEF Entry, Sides

LEMMA SideType ==
  ASSUME NEW S, NEW b \in Entry(S)
  PROVE  \A side \in Sides : b[side] \in Nat
BY DEF Entry, Sides

LEMMA SideValues ==
  ASSUME NEW a, NEW b
  PROVE  Side(a, b) \in Sides \cup {"none"}
BY DEF Side, Sides

\* A sequence in which one element is replaced.
LEMMA OneChanged ==
  ASSUME NEW T, NEW s \in Seq(T), NEW k \in 1..Len(s), NEW e \in T
  PROVE  /\ [s EXCEPT ![k] = e] \in Seq(T) /\ Len([s EXCEPT ![k] = e]) = Len(s)
         /\ [s EXCEPT ![k] = e][k] = e
         /\ \A l \in 1..Len(s) : l # k => [s EXCEPT ![k] = e][l] = s[l]
BY ExceptSeq

-----------------------------------------------------------------------------
(* Tables that a pass makes of tables.                                     *)

\* No blob is new, none has another signature or clump.
Fewer(S, from, to) ==
  /\ to \in Seq(Entry(S)) /\ Len(to) = Len(from)
  /\ \A k \in 1..Len(from) :
       \/ to[k].sig = from[k].sig /\ to[k].clump = from[k].clump
       \/ to[k].sig = 0 /\ to[k].clump = 0

ValidSet(s) == {k \in 1..Len(s) : Valid(s[k])}

LEMMA FewerValid ==
  ASSUME NEW S, NEW from \in Seq(Entry(S)), NEW to, Fewer(S, from, to)
  PROVE  ValidSet(to) \subseteq ValidSet(from)
BY DEF Fewer, ValidSet, Valid

LEMMA FewerOfFewer ==
  ASSUME NEW S, NEW a \in Seq(Entry(S)), NEW b, NEW c, Fewer(S, a, b), Fewer(S, b, c)
  PROVE  Fewer(S, a, c)
BY DEF Fewer

-----------------------------------------------------------------------------
(* combine2.                                                               *)

\* One pair: the later blob is not touched, or it is gone.
LEMMA JoinPair ==
  ASSUME NEW S, 0 \in S, NEW s \in Seq(Entry(S)), NEW turn, turn.i \in 1..Len(s),
         NEW j \in 1..Len(s), j # turn.i, NEW r, r = JoinTouching(turn, s, j)
  PROVE  /\ Fewer(S, s, r)
         /\ \/ r = s /\ (Valid(s[j]) => Side(turn.blob, s[j]) = "none")
            \/ j \in ValidSet(s) \ ValidSet(r)
<1> DEFINE i == turn.i  side == Side(turn.blob, s[j])
<1>1. CASE Valid(s[j]) /\ side # "none"
  <2>1. side \in Sides
    BY <1>1, SideValues
  <2>2. s[i] \in Entry(S) /\ s[j] \in Entry(S)
    OBVIOUS
  <2>3. s[j][side] \in Nat
    BY <2>1, <2>2, SideType
  <2> DEFINE grown == [s[i] EXCEPT ![side] = s[j][side]]
             t == [s EXCEPT ![i] = grown]
             u == [t EXCEPT ![j] = Invalid(s[j])]
  <2>4. grown \in Entry(S) /\ grown.sig = s[i].sig /\ grown.clump = s[i].clump
    BY <2>1, <2>2, <2>3, SideChanged
  <2>5. /\ Invalid(s[j]) \in Entry(S) /\ Invalid(s[j]).sig = 0 /\ Invalid(s[j]).clump = 0
        /\ ~Valid(Invalid(s[j]))
    BY <2>2, InvalidBlob, Zenon
  <2>6. r = u
    <3>1. r = [s EXCEPT ![i][side] = s[j][side], ![j] = Invalid(@)]
      BY <1>1, Zenon DEF JoinTouching
    <3> QED BY <3>1
  <2> HIDE DEF grown, side
  <2>7. /\ t \in Seq(Entry(S)) /\ Len(t) = Len(s)
        /\ t[i] = grown /\ \A l \in 1..Len(s) : l # i => t[l] = s[l]
    BY <2>4, OneChanged
  <2> HIDE DEF t
  <2>8. /\ u \in Seq(Entry(S)) /\ Len(u) = Len(s)
        /\ u[j] = Invalid(s[j]) /\ \A l \in 1..Len(s) : l # j => u[l] = t[l]
    BY <2>5, <2>7, OneChanged
  <2> HIDE DEF u
  <2>9. Fewer(S, s, u)
    BY <2>4, <2>5, <2>7, <2>8 DEF Fewer
  <2>10. j \in ValidSet(s) \ ValidSet(u)
    BY <1>1, <2>5, <2>8 DEF ValidSet
  <2> QED BY <2>6, <2>9, <2>10
<1>2. CASE ~(Valid(s[j]) /\ side # "none")
  <2>1. r = s
    BY <1>2, Zenon DEF JoinTouching
  <2>2. Fewer(S, s, s)
    BY DEF Fewer
  <2> QED BY <1>2, <2>1, <2>2
<1> QED BY <1>1, <1>2

\* What a turn, a pass or all passes did: nothing, for there was nothing to do, or there
\* is a valid blob less.
Gone(from, to) == \E j \in ValidSet(from) : j \notin ValidSet(to)

LEMMA GoneForGood ==
  ASSUME NEW S, NEW a \in Seq(Entry(S)), NEW b, NEW c, Fewer(S, a, b), Fewer(S, b, c),
         Gone(a, b) \/ Gone(b, c)
  PROVE  Gone(a, c)
<1>1. b \in Seq(Entry(S))
  BY DEF Fewer
<1>2. ValidSet(b) \subseteq ValidSet(a) /\ ValidSet(c) \subseteq ValidSet(b)
  BY <1>1, FewerValid, Zenon
<1> QED BY <1>2 DEF Gone

\* One turn.
LEMMA JoinTurnEffect ==
  ASSUME NEW S, 0 \in S, NEW s \in Seq(Entry(S)), NEW i \in 1..Len(s), NEW codeSigs
  PROVE  LET r == JoinTurn(codeSigs, s, i)
         IN /\ Fewer(S, s, r)
            /\ \/ r = s /\ \A j \in i + 1..Len(s) :
                    Valid(s[i]) /\ Valid(s[j]) => Side(s[i], s[j]) = "none"
               \/ Gone(s, r)
<1> DEFINE turn == TurnOf(s, i, codeSigs)
           Still(k) == \A j \in i + 1..k : Valid(s[j]) => Side(s[i], s[j]) = "none"
           I == {p \in (i..Len(s)) \X Seq(Entry(S)) :
                   Fewer(S, s, p[2]) /\ ((p[2] = s /\ Still(p[1])) \/ Gone(s, p[2]))}
           r == Joining!Iterate(turn, s, i, Len(s))
<1>1. turn.i = i /\ turn.blob = s[i]
  BY DEF TurnOf
<1>2. Fewer(S, s, s)
  BY DEF Fewer
<1> HIDE DEF turn
<1>3. <<Len(s), r>> \in I
  <2>1. <<i, s>> \in I
    BY <1>2
  <2>2. ASSUME NEW k \in i + 1..Len(s), NEW t, <<k - 1, t>> \in I
        PROVE  <<k, JoinTouching(turn, t, k)>> \in I
    <3> DEFINE u == JoinTouching(turn, t, k)
    <3>1. /\ t \in Seq(Entry(S)) /\ Fewer(S, s, t)
          /\ (t = s /\ Still(k - 1)) \/ Gone(s, t)
      BY <2>2
    <3>2. Len(t) = Len(s)
      BY <3>1 DEF Fewer
    <3>3. /\ Fewer(S, t, u)
          /\ \/ u = t /\ (Valid(t[k]) => Side(s[i], t[k]) = "none")
             \/ k \in ValidSet(t) \ ValidSet(u)
      <4>1. turn.i \in 1..Len(t) /\ k \in 1..Len(t) /\ k # turn.i
        BY <1>1, <3>2
      <4>2. /\ Fewer(S, t, u)
            /\ \/ u = t /\ (Valid(t[k]) => Side(turn.blob, t[k]) = "none")
               \/ k \in ValidSet(t) \ ValidSet(u)
        BY <3>1, <4>1, JoinPair
      <4> QED BY <1>1, <4>2
    <3> HIDE DEF u
    <3>4. Fewer(S, s, u) /\ u \in Seq(Entry(S))
      <4>1. Fewer(S, s, u)
        BY <3>1, <3>3, FewerOfFewer
      <4> QED BY <4>1 DEF Fewer
    <3>5. (u = s /\ Still(k)) \/ Gone(s, u)
      <4>1. CASE Gone(s, t)
        BY <3>1, <3>3, <4>1, GoneForGood
      <4>2. CASE t = s /\ Still(k - 1) /\ u = t /\ (Valid(t[k]) => Side(s[i], t[k]) = "none")
        BY <4>2
      <4>3. CASE t = s /\ k \in ValidSet(t) \ ValidSet(u)
        BY <4>3 DEF Gone
      <4> QED BY <3>1, <3>3, <4>1, <4>2, <4>3
    <3>6. k \in i..Len(s)
      OBVIOUS
    <3> HIDE DEF Still
    <3>7. <<k, u>> \in I
      BY <3>4, <3>5, <3>6
    <3> QED BY <3>7 DEF u
  <2> HIDE DEF I
  <2>3. i \in Int /\ Len(s) \in Int /\ i <= Len(s)
    OBVIOUS
  <2> QED BY <2>1, <2>2, <2>3, Joining!LoopRule
<1>4. Loop(JoinTouching, turn, s, i, Len(s)) = r
  BY Zenon DEF Loop, Joining!Iterate
<1>5. JoinTurn(codeSigs, s, i) = IF Valid(s[i]) THEN r ELSE s
  BY <1>4, Zenon DEF JoinTurn, Turn, turn
<1> HIDE DEF r
<1>6. Fewer(S, s, r) /\ ((r = s /\ Still(Len(s))) \/ Gone(s, r))
  BY <1>3
<1> QED BY <1>2, <1>5, <1>6

NoneTouch(s) == \A i, j \in 1..Len(s) :
  i < j /\ Valid(s[i]) /\ Valid(s[j]) => Side(s[i], s[j]) = "none"

\* One pass.
LEMMA PassEffect ==
  ASSUME NEW S, 0 \in S, NEW s \in Seq(Entry(S))
  PROVE  Fewer(S, s, combine2(s)) /\ ((combine2(s) = s /\ NoneTouch(s)) \/ Gone(s, combine2(s)))
<1> DEFINE Still(i) == \A j \in i + 1..Len(s) :
                         Valid(s[i]) /\ Valid(s[j]) => Side(s[i], s[j]) = "none"
           Done(n) == \A i \in 1..n : Still(i)
           I == {p \in (0..Len(s)) \X Seq(Entry(S)) :
                   Fewer(S, s, p[2]) /\ ((p[2] = s /\ Done(p[1])) \/ Gone(s, p[2]))}
           r == JoinTurns!Iterate({}, s, 0, Len(s))
<1>1. Fewer(S, s, s)
  BY DEF Fewer
<1>2. <<Len(s), r>> \in I
  <2>1. <<0, s>> \in I
    BY <1>1
  <2>2. ASSUME NEW k \in 0 + 1..Len(s), NEW t, <<k - 1, t>> \in I
        PROVE  <<k, JoinTurn({}, t, k)>> \in I
    <3> DEFINE u == JoinTurn({}, t, k)
    <3>1. /\ t \in Seq(Entry(S)) /\ Fewer(S, s, t)
          /\ (t = s /\ Done(k - 1)) \/ Gone(s, t)
      BY <2>2
    <3>2. k \in 1..Len(t)
      BY <3>1 DEF Fewer
    <3> HIDE DEF Done
    <3>3. /\ Fewer(S, t, u)
          /\ \/ u = t /\ \A j \in k + 1..Len(t) :
                  Valid(t[k]) /\ Valid(t[j]) => Side(t[k], t[j]) = "none"
             \/ Gone(t, u)
      BY <3>1, <3>2, JoinTurnEffect
    <3> HIDE DEF u
    <3>4. Fewer(S, s, u) /\ u \in Seq(Entry(S))
      <4>1. Fewer(S, s, u)
        BY <3>1, <3>3, FewerOfFewer
      <4> QED BY <4>1 DEF Fewer
    <3>5. (u = s /\ Done(k)) \/ Gone(s, u)
      <4>1. CASE Gone(s, t)
        BY <3>1, <3>3, <4>1, GoneForGood
      <4>2. CASE t = s /\ Done(k - 1) /\ u = t /\ Still(k)
        BY <4>2 DEF Done
      <4>3. CASE Gone(t, u)
        BY <3>1, <3>3, <4>3, GoneForGood
      <4> QED BY <3>1, <3>3, <4>1, <4>2, <4>3
    <3>6. <<k, u>> \in I
      BY <3>4, <3>5
    <3> QED BY <3>6 DEF u
  <2> HIDE DEF I
  <2>3. 0 \in Int /\ Len(s) \in Int /\ 0 <= Len(s)
    OBVIOUS
  <2> QED BY <2>1, <2>2, <2>3, JoinTurns!LoopRule
<1>3. combine2(s) = r
  BY Zenon DEF combine2, Loop, JoinTurns!Iterate
<1> HIDE DEF r
<1>4. Fewer(S, s, r) /\ ((r = s /\ Done(Len(s))) \/ Gone(s, r))
  BY <1>2
<1> QED BY <1>3, <1>4 DEF NoneTouch

\* All passes: they end, and then no valid blob extends to a later one.
LEMMA Combine2Ends ==
  ASSUME NEW S, 0 \in S, NEW s \in Seq(Entry(S))
  PROVE  Fewer(S, s, Combine2UntilDone(s)) /\ NoneTouch(Combine2UntilDone(s))
<1> DEFINE n == Len(s)
           pass == CHOOSE f : f = [k \in 0..n + 1 |-> IF k = 0 THEN s ELSE combine2(f[k - 1])]
           done == CHOOSE k \in 0..n : pass[k + 1] = pass[k]
<1>1. Combine2UntilDone(s) = pass[done]
  BY Zenon DEF Combine2UntilDone
<1>2. n \in Nat /\ 0 \in Int /\ n + 1 \in Int
  OBVIOUS
<1>3. pass = [k \in 0..n + 1 |-> IF k = 0 THEN s ELSE combine2(pass[k - 1])]
  <2>1. \E f : Passes!IsIteration(f, {}, s, 0, n + 1)
    BY <1>2, Passes!IterationExists
  <2>2. \E f : f = [k \in 0..n + 1 |-> IF k = 0 THEN s ELSE combine2(f[k - 1])]
    BY <2>1, Zenon DEF Passes!IsIteration
  <2> QED BY <2>2, Zenon
<1> HIDE DEF pass
<1>4. pass[0] = s /\ \A k \in 0..n : pass[k + 1] = combine2(pass[k])
  BY <1>2, <1>3
<1>5. \A k \in 0..n + 1 : pass[k] \in Seq(Entry(S)) /\ Fewer(S, s, pass[k])
  <2> DEFINE K == {k \in 0..n + 1 : pass[k] \in Seq(Entry(S)) /\ Fewer(S, s, pass[k])}
  <2>1. 0 \in K
    BY <1>4 DEF Fewer
  <2>2. ASSUME NEW k \in 0 + 1..n + 1, k - 1 \in K PROVE k \in K
    <3>1. pass[k - 1] \in Seq(Entry(S)) /\ Fewer(S, s, pass[k - 1])
      BY <2>2
    <3>2. pass[k] = combine2(pass[k - 1])
      <4>1. k - 1 \in 0..n /\ (k - 1) + 1 = k
        BY <1>2, <2>2
      <4> QED BY <1>4, <4>1
    <3>3. Fewer(S, pass[k - 1], pass[k])
      BY <3>1, <3>2, PassEffect
    <3>4. pass[k] \in Seq(Entry(S))
      BY <3>3 DEF Fewer
    <3>5. Fewer(S, s, pass[k])
      BY <3>1, <3>3, FewerOfFewer
    <3> QED BY <3>4, <3>5
  <2>3. \A k \in 0..n + 1 : k \in K
    <3> HIDE DEF K
    <3> QED BY <1>2, <2>1, <2>2, Passes!RangeInduction
  <2> QED BY <2>3
<1> DEFINE V(k) == Cardinality(ValidSet(pass[k]))
<1>6. \A k \in 0..n + 1 : V(k) \in Nat /\ V(k) <= n
  <2> SUFFICES ASSUME NEW k \in 0..n + 1 PROVE V(k) \in Nat /\ V(k) <= n
    OBVIOUS
  <2>1. ValidSet(pass[k]) \in SUBSET (1..n)
    BY <1>5 DEF ValidSet, Fewer
  <2>2. IsFiniteSet(1..n) /\ Cardinality(1..n) = n
    BY <1>2, Upto
  <2>3. /\ IsFiniteSet(ValidSet(pass[k]))
        /\ Cardinality(ValidSet(pass[k])) <= Cardinality(1..n)
    BY <2>1, <2>2, FS_Subset
  <2>4. Cardinality(ValidSet(pass[k])) \in Nat
    BY <2>3, FS_CardinalityType
  <2> QED BY <2>2, <2>3, <2>4
<1>7. ASSUME NEW k \in 0..n, pass[k + 1] # pass[k] PROVE V(k + 1) <= V(k) - 1
  <2> DEFINE A == ValidSet(pass[k])  B == ValidSet(pass[k + 1])
  <2>1. /\ pass[k] \in Seq(Entry(S)) /\ pass[k + 1] = combine2(pass[k])
    BY <1>4, <1>5
  <2>2. Fewer(S, pass[k], pass[k + 1]) /\ Gone(pass[k], pass[k + 1])
    BY <1>7, <2>1, PassEffect
  <2>3. B \in SUBSET A /\ A # B
    BY <2>1, <2>2, FewerValid DEF Gone
  <2>4. IsFiniteSet(A)
    <3>1. A \in SUBSET (1..n)
      BY <1>5 DEF ValidSet, Fewer
    <3>2. IsFiniteSet(1..n)
      BY <1>2, Upto
    <3> QED BY <3>1, <3>2, FS_Subset
  <2>5. Cardinality(B) <= Cardinality(A) /\ Cardinality(A) # Cardinality(B)
    BY <2>3, <2>4, FS_Subset
  <2>6. V(k) \in Nat /\ V(k + 1) \in Nat
    BY <1>6
  <2> QED BY <2>5, <2>6
<1>8. \E k \in 0..n : pass[k + 1] = pass[k]
  <2> SUFFICES ASSUME \A k \in 0..n : pass[k + 1] # pass[k] PROVE FALSE
    OBVIOUS
  <2> DEFINE K == {k \in 0..n + 1 : V(k) <= n - k}
  <2>1. \A k \in 0..n : V(k + 1) <= V(k) - 1
    BY <1>7
  <2> HIDE DEF V
  <2>2. 0 \in K
    BY <1>6
  <2>3. ASSUME NEW k \in 0 + 1..n + 1, k - 1 \in K PROVE k \in K
    <3>1. k - 1 \in 0..n /\ (k - 1) + 1 = k
      OBVIOUS
    <3>2. V((k - 1) + 1) <= V(k - 1) - 1
      BY <2>1, <3>1
    <3>3. V(k - 1) <= n - (k - 1) /\ V(k - 1) \in Nat /\ V(k) \in Nat
      BY <1>6, <2>3
    <3> QED BY <3>1, <3>2, <3>3
  <2>4. \A k \in 0..n + 1 : k \in K
    <3> HIDE DEF K
    <3> QED BY <1>2, <2>2, <2>3, Passes!RangeInduction
  <2>5. V(n + 1) <= n - (n + 1) /\ V(n + 1) \in Nat
    BY <1>6, <2>4
  <2> QED BY <2>5
<1>9. done \in 0..n /\ pass[done + 1] = pass[done]
  BY <1>8
<1> HIDE DEF done
<1>10. pass[done] \in Seq(Entry(S)) /\ Fewer(S, s, pass[done]) /\ combine2(pass[done]) = pass[done]
  BY <1>4, <1>5, <1>9
<1>11. NoneTouch(pass[done])
  BY <1>10, PassEffect DEF Gone
<1> QED BY <1>1, <1>10, <1>11

-----------------------------------------------------------------------------
(* combine.                                                                *)

\* What is left is as it was, the rest is invalid.
Dropped(S, from, to) ==
  /\ to \in Seq(Entry(S)) /\ Len(to) = Len(from)
  /\ \A k \in 1..Len(from) : to[k] = from[k] \/ to[k] = Invalid(from[k])

\* Which blob of s is inside which.
Inside(s) == {p \in (1..Len(s)) \X (1..Len(s)) : Encloses(s[p[1]], s[p[2]])}

\* Of the blobs V0 those of V are left; E: which is inside which.
Covered(E, V0, V) == \A j \in V0 \ V : \E i \in V : <<i, j>> \in E
Apart(E, V, i, js) == i \in V => \A j \in js \cap V : <<i, j>> \notin E /\ <<j, i>> \notin E
StillInside(E, V, i, js) == i \in V \/ \E j \in js \cap V : <<j, i>> \in E

LEMMA EnclosesOrder ==
  ASSUME NEW S, NEW a \in Entry(S), NEW b \in Entry(S), NEW c \in Entry(S)
  PROVE  Encloses(a, a) /\ (Encloses(a, b) /\ Encloses(b, c) => Encloses(a, c))
BY DEF Encloses, Entry

LEMMA SameBox ==
  ASSUME NEW S, NEW a \in Entry(S), NEW b \in Entry(S), NEW c, c = b \/ c = Invalid(b)
  PROVE  (Encloses(a, c) <=> Encloses(a, b)) /\ (Encloses(c, a) <=> Encloses(b, a))
BY DEF Encloses, Invalid, Entry

LEMMA InsideTransitive ==
  ASSUME NEW S, NEW s \in Seq(Entry(S)), NEW i, NEW j, NEW k,
         <<i, j>> \in Inside(s), <<j, k>> \in Inside(s)
  PROVE  <<i, k>> \in Inside(s)
<1>1. i \in 1..Len(s) /\ j \in 1..Len(s) /\ k \in 1..Len(s)
  BY DEF Inside
<1>2. Encloses(s[i], s[j]) /\ Encloses(s[j], s[k])
  BY DEF Inside
<1>3. s[i] \in Entry(S) /\ s[j] \in Entry(S) /\ s[k] \in Entry(S)
  BY <1>1
<1>4. Encloses(s[i], s[k])
  BY <1>2, <1>3, EnclosesOrder
<1> QED BY <1>1, <1>4 DEF Inside

LEMMA InsideItself ==
  ASSUME NEW S, NEW s \in Seq(Entry(S)), NEW i \in 1..Len(s)
  PROVE  <<i, i>> \in Inside(s)
<1>1. s[i] \in Entry(S)
  OBVIOUS
<1>2. Encloses(s[i], s[i])
  BY <1>1, EnclosesOrder
<1> QED BY <1>2 DEF Inside

\* One pair, seen as sets: js are the blobs that had their turn to be compared with i.
LEMMA DropOne ==
  ASSUME NEW N, NEW E, NEW V0, NEW V, NEW W, NEW js, NEW i \in N, NEW j \in N, i # j,
         V \subseteq N, V0 \subseteq N, i \in V0, j \notin js, i \notin js, <<i, i>> \in E,
         \A a, b, c \in N : <<a, b>> \in E /\ <<b, c>> \in E => <<a, c>> \in E,
         Covered(E, V0, V), StillInside(E, V, i, js), Apart(E, V, i, js),
         \/ W = V /\ j \notin V
         \/ W = V \ {j} /\ j \in V /\ <<i, j>> \in E
         \/ W = V \ {i} /\ j \in V /\ <<i, j>> \notin E /\ <<j, i>> \in E
         \/ W = V /\ <<i, j>> \notin E /\ <<j, i>> \notin E
  PROVE  /\ Covered(E, V0, W) /\ StillInside(E, W, i, js \cup {j})
         /\ Apart(E, W, i, js \cup {j})
<1>1. Apart(E, W, i, js \cup {j})
  BY DEF Apart
<1>2. StillInside(E, W, i, js \cup {j})
  BY DEF StillInside
<1>3. Covered(E, V0, W)
  <2> SUFFICES ASSUME NEW x \in V0 \ W PROVE \E y \in W : <<y, x>> \in E
    BY DEF Covered
  <2>1. CASE W = V \ {j} /\ j \in V /\ <<i, j>> \in E
    <3>1. PICK z \in W : <<z, i>> \in E
      BY <2>1 DEF StillInside
    <3>2. CASE x = j
      BY <2>1, <3>1, <3>2
    <3>3. CASE x # j
      <4>1. PICK y \in V : <<y, x>> \in E
        BY <2>1, <3>3 DEF Covered
      <4>2. y = j => <<z, x>> \in E
        BY <2>1, <3>1, <4>1
      <4> QED BY <2>1, <3>1, <4>1, <4>2
    <3> QED BY <3>2, <3>3
  <2>2. CASE W = V \ {i} /\ j \in V /\ <<i, j>> \notin E /\ <<j, i>> \in E
    <3>1. CASE x = i
      BY <2>2, <3>1
    <3>2. CASE x # i
      <4>1. PICK y \in V : <<y, x>> \in E
        BY <2>2, <3>2 DEF Covered
      <4>2. y = i => <<j, x>> \in E
        BY <2>2, <4>1
      <4> QED BY <2>2, <4>1, <4>2
    <3> QED BY <3>1, <3>2
  <2>3. CASE W = V
    BY <2>3 DEF Covered
  <2> QED BY <2>1, <2>2, <2>3
<1> QED BY <1>1, <1>2, <1>3

\* One pair in the table.
LEMMA DropPair ==
  ASSUME NEW S, 0 \in S, NEW s \in Seq(Entry(S)), NEW t, Dropped(S, s, t),
         NEW turn, NEW i \in 1..Len(s), turn.i = i, turn.blob = s[i],
         NEW j \in 1..Len(s), i # j, NEW r, r = DropEnclosed(turn, t, j)
  PROVE  LET E == Inside(s)  V == ValidSet(t)  W == ValidSet(r)
         IN /\ Dropped(S, s, r)
            /\ \/ W = V /\ j \notin V
               \/ W = V \ {j} /\ j \in V /\ <<i, j>> \in E
               \/ W = V \ {i} /\ j \in V /\ <<i, j>> \notin E /\ <<j, i>> \in E
               \/ W = V /\ <<i, j>> \notin E /\ <<j, i>> \notin E
<1> DEFINE E == Inside(s)  V == ValidSet(t)  W == ValidSet(r)
<1>1. t \in Seq(Entry(S)) /\ Len(t) = Len(s)
  BY DEF Dropped
<1>2. ASSUME NEW k \in 1..Len(s), NEW u, u = [t EXCEPT ![k] = Invalid(t[k])]
      PROVE  Dropped(S, s, u) /\ ValidSet(u) = V \ {k}
  <2>1. t[k] \in Entry(S) /\ s[k] \in Entry(S) /\ (t[k] = s[k] \/ t[k] = Invalid(s[k]))
    BY <1>1 DEF Dropped
  <2>2. /\ Invalid(t[k]) \in Entry(S) /\ ~Valid(Invalid(t[k]))
        /\ Invalid(t[k]) = Invalid(s[k])
    <3>1. Invalid(Invalid(s[k])) = Invalid(s[k])
      BY <2>1 DEF Invalid, Entry
    <3>2. Invalid(t[k]) \in Entry(S) /\ ~Valid(Invalid(t[k]))
      BY <2>1, InvalidBlob
    <3> QED BY <2>1, <3>1, <3>2
  <2>3. /\ u \in Seq(Entry(S)) /\ Len(u) = Len(s) /\ u[k] = Invalid(t[k])
        /\ \A l \in 1..Len(s) : l # k => u[l] = t[l]
    BY <1>1, <1>2, <2>2, OneChanged
  <2>4. \A l \in 1..Len(s) : u[l] = s[l] \/ u[l] = Invalid(s[l])
    BY <2>2, <2>3 DEF Dropped
  <2>5. ValidSet(u) = V \ {k}
    BY <1>1, <2>2, <2>3 DEF ValidSet
  <2> QED BY <2>3, <2>4, <2>5 DEF Dropped
<1>3. Encloses(s[i], t[j]) <=> <<i, j>> \in E
  <2>1. s[j] \in Entry(S) /\ (t[j] = s[j] \/ t[j] = Invalid(s[j]))
    BY DEF Dropped
  <2>2. s[i] \in Entry(S)
    OBVIOUS
  <2>3. Encloses(s[i], t[j]) <=> Encloses(s[i], s[j])
    BY <2>1, <2>2, SameBox
  <2> QED BY <2>3 DEF Inside
<1>4. Encloses(t[j], s[i]) <=> <<j, i>> \in E
  <2>1. s[j] \in Entry(S) /\ (t[j] = s[j] \/ t[j] = Invalid(s[j]))
    BY DEF Dropped
  <2>2. s[i] \in Entry(S)
    OBVIOUS
  <2>3. Encloses(t[j], s[i]) <=> Encloses(s[j], s[i])
    BY <2>1, <2>2, SameBox
  <2> QED BY <2>3 DEF Inside
<1>5. Valid(t[j]) <=> j \in V
  BY <1>1 DEF ValidSet
<1> HIDE DEF E, V, W
<1>6. CASE ~Valid(t[j])
  <2>1. r = t
    BY <1>6, Zenon DEF DropEnclosed
  <2> QED BY <1>5, <1>6, <2>1 DEF V, W
<1>7. CASE Valid(t[j]) /\ Encloses(s[i], t[j])
  <2>1. r = [t EXCEPT ![j] = Invalid(t[j])]
    BY <1>7 DEF DropEnclosed
  <2>2. Dropped(S, s, r) /\ W = V \ {j}
    BY <1>2, <2>1 DEF W
  <2> QED BY <1>3, <1>5, <1>7, <2>2 DEF E, V, W
<1>8. CASE Valid(t[j]) /\ ~Encloses(s[i], t[j]) /\ Encloses(t[j], s[i])
  <2>1. r = [t EXCEPT ![i] = Invalid(t[i])]
    BY <1>8 DEF DropEnclosed
  <2>2. Dropped(S, s, r) /\ W = V \ {i}
    BY <1>2, <2>1 DEF W
  <2> QED BY <1>3, <1>4, <1>5, <1>8, <2>2 DEF E, V, W
<1>9. CASE Valid(t[j]) /\ ~Encloses(s[i], t[j]) /\ ~Encloses(t[j], s[i])
  <2>1. r = t
    BY <1>9, Zenon DEF DropEnclosed
  <2> QED BY <1>3, <1>4, <1>9, <2>1 DEF E, V, W
<1> QED BY <1>6, <1>7, <1>8, <1>9

LEMMA DroppedSelf ==
  ASSUME NEW S, NEW s \in Seq(Entry(S))
  PROVE  Dropped(S, s, s)
BY DEF Dropped

LEMMA DroppedValid ==
  ASSUME NEW S, 0 \in S, NEW s \in Seq(Entry(S)), NEW t, Dropped(S, s, t)
  PROVE  ValidSet(t) \subseteq ValidSet(s) /\ \A k \in ValidSet(t) : t[k] = s[k]
<1> SUFFICES ASSUME NEW k \in ValidSet(t) PROVE k \in ValidSet(s) /\ t[k] = s[k]
  OBVIOUS
<1>1. k \in 1..Len(s) /\ Valid(t[k]) /\ (t[k] = s[k] \/ t[k] = Invalid(s[k]))
  BY DEF ValidSet, Dropped
<1>2. s[k] \in Entry(S)
  BY <1>1
<1>3. ~Valid(Invalid(s[k]))
  BY <1>2, InvalidBlob
<1> QED BY <1>1, <1>3 DEF ValidSet

\* The turn of a blob that is still valid.
LEMMA DropTurnEffect ==
  ASSUME NEW S, 0 \in S, NEW s \in Seq(Entry(S)), NEW t, Dropped(S, s, t),
         NEW i \in 1..Len(s), NEW codeSigs, Covered(Inside(s), ValidSet(s), ValidSet(t))
  PROVE  LET E == Inside(s)  r == DropTurn(codeSigs, t, i)  W == ValidSet(r)
         IN /\ Dropped(S, s, r) /\ Covered(E, ValidSet(s), W) /\ W \subseteq ValidSet(t)
            /\ Apart(E, W, i, i + 1..Len(s))
<1> DEFINE E == Inside(s)  V0 == ValidSet(s)  n == Len(s)
           turn == TurnOf(t, i, codeSigs)
           Good(k, u) == /\ Dropped(S, s, u) /\ Covered(E, V0, ValidSet(u))
                         /\ ValidSet(u) \subseteq ValidSet(t)
                         /\ StillInside(E, ValidSet(u), i, i + 1..k)
                         /\ Apart(E, ValidSet(u), i, i + 1..k)
           I == {p \in (i..n) \X Seq(Entry(S)) : Good(p[1], p[2])}
           r == Dropping!Iterate(turn, t, i, n)
<1>1. t \in Seq(Entry(S)) /\ Len(t) = n /\ n \in Nat
  BY DEF Dropped
<1>2. ValidSet(t) \subseteq V0
  BY DroppedValid
<1>3. CASE Valid(t[i])
  <2>1. i \in ValidSet(t) /\ t[i] = s[i]
    <3>1. i \in ValidSet(t)
      BY <1>1, <1>3 DEF ValidSet
    <3> QED BY <3>1, DroppedValid
  <2>2. turn.i = i /\ turn.blob = s[i]
    BY <2>1 DEF TurnOf
  <2> HIDE DEF turn
  <2>3. <<i, t>> \in I
    <3>1. i + 1..i = {}
      OBVIOUS
    <3>2. Good(i, t)
      BY <2>1, <3>1 DEF StillInside, Apart
    <3> QED BY <1>1, <3>2
  <2>4. ASSUME NEW k \in i + 1..n, NEW u, <<k - 1, u>> \in I
        PROVE  <<k, DropEnclosed(turn, u, k)>> \in I
    <3> DEFINE v == DropEnclosed(turn, u, k)  V == ValidSet(u)  W == ValidSet(v)
    <3>1. Good(k - 1, u)
      BY <2>4
    <3>2. k \in 1..n /\ i # k /\ k \in i..n
      OBVIOUS
    <3>3. /\ Dropped(S, s, v)
          /\ \/ W = V /\ k \notin V
             \/ W = V \ {k} /\ k \in V /\ <<i, k>> \in E
             \/ W = V \ {i} /\ k \in V /\ <<i, k>> \notin E /\ <<k, i>> \in E
             \/ W = V /\ <<i, k>> \notin E /\ <<k, i>> \notin E
      BY <2>2, <3>1, <3>2, DropPair
    <3>4. V \subseteq 1..n /\ V0 \subseteq 1..n /\ i \in V0
      <4>1. Len(u) = n
        BY <3>1 DEF Dropped
      <4> QED BY <1>2, <2>1, <4>1 DEF ValidSet
    <3>5. <<i, i>> \in E
      BY InsideItself
    <3>6. \A a, b, c \in 1..n : <<a, b>> \in E /\ <<b, c>> \in E => <<a, c>> \in E
      BY InsideTransitive
    <3>7. k \notin i + 1..k - 1 /\ i \notin i + 1..k - 1 /\ (i + 1..k - 1) \cup {k} = i + 1..k
      OBVIOUS
    <3>8. v \in Seq(Entry(S))
      BY <3>3 DEF Dropped
    <3> HIDE DEF E, V0, V, W, v
    <3>9. /\ Covered(E, V0, W) /\ StillInside(E, W, i, (i + 1..k - 1) \cup {k})
          /\ Apart(E, W, i, (i + 1..k - 1) \cup {k})
      <4>1. Covered(E, V0, V) /\ StillInside(E, V, i, i + 1..k - 1) /\ Apart(E, V, i, i + 1..k - 1)
        BY <3>1 DEF V
      <4> DEFINE N == 1..n  js == i + 1..k - 1
      <4>2. /\ i \in N /\ k \in N /\ i # k /\ V \subseteq N /\ V0 \subseteq N
            /\ \A a, b, c \in N : <<a, b>> \in E /\ <<b, c>> \in E => <<a, c>> \in E
        BY <3>2, <3>4, <3>6
      <4>3. /\ k \notin js /\ i \notin js
            /\ Covered(E, V0, V) /\ StillInside(E, V, i, js) /\ Apart(E, V, i, js)
        BY <3>7, <4>1
      <4> HIDE DEF N, js, Good
      <4>4. /\ Covered(E, V0, W) /\ StillInside(E, W, i, js \cup {k})
            /\ Apart(E, W, i, js \cup {k})
        BY <3>3, <3>4, <3>5, <4>2, <4>3, DropOne
      <4> QED BY <4>4 DEF js
    <3>10. W \subseteq ValidSet(t)
      BY <3>1, <3>3 DEF V
    <3>11. Good(k, v)
      BY <3>3, <3>7, <3>9, <3>10 DEF W
    <3> HIDE DEF Good
    <3>12. <<k, v>> \in I
      BY <3>2, <3>8, <3>11
    <3> QED BY <3>12 DEF v
  <2>5. <<n, r>> \in I
    <3> HIDE DEF I
    <3>1. i \in Int /\ n \in Int /\ i <= n
      BY <1>1
    <3> QED BY <2>3, <2>4, <3>1, Dropping!LoopRule
  <2>6. Good(n, r)
    BY <2>5
  <2>7. Loop(DropEnclosed, turn, t, i, n) = r
    BY Zenon DEF Loop, Dropping!Iterate
  <2>8. DropTurn(codeSigs, t, i) = r
    BY <1>1, <1>3, <2>7 DEF DropTurn, Turn, turn
  <2> HIDE DEF r
  <2> QED BY <2>6, <2>8
<1>4. CASE ~Valid(t[i])
  <2>1. DropTurn(codeSigs, t, i) = t
    BY <1>4, Zenon DEF DropTurn
  <2>2. i \notin ValidSet(t)
    BY <1>4 DEF ValidSet
  <2> QED BY <2>1, <2>2 DEF Apart
<1> QED BY <1>3, <1>4

\* All of it.
LEMMA CombineEffect ==
  ASSUME NEW S, 0 \in S, NEW s \in Seq(Entry(S))
  PROVE  LET E == Inside(s)  r == combine(s)  V == ValidSet(r)
         IN /\ Dropped(S, s, r) /\ Covered(E, ValidSet(s), V)
            /\ \A i, j \in V : i # j => <<i, j>> \notin E
<1> DEFINE E == Inside(s)  V0 == ValidSet(s)  n == Len(s)
           Good(k, u) == /\ Dropped(S, s, u) /\ Covered(E, V0, ValidSet(u))
                         /\ \A i \in 1..k : Apart(E, ValidSet(u), i, i + 1..n)
           I == {p \in (0..n) \X Seq(Entry(S)) : Good(p[1], p[2])}
           r == DropTurns!Iterate({}, s, 0, n)
<1>1. n \in Nat
  OBVIOUS
<1>2. <<0, s>> \in I
  <2>1. Dropped(S, s, s) /\ Covered(E, V0, V0)
    BY DroppedSelf DEF Covered
  <2> QED BY <2>1
<1>3. ASSUME NEW k \in 0 + 1..n, NEW u, <<k - 1, u>> \in I
      PROVE  <<k, DropTurn({}, u, k)>> \in I
  <2> DEFINE v == DropTurn({}, u, k)  W == ValidSet(v)
  <2>1. Good(k - 1, u)
    BY <1>3
  <2>2. /\ Dropped(S, s, v) /\ Covered(E, V0, W) /\ W \subseteq ValidSet(u)
        /\ Apart(E, W, k, k + 1..n)
    BY <2>1, DropTurnEffect
  <2> HIDE DEF v, E
  <2>3. ASSUME NEW i \in 1..k PROVE Apart(E, W, i, i + 1..n)
    <3>1. CASE i = k
      BY <2>2, <3>1
    <3>2. CASE i # k
      <4>1. i \in 1..k - 1
        BY <3>2
      <4>2. Apart(E, ValidSet(u), i, i + 1..n)
        BY <2>1, <4>1
      <4> QED BY <2>2, <4>2 DEF Apart
    <3> QED BY <3>1, <3>2
  <2>4. v \in Seq(Entry(S))
    BY <2>2 DEF Dropped
  <2>5. <<k, v>> \in I
    BY <2>2, <2>3, <2>4
  <2> QED BY <2>5 DEF v
<1>4. <<n, r>> \in I
  <2> HIDE DEF I
  <2>1. 0 \in Int /\ n \in Int /\ 0 <= n
    BY <1>1
  <2> QED BY <1>2, <1>3, <2>1, DropTurns!LoopRule
<1>5. combine(s) = r
  BY Zenon DEF combine, Loop, DropTurns!Iterate
<1> HIDE DEF r
<1>6. Good(n, r)
  BY <1>4
<1>7. ValidSet(r) \subseteq 1..n
  BY <1>6 DEF ValidSet, Dropped
<1>8. ASSUME NEW i \in ValidSet(r), NEW j \in ValidSet(r), i # j PROVE <<i, j>> \notin E
  <2> HIDE DEF E
  <2>1. CASE i < j
    <3>1. j \in i + 1..n /\ i \in 1..n
      BY <1>7, <2>1
    <3> QED BY <1>6, <3>1 DEF Apart
  <2>2. CASE j < i
    <3>1. i \in j + 1..n /\ j \in 1..n
      BY <1>7, <2>2
    <3> QED BY <1>6, <3>1 DEF Apart
  <2>3. i < j \/ j < i
    BY <1>7, <1>8
  <2> QED BY <2>1, <2>2, <2>3
<1> QED BY <1>5, <1>6, <1>8

-----------------------------------------------------------------------------
(* The clumps.                                                             *)

LEMMA MaxIsGreatest ==
  ASSUME NEW T \in SUBSET Nat, T # {}, NEW n \in Nat, \A x \in T : x <= n
  PROVE  Max(T) \in T /\ \A x \in T : x <= Max(T)
<1> DEFINE U == {n - x : x \in T}
<1>1. U \in SUBSET Nat /\ U # {}
  <2>1. \A x \in T : n - x \in Nat
    <3> SUFFICES ASSUME NEW x \in T PROVE n - x \in Nat
      OBVIOUS
    <3>1. x \in Nat /\ x <= n
      OBVIOUS
    <3> QED BY <3>1
  <2>2. PICK x \in T : TRUE
    OBVIOUS
  <2>3. n - x \in U
    OBVIOUS
  <2> QED BY <2>1, <2>3
<1>2. PICK u \in U : \A v \in U : u <= v
  <2> HIDE DEF U
  <2> QED BY <1>1, Joining!Least
<1>3. PICK x \in T : u = n - x
  BY <1>2
<1>4. \A y \in T : n - x <= n - y
  BY <1>2, <1>3
<1>5. \A y \in T : x >= y
  BY <1>4
<1> QED BY <1>5 DEF Max

\* Only clumps differ.
Relabelled(S, from, to) ==
  /\ to \in Seq(Entry(S)) /\ Len(to) = Len(from)
  /\ \A k \in 1..Len(from) : to[k] = [from[k] EXCEPT !.clump = to[k].clump]

MarkedSet(s) == {k \in 1..Len(s) : Marked(s[k])}

\* Clumps up to n, of blobs that count as colour codes.
Labelled(s, codeSigs, n) ==
  \A k \in 1..Len(s) : s[k].clump <= n /\ (Marked(s[k]) => s[k].sig \in codeSigs)

LEMMA ClumpsBound ==
  ASSUME NEW S, NEW s \in Seq(Entry(S)), NEW n \in Nat, \A k \in 1..Len(s) : s[k].clump <= n
  PROVE  Clumps(s) \in 0..n /\ \A k \in 1..Len(s) : s[k].clump <= Clumps(s)
<1> DEFINE T == {0} \cup {s[k].clump : k \in DOMAIN s}
<1>1. \A k \in 1..Len(s) : s[k].clump \in Nat
  <2>1. \A k \in 1..Len(s) : s[k] \in Entry(S)
    OBVIOUS
  <2> QED BY <2>1 DEF Entry
<1>2. DOMAIN s = 1..Len(s)
  OBVIOUS
<1>3. T \in SUBSET Nat /\ T # {} /\ \A x \in T : x <= n
  BY <1>1, <1>2
<1>4. Max(T) \in T /\ \A x \in T : x <= Max(T)
  <2> HIDE DEF T
  <2> QED BY <1>3, MaxIsGreatest
<1>5. Clumps(s) = Max(T)
  BY Zenon DEF Clumps
<1>6. \A k \in 1..Len(s) : s[k].clump \in T
  BY <1>2
<1> HIDE DEF T
<1>7. Clumps(s) \in Nat /\ Clumps(s) <= n
  BY <1>3, <1>4, <1>5
<1>8. \A k \in 1..Len(s) : s[k].clump <= Clumps(s)
  BY <1>4, <1>5, <1>6
<1> QED BY <1>7, <1>8

LEMMA MarkedSetFinite ==
  ASSUME NEW S, NEW s \in Seq(Entry(S))
  PROVE  /\ IsFiniteSet(MarkedSet(s)) /\ Cardinality(MarkedSet(s)) \in Nat
         /\ Cardinality(MarkedSet(s)) <= Len(s)
<1>1. Len(s) \in Nat
  OBVIOUS
<1>2. IsFiniteSet(1..Len(s)) /\ Cardinality(1..Len(s)) = Len(s)
  BY <1>1, Upto
<1>3. MarkedSet(s) \in SUBSET (1..Len(s))
  BY DEF MarkedSet
<1>4. IsFiniteSet(MarkedSet(s)) /\ Cardinality(MarkedSet(s)) <= Cardinality(1..Len(s))
  BY <1>2, <1>3, FS_Subset
<1>5. Cardinality(MarkedSet(s)) \in Nat
  BY <1>4, FS_CardinalityType
<1> QED BY <1>2, <1>4, <1>5

LEMMA ClumpChanged ==
  ASSUME NEW S, NEW b \in Entry(S), NEW c \in Nat
  PROVE  /\ [b EXCEPT !.clump = c] \in Entry(S) /\ [b EXCEPT !.clump = c].clump = c
         /\ [b EXCEPT !.clump = c].sig = b.sig
BY DEF Entry

LEMMA ClumpChangedTwice ==
  ASSUME NEW S, NEW b \in Entry(S), NEW c \in Nat
  PROVE  \A d : [[b EXCEPT !.clump = d] EXCEPT !.clump = c] = [b EXCEPT !.clump = c]
BY DEF Entry

\* One pair: there are never more clumps than marked blobs.
LEMMA MarkPairEffect ==
  ASSUME NEW S, NEW s \in Seq(Entry(S)), NEW t, Relabelled(S, s, t), NEW turn,
         NEW i \in 1..Len(s), turn.i = i, NEW j \in 1..Len(s), i # j,
         Labelled(t, turn.codeSigs, Cardinality(MarkedSet(t))),
         NEW r, r = MarkPair(turn, t, j)
  PROVE  Relabelled(S, s, r) /\ Labelled(r, turn.codeSigs, Cardinality(MarkedSet(r)))
<1> DEFINE n == Cardinality(MarkedSet(t))
           clump == IF Marked(t[i]) THEN t[i].clump
                    ELSE IF Marked(t[j]) THEN t[j].clump ELSE Clumps(t) + 1
           cond == closeby(t[i], t[j], turn.codeSigs) /\ ~(Marked(t[i]) /\ Marked(t[j]))
<1>1. t \in Seq(Entry(S)) /\ Len(t) = Len(s) /\ t[i] \in Entry(S) /\ t[j] \in Entry(S)
  BY DEF Relabelled
<1>2. CASE ~cond
  <2>1. r = t
    BY <1>2, Zenon DEF MarkPair
  <2> QED BY <2>1
<1>3. CASE cond
  <2>1. n \in Nat /\ IsFiniteSet(MarkedSet(t))
    BY <1>1, MarkedSetFinite
  <2>2. Clumps(t) \in 0..n
    BY <1>1, <2>1, ClumpsBound DEF Labelled
  <2>3. /\ clump \in Nat \ {0} /\ clump <= n + 1
        /\ Marked(t[i]) \/ Marked(t[j]) => clump <= n
    <3>1. t[i].clump \in Nat /\ t[j].clump \in Nat /\ t[i].clump <= n /\ t[j].clump <= n
      BY <1>1 DEF Labelled, Entry
    <3> QED BY <2>1, <2>2, <3>1 DEF Marked
  <2> DEFINE ti == [t[i] EXCEPT !.clump = clump]
             tj == [t[j] EXCEPT !.clump = clump]
             u == [t EXCEPT ![i] = ti]
             v == [u EXCEPT ![j] = tj]
  <2>4. r = v
    <3>1. r = [t EXCEPT ![i].clump = clump, ![j].clump = clump]
      BY <1>3, Zenon DEF MarkPair
    <3> QED BY <3>1
  <2> HIDE DEF clump
  <2>5. /\ ti \in Entry(S) /\ ti.clump = clump /\ ti.sig = t[i].sig
        /\ tj \in Entry(S) /\ tj.clump = clump /\ tj.sig = t[j].sig
    <3>1. clump \in Nat
      BY <2>3
    <3>2. ti \in Entry(S) /\ ti.clump = clump /\ ti.sig = t[i].sig
      BY <1>1, <3>1, ClumpChanged
    <3>3. tj \in Entry(S) /\ tj.clump = clump /\ tj.sig = t[j].sig
      BY <1>1, <3>1, ClumpChanged
    <3> QED BY <3>2, <3>3
  <2>6. ti = [s[i] EXCEPT !.clump = clump] /\ tj = [s[j] EXCEPT !.clump = clump]
    <3>1. t[i] = [s[i] EXCEPT !.clump = t[i].clump] /\ t[j] = [s[j] EXCEPT !.clump = t[j].clump]
      BY DEF Relabelled
    <3>2. s[i] \in Entry(S) /\ s[j] \in Entry(S)
      OBVIOUS
    <3>3. /\ \A d : [[s[i] EXCEPT !.clump = d] EXCEPT !.clump = clump] = [s[i] EXCEPT !.clump = clump]
          /\ \A d : [[s[j] EXCEPT !.clump = d] EXCEPT !.clump = clump] = [s[j] EXCEPT !.clump = clump]
      BY <2>3, <3>2, ClumpChangedTwice
    <3> QED BY <3>1, <3>3, Zenon
  <2> HIDE DEF ti, tj
  <2>7. /\ u \in Seq(Entry(S)) /\ Len(u) = Len(s) /\ u[i] = ti
        /\ \A l \in 1..Len(s) : l # i => u[l] = t[l]
    BY <1>1, <2>5, OneChanged
  <2> HIDE DEF u
  <2>8. /\ v \in Seq(Entry(S)) /\ Len(v) = Len(s) /\ v[j] = tj
        /\ \A l \in 1..Len(s) : l # j => v[l] = u[l]
    BY <2>5, <2>7, OneChanged
  <2> HIDE DEF v
  <2>9. v[i] = ti /\ \A l \in 1..Len(s) : l # i /\ l # j => v[l] = t[l]
    BY <2>7, <2>8
  <2>10. Relabelled(S, s, v)
    <3>1. ASSUME NEW l \in 1..Len(s) PROVE v[l] = [s[l] EXCEPT !.clump = v[l].clump]
      <4>1. CASE l = i
        BY <2>5, <2>6, <2>9, <4>1
      <4>2. CASE l = j
        BY <2>5, <2>6, <2>8, <4>2
      <4>3. CASE l # i /\ l # j
        BY <2>9, <4>3 DEF Relabelled
      <4> QED BY <4>1, <4>2, <4>3
    <3> QED BY <2>8, <3>1 DEF Relabelled
  <2>11. MarkedSet(v) = MarkedSet(t) \cup {i} \cup {j}
    <3>1. Marked(ti) /\ Marked(tj)
      BY <2>3, <2>5 DEF Marked
    <3> QED BY <1>1, <2>8, <2>9, <3>1 DEF MarkedSet
  <2> DEFINE m == Cardinality(MarkedSet(v))
  <2>12. m \in Nat /\ n <= m /\ clump <= m
    <3> DEFINE A == MarkedSet(t)  B == A \cup {i}  C == B \cup {j}
    <3>1. /\ IsFiniteSet(B) /\ Cardinality(B) = IF i \in A THEN n ELSE n + 1
      BY <2>1, FS_AddElement
    <3>2. Cardinality(C) = IF j \in B THEN Cardinality(B) ELSE Cardinality(B) + 1
      BY <3>1, FS_AddElement
    <3>3. i \in A <=> Marked(t[i])
      BY <1>1 DEF MarkedSet
    <3>4. j \in B <=> Marked(t[j])
      BY <1>1 DEF MarkedSet
    <3>5. m = Cardinality(C)
      BY <2>11
    <3> HIDE DEF B, C, m, n
    <3> QED BY <2>1, <2>3, <3>1, <3>2, <3>3, <3>4, <3>5
  <2>13. Labelled(v, turn.codeSigs, m)
    <3>1. ti.sig \in turn.codeSigs /\ tj.sig \in turn.codeSigs
      BY <1>3, <2>5 DEF closeby
    <3>2. ASSUME NEW l \in 1..Len(s)
          PROVE  v[l].clump <= m /\ (Marked(v[l]) => v[l].sig \in turn.codeSigs)
      <4> HIDE DEF m, n
      <4>1. CASE l = i \/ l = j
        BY <2>5, <2>8, <2>9, <2>12, <3>1, <4>1
      <4>2. CASE l # i /\ l # j
        <5>1. v[l] = t[l] /\ t[l].clump <= n /\ (Marked(t[l]) => t[l].sig \in turn.codeSigs)
          BY <1>1, <2>9, <4>2 DEF Labelled, n
        <5>2. t[l].clump \in Nat
          <6>1. t[l] \in Entry(S)
            BY <1>1
          <6> QED BY <6>1 DEF Entry
        <5> QED BY <2>1, <2>12, <5>1, <5>2
      <4> QED BY <4>1, <4>2
    <3> QED BY <2>8, <3>2 DEF Labelled
  <2> QED BY <2>4, <2>10, <2>13
<1> QED BY <1>2, <1>3

LEMMA RelabelledSelf ==
  ASSUME NEW S, NEW s \in Seq(Entry(S))
  PROVE  Relabelled(S, s, s)
<1>1. \A k \in 1..Len(s) : s[k] \in Entry(S)
  OBVIOUS
<1>2. \A k \in 1..Len(s) : s[k] = [s[k] EXCEPT !.clump = s[k].clump]
  BY <1>1 DEF Entry
<1> QED BY <1>2 DEF Relabelled

LEMMA MarkTurnEffect ==
  ASSUME NEW S, NEW s \in Seq(Entry(S)), NEW t, Relabelled(S, s, t), NEW codeSigs,
         NEW i \in 1..Len(s), Labelled(t, codeSigs, Cardinality(MarkedSet(t)))
  PROVE  LET r == MarkTurn(codeSigs, t, i)
         IN Relabelled(S, s, r) /\ Labelled(r, codeSigs, Cardinality(MarkedSet(r)))
<1> DEFINE n == Len(s)  turn == TurnOf(t, i, codeSigs)
           Good(u) == Relabelled(S, s, u) /\ Labelled(u, codeSigs, Cardinality(MarkedSet(u)))
           I == {p \in (i..n) \X Seq(Entry(S)) : Good(p[2])}
           r == Marking!Iterate(turn, t, i, n)
<1>1. t \in Seq(Entry(S)) /\ Len(t) = n /\ n \in Nat
  BY DEF Relabelled
<1>2. turn.i = i /\ turn.codeSigs = codeSigs
  BY DEF TurnOf
<1> HIDE DEF turn
<1>3. <<i, t>> \in I
  BY <1>1
<1>4. ASSUME NEW k \in i + 1..n, NEW u, <<k - 1, u>> \in I
      PROVE  <<k, MarkPair(turn, u, k)>> \in I
  <2> DEFINE v == MarkPair(turn, u, k)
  <2>1. Good(u)
    BY <1>4
  <2>2. k \in 1..n /\ i # k /\ k \in i..n
    OBVIOUS
  <2>3. Good(v)
    BY <1>2, <2>1, <2>2, MarkPairEffect
  <2>4. v \in Seq(Entry(S))
    BY <2>3 DEF Relabelled
  <2> HIDE DEF Good
  <2> QED BY <2>2, <2>3, <2>4
<1>5. <<n, r>> \in I
  <2> HIDE DEF I
  <2>1. i \in Int /\ n \in Int /\ i <= n
    BY <1>1
  <2> QED BY <1>3, <1>4, <2>1, Marking!LoopRule
<1>6. Loop(MarkPair, turn, t, i, n) = r
  BY Zenon DEF Loop, Marking!Iterate
<1>7. MarkTurn(codeSigs, t, i) = r
  BY <1>1, <1>6 DEF MarkTurn, Turn, turn
<1> HIDE DEF r
<1>8. Good(r)
  BY <1>5
<1> QED BY <1>7, <1>8

\* Pass 1 on blobs that are in no clump.
LEMMA MarkCloseEffect ==
  ASSUME NEW S, NEW s \in Seq(Entry(S)), NEW codeSigs, \A k \in 1..Len(s) : ~Marked(s[k])
  PROVE  Relabelled(S, s, MarkClose(s, codeSigs)) /\ Labelled(MarkClose(s, codeSigs), codeSigs, Len(s))
<1> DEFINE n == Len(s)
           Good(u) == Relabelled(S, s, u) /\ Labelled(u, codeSigs, Cardinality(MarkedSet(u)))
           I == {p \in (0..n) \X Seq(Entry(S)) : Good(p[2])}
           r == MarkTurns!Iterate(codeSigs, s, 0, n)
<1>1. n \in Nat
  OBVIOUS
<1>2. <<0, s>> \in I
  <2>1. MarkedSet(s) = {}
    BY DEF MarkedSet
  <2>2. Cardinality(MarkedSet(s)) = 0
    BY <2>1, FS_EmptySet
  <2>3. Labelled(s, codeSigs, 0)
    <3>1. \A k \in 1..n : s[k].clump = 0
      BY DEF Marked
    <3> QED BY <3>1 DEF Labelled
  <2> QED BY <1>1, <2>2, <2>3, RelabelledSelf
<1>3. ASSUME NEW k \in 0 + 1..n, NEW u, <<k - 1, u>> \in I
      PROVE  <<k, MarkTurn(codeSigs, u, k)>> \in I
  <2> DEFINE v == MarkTurn(codeSigs, u, k)
  <2>1. Good(u) /\ k \in 1..n
    BY <1>3
  <2>2. Good(v)
    BY <2>1, MarkTurnEffect
  <2>3. v \in Seq(Entry(S))
    BY <2>2 DEF Relabelled
  <2> HIDE DEF Good
  <2> QED BY <2>1, <2>2, <2>3
<1>4. <<n, r>> \in I
  <2> HIDE DEF I
  <2>1. 0 \in Int /\ n \in Int /\ 0 <= n
    BY <1>1
  <2> QED BY <1>2, <1>3, <2>1, MarkTurns!LoopRule
<1>5. MarkClose(s, codeSigs) = r
  BY Zenon DEF MarkClose, Loop, MarkTurns!Iterate
<1> HIDE DEF r
<1>6. Good(r) /\ r \in Seq(Entry(S)) /\ Len(r) = n
  BY <1>4 DEF Relabelled
<1>7. Cardinality(MarkedSet(r)) \in Nat /\ Cardinality(MarkedSet(r)) <= n
  BY <1>6, MarkedSetFinite
<1>8. Labelled(r, codeSigs, n)
  <2> SUFFICES ASSUME NEW k \in 1..n
               PROVE  r[k].clump <= n /\ (Marked(r[k]) => r[k].sig \in codeSigs)
    BY <1>6 DEF Labelled
  <2>1. r[k].clump <= Cardinality(MarkedSet(r)) /\ (Marked(r[k]) => r[k].sig \in codeSigs)
    BY <1>6 DEF Labelled
  <2>2. r[k] \in Entry(S)
    BY <1>6
  <2>3. r[k].clump \in Nat
    BY <2>2 DEF Entry
  <2> QED BY <1>1, <1>7, <2>1, <2>3
<1> QED BY <1>5, <1>6, <1>8

\* Pass 2.
LEMMA MergePairEffect ==
  ASSUME NEW S, NEW s \in Seq(Entry(S)), NEW t, Relabelled(S, s, t), NEW turn,
         NEW n \in Nat, Labelled(t, turn.codeSigs, n), NEW j \in 1..Len(s),
         turn.blob.clump \in 1..n, NEW r, r = MergePair(turn, t, j)
  PROVE  Relabelled(S, s, r) /\ Labelled(r, turn.codeSigs, n)
<1> DEFINE c0 == turn.blob.clump  c1 == t[j].clump
<1>1. t \in Seq(Entry(S)) /\ Len(t) = Len(s) /\ DOMAIN t = 1..Len(s)
  BY DEF Relabelled
<1>2. CASE r = mergeClumps(t, c0, c1) /\ Marked(t[j])
  <2>1. r = [k \in 1..Len(s) |-> IF t[k].clump = c1 THEN [t[k] EXCEPT !.clump = c0] ELSE t[k]]
    BY <1>1, <1>2 DEF mergeClumps
  <2>2. ASSUME NEW k \in 1..Len(s)
        PROVE  /\ r[k] \in Entry(S) /\ r[k] = [s[k] EXCEPT !.clump = r[k].clump]
               /\ r[k].clump <= n /\ (Marked(r[k]) => r[k].sig \in turn.codeSigs)
    <3>1. /\ t[k] \in Entry(S) /\ s[k] \in Entry(S) /\ t[k] = [s[k] EXCEPT !.clump = t[k].clump]
          /\ t[k].clump <= n /\ (Marked(t[k]) => t[k].sig \in turn.codeSigs)
      BY <1>1 DEF Relabelled, Labelled
    <3>2. CASE t[k].clump = c1
      <4> DEFINE b == [t[k] EXCEPT !.clump = c0]
      <4>1. r[k] = b
        BY <2>1, <3>2
      <4>2. c0 \in Nat /\ c0 <= n
        OBVIOUS
      <4> HIDE DEF c0
      <4>3. b \in Entry(S) /\ b.clump = c0 /\ b.sig = t[k].sig
        BY <3>1, <4>2, ClumpChanged
      <4>4. Marked(t[k])
        BY <1>2, <3>2 DEF Marked
      <4>5. b = [s[k] EXCEPT !.clump = c0]
        <5>1. \A d : [[s[k] EXCEPT !.clump = d] EXCEPT !.clump = c0] = [s[k] EXCEPT !.clump = c0]
          BY <3>1, <4>2, ClumpChangedTwice
        <5> QED BY <3>1, <5>1, Zenon
      <4> HIDE DEF b
      <4> QED BY <3>1, <4>1, <4>2, <4>3, <4>4, <4>5
    <3>3. CASE t[k].clump # c1
      <4>1. r[k] = t[k]
        BY <2>1, <3>3
      <4> QED BY <3>1, <4>1
    <3> QED BY <3>2, <3>3
  <2>3. r \in Seq(Entry(S)) /\ Len(r) = Len(s)
    <3>1. r = [k \in 1..Len(s) |-> r[k]] /\ Len(s) \in Nat
      BY <2>1
    <3>2. \A k \in 1..Len(s) : r[k] \in Entry(S)
      BY <2>2
    <3> QED BY <3>1, <3>2, FunctionIsSequence
  <2> QED BY <2>2, <2>3 DEF Relabelled, Labelled
<1>3. CASE r = t
  BY <1>3
<1>4. r = t \/ (r = mergeClumps(t, c0, c1) /\ Marked(t[j]))
  BY Zenon DEF MergePair
<1> QED BY <1>2, <1>3, <1>4

LEMMA MergeTurnEffect ==
  ASSUME NEW S, NEW s \in Seq(Entry(S)), NEW t, Relabelled(S, s, t), NEW codeSigs,
         NEW i \in 1..Len(s), NEW m \in Nat, Labelled(t, codeSigs, m)
  PROVE  LET r == MergeTurn(codeSigs, t, i)
         IN Relabelled(S, s, r) /\ Labelled(r, codeSigs, m)
<1> DEFINE n == Len(s)  turn == TurnOf(t, i, codeSigs)
           Good(u) == Relabelled(S, s, u) /\ Labelled(u, codeSigs, m)
           I == {p \in (i..n) \X Seq(Entry(S)) : Good(p[2])}
           r == Merging!Iterate(turn, t, i, n)
<1>1. t \in Seq(Entry(S)) /\ Len(t) = n /\ n \in Nat /\ t[i] \in Entry(S)
  BY DEF Relabelled
<1>2. CASE Marked(t[i])
  <2>1. turn.blob.clump \in 1..m /\ turn.codeSigs = codeSigs
    <3>1. t[i].clump \in Nat /\ t[i].clump # 0 /\ t[i].clump <= m
      BY <1>1, <1>2 DEF Marked, Labelled, Entry
    <3> QED BY <3>1 DEF TurnOf
  <2> HIDE DEF turn
  <2>2. <<i, t>> \in I
    BY <1>1
  <2>3. ASSUME NEW k \in i + 1..n, NEW u, <<k - 1, u>> \in I
        PROVE  <<k, MergePair(turn, u, k)>> \in I
    <3> DEFINE v == MergePair(turn, u, k)
    <3>1. Good(u)
      BY <2>3
    <3>2. k \in 1..n /\ k \in i..n
      OBVIOUS
    <3>3. Good(v)
      BY <2>1, <3>1, <3>2, MergePairEffect
    <3>4. v \in Seq(Entry(S))
      BY <3>3 DEF Relabelled
    <3> HIDE DEF Good
    <3> QED BY <3>2, <3>3, <3>4
  <2>4. <<n, r>> \in I
    <3> HIDE DEF I
    <3>1. i \in Int /\ n \in Int /\ i <= n
      BY <1>1
    <3> QED BY <2>2, <2>3, <3>1, Merging!LoopRule
  <2>5. Loop(MergePair, turn, t, i, n) = r
    BY Zenon DEF Loop, Merging!Iterate
  <2>6. MergeTurn(codeSigs, t, i) = r
    BY <1>1, <1>2, <2>5 DEF MergeTurn, Turn, turn
  <2> HIDE DEF r
  <2>7. Good(r)
    BY <2>4
  <2> QED BY <2>6, <2>7
<1>3. CASE ~Marked(t[i])
  BY <1>3, Zenon DEF MergeTurn
<1> QED BY <1>2, <1>3

LEMMA MergeCloseEffect ==
  ASSUME NEW S, NEW s \in Seq(Entry(S)), NEW codeSigs, NEW m \in Nat, Labelled(s, codeSigs, m)
  PROVE  Relabelled(S, s, MergeClose(s, codeSigs)) /\ Labelled(MergeClose(s, codeSigs), codeSigs, m)
<1> DEFINE n == Len(s)
           Good(u) == Relabelled(S, s, u) /\ Labelled(u, codeSigs, m)
           I == {p \in (0..n) \X Seq(Entry(S)) : Good(p[2])}
           r == MergeTurns!Iterate(codeSigs, s, 0, n)
<1>1. n \in Nat
  OBVIOUS
<1>2. <<0, s>> \in I
  BY <1>1, RelabelledSelf
<1>3. ASSUME NEW k \in 0 + 1..n, NEW u, <<k - 1, u>> \in I
      PROVE  <<k, MergeTurn(codeSigs, u, k)>> \in I
  <2> DEFINE v == MergeTurn(codeSigs, u, k)
  <2>1. Good(u) /\ k \in 1..n
    BY <1>3
  <2>2. Good(v)
    BY <2>1, MergeTurnEffect
  <2>3. v \in Seq(Entry(S))
    BY <2>2 DEF Relabelled
  <2> HIDE DEF Good
  <2> QED BY <2>1, <2>2, <2>3
<1>4. <<n, r>> \in I
  <2> HIDE DEF I
  <2>1. 0 \in Int /\ n \in Int /\ 0 <= n
    BY <1>1
  <2> QED BY <1>2, <1>3, <2>1, MergeTurns!LoopRule
<1>5. MergeClose(s, codeSigs) = r
  BY Zenon DEF MergeClose, Loop, MergeTurns!Iterate
<1> HIDE DEF r
<1>6. Good(r)
  BY <1>4
<1> QED BY <1>5, <1>6

\* Both passes.
LEMMA MarkEffect ==
  ASSUME NEW S, NEW s \in Seq(Entry(S)), NEW codeSigs, \A k \in 1..Len(s) : ~Marked(s[k])
  PROVE  LET r == MergeClose(MarkClose(s, codeSigs), codeSigs)
         IN Relabelled(S, s, r) /\ Labelled(r, codeSigs, Len(s))
<1> DEFINE t == MarkClose(s, codeSigs)  r == MergeClose(t, codeSigs)
<1>1. Relabelled(S, s, t) /\ Labelled(t, codeSigs, Len(s)) /\ t \in Seq(Entry(S))
  BY MarkCloseEffect DEF Relabelled
<1> HIDE DEF t
<1>2. Relabelled(S, t, r) /\ Labelled(r, codeSigs, Len(s))
  <2>1. Len(s) \in Nat
    OBVIOUS
  <2> QED BY <1>1, <2>1, MergeCloseEffect
<1> HIDE DEF r
<1>3. Relabelled(S, s, r)
  <2> SUFFICES ASSUME NEW k \in 1..Len(s) PROVE r[k] = [s[k] EXCEPT !.clump = r[k].clump]
    BY <1>1, <1>2 DEF Relabelled
  <2>1. t[k] = [s[k] EXCEPT !.clump = t[k].clump] /\ r[k] = [t[k] EXCEPT !.clump = r[k].clump]
    BY <1>1, <1>2 DEF Relabelled
  <2>2. s[k] \in Entry(S) /\ r[k] \in Entry(S)
    BY <1>1, <1>2 DEF Relabelled
  <2>3. r[k].clump \in Nat
    BY <2>2 DEF Entry
  <2>4. \A d : [[s[k] EXCEPT !.clump = d] EXCEPT !.clump = r[k].clump]
                 = [s[k] EXCEPT !.clump = r[k].clump]
    BY <2>2, <2>3, ClumpChangedTwice
  <2> QED BY <2>1, <2>4, Zenon
<1> QED BY <1>2, <1>3 DEF t, r

-----------------------------------------------------------------------------
(* What holds a clump together, and apart from the others.                 *)

\* Pairs of blobs close to each other: neither pass changes a box.
Pairs(s) == {p \in (1..Len(s)) \X (1..Len(s)) : p[1] < p[2] /\ distance(s[p[1]], s[p[2]]) <= m_maxCodedDist}
\* Close, whichever of the two comes first in the table.
Linked(P, i, j) == <<i, j>> \in P \/ <<j, i>> \in P

LEMMA PairsSame ==
  ASSUME NEW S, NEW s \in Seq(Entry(S)), NEW t, Relabelled(S, s, t)
  PROVE  /\ Pairs(t) = Pairs(s)
         /\ \A k \in 1..Len(s) : t[k].sig = s[k].sig /\ t[k] \in Entry(S) /\ t[k].clump \in Nat
<1>1. Len(t) = Len(s)
  BY DEF Relabelled
<1>2. ASSUME NEW k \in 1..Len(s)
      PROVE  /\ t[k].left = s[k].left /\ t[k].right = s[k].right /\ t[k].top = s[k].top
             /\ t[k].bottom = s[k].bottom /\ t[k].sig = s[k].sig /\ t[k] \in Entry(S)
             /\ t[k].clump \in Nat
  <2>1. s[k] \in Entry(S) /\ t[k] \in Entry(S) /\ t[k] = [s[k] EXCEPT !.clump = t[k].clump]
    BY DEF Relabelled
  <2> QED BY <2>1 DEF Entry
<1>3. \A i, j \in 1..Len(s) : distance(t[i], t[j]) = distance(s[i], s[j])
  <2> SUFFICES ASSUME NEW i \in 1..Len(s), NEW j \in 1..Len(s)
               PROVE  distance(t[i], t[j]) = distance(s[i], s[j])
    OBVIOUS
  <2>1. t[i].left = s[i].left /\ t[i].right = s[i].right /\ t[i].top = s[i].top /\ t[i].bottom = s[i].bottom
    BY <1>2
  <2>2. t[j].left = s[j].left /\ t[j].right = s[j].right /\ t[j].top = s[j].top /\ t[j].bottom = s[j].bottom
    BY <1>2
  <2> QED BY <2>1, <2>2 DEF distance, Within
<1>4. Pairs(t) = Pairs(s)
  BY <1>1, <1>3 DEF Pairs
<1> QED BY <1>2, <1>4

LEMMA PairIs ==
  ASSUME NEW s, NEW i \in 1..Len(s), NEW j \in 1..Len(s), Len(s) \in Nat
  PROVE  <<i, j>> \in Pairs(s) <=> i < j /\ distance(s[i], s[j]) <= m_maxCodedDist
BY DEF Pairs

\* No blob in a clump outside X is close to one inside.
Closed(X, s, P) == \A i, j \in MarkedSet(s) : i \in X /\ Linked(P, i, j) => j \in X

\* A clump lies on one side of every such set: it is connected.
Coherent(s, P) ==
  \A X : Closed(X, s, P) =>
    \A i, j \in MarkedSet(s) : s[i].clump = s[j].clump /\ i \in X => j \in X

\* Two close blobs of different signatures are in clumps.
Caught(s, P, codeSigs, i, j) ==
  <<i, j>> \in P /\ {s[i].sig, s[j].sig} \subseteq codeSigs /\ s[i].sig # s[j].sig
    => {i, j} \subseteq MarkedSet(s)

\* What the first i - 1 turns, and the next one up to blob k, have caught.
CaughtUpTo(s, P, codeSigs, i, k) ==
  \A a, b \in 1..Len(s) : a < b /\ (a < i \/ (a = i /\ b <= k)) => Caught(s, P, codeSigs, a, b)

\* What pass 1 may have made of s so far: t, whose clumps are connected.
Marks(S, s, t, codeSigs) ==
  /\ Relabelled(S, s, t) /\ Labelled(t, codeSigs, Cardinality(MarkedSet(t)))
  /\ Coherent(t, Pairs(s))

\* What MarkPair makes of two close blobs that are not both in a clump.
InOneClump(t, i, j, c, r) ==
  /\ c = IF Marked(t[i]) THEN t[i].clump ELSE IF Marked(t[j]) THEN t[j].clump ELSE Clumps(t) + 1
  /\ r = [t EXCEPT ![i].clump = c, ![j].clump = c]

LEMMA NewClump ==
  ASSUME NEW S, NEW s \in Seq(Entry(S)), NEW codeSigs, 0 \notin codeSigs, NEW t, Marks(S, s, t, codeSigs),
         NEW i \in 1..Len(s), NEW j \in 1..Len(s), i < j, closeby(t[i], t[j], codeSigs),
         ~(Marked(t[i]) /\ Marked(t[j])),
         NEW c, NEW r, InOneClump(t, i, j, c, r)
  PROVE  /\ MarkedSet(r) = MarkedSet(t) \cup {i, j} /\ Coherent(r, Pairs(s))
<1> DEFINE P == Pairs(s)
<1> USE DEF InOneClump
<1>1. t \in Seq(Entry(S)) /\ Len(t) = Len(s) /\ DOMAIN t = 1..Len(s) /\ Len(s) \in Nat
  BY DEF Marks, Relabelled
<1>2. /\ Pairs(t) = P
      /\ \A k \in 1..Len(s) : t[k] \in Entry(S) /\ t[k].clump \in Nat
  BY PairsSame DEF Marks
<1>3. <<i, j>> \in P
  BY <1>1, <1>2, PairIs DEF closeby
<1>4. Clumps(t) \in Nat /\ \A k \in 1..Len(s) : t[k].clump <= Clumps(t)
  <2> DEFINE n == Cardinality(MarkedSet(t))
  <2>1. n \in Nat
    BY <1>1, MarkedSetFinite
  <2>2. \A k \in 1..Len(t) : t[k].clump <= n
    BY DEF Marks, Labelled
  <2> HIDE DEF n
  <2> QED BY <1>1, <2>1, <2>2, ClumpsBound
<1>5. /\ c \in Nat /\ c # 0
      /\ \A k \in 1..Len(s) : t[k].clump = c =>
           (Marked(t[i]) /\ t[i].clump = c) \/ (Marked(t[j]) /\ t[j].clump = c)
  <2>1. CASE Marked(t[i])
    BY <1>2, <2>1 DEF Marked
  <2>2. CASE ~Marked(t[i]) /\ Marked(t[j])
    BY <1>2, <2>2 DEF Marked
  <2>3. CASE ~Marked(t[i]) /\ ~Marked(t[j])
    <3>1. c = Clumps(t) + 1
      BY <2>3
    <3>2. \A k \in 1..Len(s) : t[k].clump # c
      BY <1>2, <1>4, <3>1
    <3> QED BY <1>4, <3>1, <3>2
  <2> QED BY <2>1, <2>2, <2>3
<1>6. /\ Len(r) = Len(s) /\ r[i].clump = c /\ r[j].clump = c
      /\ \A k \in 1..Len(s) : k \notin {i, j} => r[k] = t[k]
  <2>1. t[i] \in Entry(S) /\ t[j] \in Entry(S) /\ i # j
    BY <1>2
  <2>2. DOMAIN r = 1..Len(s)
    BY <1>1
  <2>3. /\ r[i] = [t[i] EXCEPT !.clump = c] /\ r[j] = [t[j] EXCEPT !.clump = c]
        /\ \A k \in 1..Len(s) : k \notin {i, j} => r[k] = t[k]
    BY <1>1, <2>1
  <2>4. Len(r) = Len(s)
    <3> DEFINE T == {r[k] : k \in 1..Len(s)}
    <3>1. r = [k \in 1..Len(s) |-> r[k]] /\ \A k \in 1..Len(s) : r[k] \in T
      BY <2>2
    <3> HIDE DEF T
    <3> QED BY <1>1, <3>1, FunctionIsSequence
  <2>5. [t[i] EXCEPT !.clump = c].clump = c /\ [t[j] EXCEPT !.clump = c].clump = c
    BY <1>5, <2>1, ClumpChanged
  <2> QED BY <2>3, <2>4, <2>5
<1> HIDE DEF P
<1>7. MarkedSet(r) = MarkedSet(t) \cup {i, j}
  <2>1. Marked(r[i]) /\ Marked(r[j])
    BY <1>5, <1>6 DEF Marked
  <2> QED BY <1>1, <1>6, <2>1 DEF MarkedSet
<1>8. Coherent(r, P)
  <2> SUFFICES ASSUME NEW X, Closed(X, r, P), NEW p \in MarkedSet(r), NEW q \in MarkedSet(r),
                      r[p].clump = r[q].clump, p \in X
               PROVE  q \in X
    BY DEF Coherent
  <2>1. Closed(X, t, P)
    BY <1>7 DEF Closed
  <2>2. \A a, b \in MarkedSet(t) : t[a].clump = t[b].clump /\ a \in X => b \in X
    BY <2>1 DEF Marks, Coherent, P
  <2>3. i \in X <=> j \in X
    BY <1>3, <1>7 DEF Closed, Linked
  <2>4. /\ p \in 1..Len(s) /\ q \in 1..Len(s)
        /\ p \notin {i, j} => p \in MarkedSet(t) /\ r[p] = t[p]
        /\ q \notin {i, j} => q \in MarkedSet(t) /\ r[q] = t[q]
    BY <1>6, <1>7 DEF MarkedSet
  <2>5. Marked(t[i]) => i \in MarkedSet(t)
    BY <1>1 DEF MarkedSet
  <2>6. Marked(t[j]) => j \in MarkedSet(t)
    BY <1>1 DEF MarkedSet
  <2>7. CASE p \notin {i, j} /\ q \notin {i, j}
    BY <2>2, <2>4, <2>7
  <2>8. CASE p \in {i, j} /\ q \in {i, j}
    BY <2>3, <2>8
  <2>9. CASE p \in {i, j} /\ q \notin {i, j}
    <3>1. t[q].clump = c
      BY <1>6, <2>4, <2>9
    <3>2. PICK w \in {i, j} : w \in MarkedSet(t) /\ t[w].clump = c
      BY <1>5, <2>4, <2>5, <2>6, <3>1
    <3>3. w \in X
      BY <2>3, <2>9
    <3> QED BY <2>2, <2>4, <2>9, <3>1, <3>2, <3>3
  <2>10. CASE p \notin {i, j} /\ q \in {i, j}
    <3>1. t[p].clump = c
      BY <1>6, <2>4, <2>10
    <3>2. PICK w \in {i, j} : w \in MarkedSet(t) /\ t[w].clump = c
      BY <1>5, <2>4, <2>5, <2>6, <3>1
    <3>3. w \in X
      BY <2>2, <2>4, <2>10, <3>1, <3>2
    <3> QED BY <2>3, <2>10, <3>3
  <2> QED BY <2>7, <2>8, <2>9, <2>10
<1> QED BY <1>7, <1>8 DEF P

LEMMA MarkPairClumps ==
  ASSUME NEW S, NEW s \in Seq(Entry(S)), NEW turn, 0 \notin turn.codeSigs, NEW t,
         Marks(S, s, t, turn.codeSigs), NEW i \in 1..Len(s), turn.i = i, NEW j \in 1..Len(s), i < j,
         CaughtUpTo(t, Pairs(s), turn.codeSigs, i, j - 1)
  PROVE  LET r == MarkPair(turn, t, j)
         IN Marks(S, s, r, turn.codeSigs) /\ CaughtUpTo(r, Pairs(s), turn.codeSigs, i, j)
<1> DEFINE r == MarkPair(turn, t, j)
           P == Pairs(s)
           C == turn.codeSigs
           cond == closeby(t[i], t[j], C) /\ ~(Marked(t[i]) /\ Marked(t[j]))
<1>1. t \in Seq(Entry(S)) /\ Len(t) = Len(s) /\ Len(s) \in Nat
  BY DEF Marks, Relabelled
<1>2. Relabelled(S, s, r) /\ Labelled(r, C, Cardinality(MarkedSet(r)))
  BY MarkPairEffect DEF Marks
<1>3. /\ Coherent(r, P) /\ MarkedSet(t) \subseteq MarkedSet(r)
      /\ (r = t /\ ~cond) \/ {i, j} \subseteq MarkedSet(r)
  <2>1. CASE ~cond
    <3>1. r = t
      BY <2>1, Zenon DEF MarkPair
    <3> QED BY <2>1, <3>1 DEF Marks
  <2>2. CASE cond
    <3> DEFINE c == IF Marked(t[i]) THEN t[i].clump
                    ELSE IF Marked(t[j]) THEN t[j].clump ELSE Clumps(t) + 1
    <3>1. r = [t EXCEPT ![i].clump = c, ![j].clump = c]
      BY <2>2, Zenon DEF MarkPair
    <3>2. closeby(t[i], t[j], C) /\ ~(Marked(t[i]) /\ Marked(t[j]))
      BY <2>2
    <3>4. InOneClump(t, i, j, c, r)
      BY <3>1, Zenon DEF InOneClump
    <3> HIDE DEF r, c, cond
    <3>3. MarkedSet(r) = MarkedSet(t) \cup {i, j} /\ Coherent(r, P)
      BY <3>2, <3>4, NewClump
    <3> QED BY <3>3
  <2> QED BY <2>1, <2>2
<1>4. \A k \in 1..Len(s) : r[k].sig = s[k].sig /\ t[k].sig = s[k].sig /\ t[k] \in Entry(S)
  BY <1>2, PairsSame DEF Marks
<1>5. Len(r) = Len(s)
  BY <1>2 DEF Relabelled
<1>6. Caught(r, P, C, i, j)
  <2> SUFFICES ASSUME <<i, j>> \in P, {r[i].sig, r[j].sig} \subseteq C, r[i].sig # r[j].sig, r = t, ~cond
               PROVE  {i, j} \subseteq MarkedSet(t)
    BY <1>3 DEF Caught
  <2>1. distance(t[i], t[j]) <= m_maxCodedDist
    <3>1. Pairs(t) = P
      BY PairsSame DEF Marks
    <3> QED BY <1>1, <3>1, PairIs
  <2>2. t[i].sig # t[j].sig /\ {t[i].sig, t[j].sig} \subseteq C
    OBVIOUS
  <2> HIDE DEF r
  <2>3. <<t[i].sig, t[i].clump>> # <<t[j].sig, t[j].clump>>
    BY <2>2
  <2>4. closeby(t[i], t[j], C)
    BY <2>1, <2>2, <2>3 DEF closeby, Valid
  <2>5. Marked(t[i]) /\ Marked(t[j])
    BY <2>4
  <2> QED BY <1>1, <2>5 DEF MarkedSet
<1>7. CaughtUpTo(r, P, C, i, j)
  <2> SUFFICES ASSUME NEW a \in 1..Len(s), NEW b \in 1..Len(s), a < b, a < i \/ (a = i /\ b <= j)
               PROVE  Caught(r, P, C, a, b)
    BY <1>5 DEF CaughtUpTo
  <2>1. CASE a = i /\ b = j
    BY <1>6, <2>1
  <2>2. CASE ~(a = i /\ b = j)
    <3>1. a < i \/ (a = i /\ b <= j - 1)
      BY <1>1, <2>2
    <3>2. Caught(t, P, C, a, b)
      BY <1>1, <3>1 DEF CaughtUpTo
    <3> HIDE DEF r
    <3> QED BY <1>3, <1>4, <3>2 DEF Caught
  <2> QED BY <2>1, <2>2
<1> QED BY <1>2, <1>3, <1>7 DEF Marks

LEMMA MarkTurnClumps ==
  ASSUME NEW S, NEW s \in Seq(Entry(S)), NEW codeSigs, 0 \notin codeSigs, NEW t, Marks(S, s, t, codeSigs),
         NEW i \in 1..Len(s), CaughtUpTo(t, Pairs(s), codeSigs, i - 1, Len(s))
  PROVE  LET r == MarkTurn(codeSigs, t, i)
         IN Marks(S, s, r, codeSigs) /\ CaughtUpTo(r, Pairs(s), codeSigs, i, Len(s))
<1> DEFINE n == Len(s)  turn == TurnOf(t, i, codeSigs)  P == Pairs(s)
           Good(u, k) == Marks(S, s, u, codeSigs) /\ CaughtUpTo(u, P, codeSigs, i, k)
           I == {p \in (i..n) \X Seq(Entry(S)) : Good(p[2], p[1])}
           r == Marking!Iterate(turn, t, i, n)
<1>1. t \in Seq(Entry(S)) /\ Len(t) = n /\ n \in Nat
  BY DEF Marks, Relabelled
<1>2. turn.i = i /\ turn.codeSigs = codeSigs
  BY DEF TurnOf
<1> HIDE DEF turn
<1>3. <<i, t>> \in I
  <2>1. \A a, b \in 1..n : a < b /\ (a < i \/ (a = i /\ b <= i)) => a < i - 1 \/ (a = i - 1 /\ b <= n)
    BY <1>1
  <2>2. CaughtUpTo(t, P, codeSigs, i, i)
    BY <1>1, <2>1 DEF CaughtUpTo
  <2>3. i \in i..n
    BY <1>1
  <2> QED BY <1>1, <2>2, <2>3
<1>4. ASSUME NEW k \in i + 1..n, NEW u, <<k - 1, u>> \in I
      PROVE  <<k, MarkPair(turn, u, k)>> \in I
  <2> DEFINE v == MarkPair(turn, u, k)
  <2>1. Good(u, k - 1)
    BY <1>4
  <2>2. k \in 1..n /\ i < k /\ k \in i..n
    BY <1>1
  <2>3. Good(v, k)
    BY <1>2, <2>1, <2>2, MarkPairClumps
  <2>4. v \in Seq(Entry(S))
    BY <2>3 DEF Marks, Relabelled
  <2> HIDE DEF Good
  <2> QED BY <2>2, <2>3, <2>4
<1>5. <<n, r>> \in I
  <2> HIDE DEF I
  <2>1. i \in Int /\ n \in Int /\ i <= n
    BY <1>1
  <2> QED BY <1>3, <1>4, <2>1, Marking!LoopRule
<1>6. Loop(MarkPair, turn, t, i, n) = r
  BY Zenon DEF Loop, Marking!Iterate
<1>7. MarkTurn(codeSigs, t, i) = r
  BY <1>1, <1>6 DEF MarkTurn, Turn, turn
<1> HIDE DEF r
<1>8. Good(r, n)
  BY <1>5
<1> QED BY <1>7, <1>8

\* After pass 1 a clump is connected, and close blobs of different signatures are in clumps.
LEMMA MarkCloseClumps ==
  ASSUME NEW S, NEW s \in Seq(Entry(S)), NEW codeSigs, 0 \notin codeSigs,
         \A k \in 1..Len(s) : ~Marked(s[k])
  PROVE  LET r == MarkClose(s, codeSigs)
         IN Marks(S, s, r, codeSigs) /\ CaughtUpTo(r, Pairs(s), codeSigs, Len(s), Len(s))
<1> DEFINE n == Len(s)  P == Pairs(s)
           Good(u, k) == Marks(S, s, u, codeSigs) /\ CaughtUpTo(u, P, codeSigs, k, n)
           I == {p \in (0..n) \X Seq(Entry(S)) : Good(p[2], p[1])}
           r == MarkTurns!Iterate(codeSigs, s, 0, n)
<1>1. n \in Nat
  OBVIOUS
<1>2. <<0, s>> \in I
  <2>1. MarkedSet(s) = {}
    BY DEF MarkedSet
  <2>2. Cardinality(MarkedSet(s)) = 0
    BY <2>1, FS_EmptySet
  <2>3. Labelled(s, codeSigs, 0)
    <3>1. \A k \in 1..n : s[k].clump = 0
      BY DEF Marked
    <3> QED BY <3>1 DEF Labelled
  <2>4. Coherent(s, P)
    BY <2>1 DEF Coherent
  <2>5. CaughtUpTo(s, P, codeSigs, 0, n)
    BY <1>1 DEF CaughtUpTo
  <2> QED BY <1>1, <2>2, <2>3, <2>4, <2>5, RelabelledSelf DEF Marks
<1>3. ASSUME NEW k \in 0 + 1..n, NEW u, <<k - 1, u>> \in I
      PROVE  <<k, MarkTurn(codeSigs, u, k)>> \in I
  <2> DEFINE v == MarkTurn(codeSigs, u, k)
  <2>1. Good(u, k - 1) /\ k \in 1..n
    BY <1>3
  <2>2. Good(v, k)
    BY <2>1, MarkTurnClumps
  <2>3. v \in Seq(Entry(S))
    BY <2>2 DEF Marks, Relabelled
  <2> HIDE DEF Good
  <2> QED BY <2>1, <2>2, <2>3
<1>4. <<n, r>> \in I
  <2> HIDE DEF I
  <2>1. 0 \in Int /\ n \in Int /\ 0 <= n
    BY <1>1
  <2> QED BY <1>2, <1>3, <2>1, MarkTurns!LoopRule
<1>5. MarkClose(s, codeSigs) = r
  BY Zenon DEF MarkClose, Loop, MarkTurns!Iterate
<1> HIDE DEF r
<1>6. Good(r, n)
  BY <1>4
<1> QED BY <1>5, <1>6

\* Two close blobs that are in clumps are in one.
Joined(s, P, i, j) == <<i, j>> \in P /\ {i, j} \subseteq MarkedSet(s) => s[i].clump = s[j].clump

\* What the first i - 1 turns of pass 2, and the next one up to blob k, have joined.
JoinedUpTo(s, P, i, k) ==
  \A a, b \in 1..Len(s) : a < b /\ (a < i \/ (a = i /\ b <= k)) => Joined(s, P, a, b)

\* What pass 2 may have made of s so far: t, with connected clumps of the same blobs.
Merges(S, s, t, codeSigs, m) ==
  /\ Relabelled(S, s, t) /\ Labelled(t, codeSigs, m)
  /\ MarkedSet(t) = MarkedSet(s) /\ Coherent(t, Pairs(s))

\* What mergeClumps makes of the clumps of two close blobs.
ClumpsMerged(s, t, i, j, r) ==
  /\ {i, j} \subseteq MarkedSet(s) /\ <<i, j>> \in Pairs(s)
  /\ r = mergeClumps(t, t[i].clump, t[j].clump)

\* Merging the clumps of two close blobs parts nothing and keeps clumps connected.
LEMMA OneClumpLess ==
  ASSUME NEW S, NEW s \in Seq(Entry(S)), NEW codeSigs, NEW m, NEW t, Merges(S, s, t, codeSigs, m),
         NEW i, NEW j, NEW r, ClumpsMerged(s, t, i, j, r)
  PROVE  /\ Len(r) = Len(s) /\ MarkedSet(r) = MarkedSet(s) /\ Coherent(r, Pairs(s))
         /\ \A a, b \in 1..Len(s) : t[a].clump = t[b].clump => r[a].clump = r[b].clump
         /\ r[i].clump = r[j].clump /\ r[i].clump = t[i].clump
<1> DEFINE P == Pairs(s)  c0 == t[i].clump  c1 == t[j].clump
<1>1. t \in Seq(Entry(S)) /\ Len(t) = Len(s) /\ DOMAIN t = 1..Len(s) /\ Len(s) \in Nat
  BY DEF Merges, Relabelled
<1>2. \A k \in 1..Len(s) : t[k] \in Entry(S) /\ t[k].clump \in Nat
  BY PairsSame DEF Merges
<1>3. i \in 1..Len(s) /\ j \in 1..Len(s) /\ c0 \in Nat /\ c0 # 0 /\ c1 \in Nat /\ c1 # 0
  <2>1. i \in MarkedSet(t) /\ j \in MarkedSet(t)
    BY DEF Merges, ClumpsMerged
  <2> QED BY <1>1, <1>2, <2>1 DEF MarkedSet, Marked
<1> HIDE DEF P, c0, c1
<1>4. r = [k \in 1..Len(s) |-> IF t[k].clump = c1 THEN [t[k] EXCEPT !.clump = c0] ELSE t[k]]
  BY <1>1 DEF ClumpsMerged, mergeClumps, c0, c1
<1>5. \A k \in 1..Len(s) : r[k].clump = IF t[k].clump = c1 THEN c0 ELSE t[k].clump
  <2> SUFFICES ASSUME NEW k \in 1..Len(s)
               PROVE  r[k].clump = IF t[k].clump = c1 THEN c0 ELSE t[k].clump
    OBVIOUS
  <2>1. [t[k] EXCEPT !.clump = c0].clump = c0
    BY <1>2, <1>3, ClumpChanged
  <2> QED BY <1>4, <2>1
<1>6. Len(r) = Len(s)
  <2> DEFINE T == {r[k] : k \in 1..Len(s)}
  <2>1. r = [k \in 1..Len(s) |-> r[k]] /\ \A k \in 1..Len(s) : r[k] \in T
    BY <1>4
  <2> HIDE DEF T
  <2> QED BY <1>1, <2>1, FunctionIsSequence
<1>7. MarkedSet(r) = MarkedSet(t) /\ MarkedSet(t) = MarkedSet(s)
  <2>1. \A k \in 1..Len(s) : Marked(r[k]) <=> Marked(t[k])
    BY <1>3, <1>5 DEF Marked
  <2> QED BY <1>1, <1>6, <2>1 DEF MarkedSet, Merges
<1>8. Coherent(r, P)
  <2> SUFFICES ASSUME NEW X, Closed(X, r, P), NEW p \in MarkedSet(r), NEW q \in MarkedSet(r),
                      r[p].clump = r[q].clump, p \in X
               PROVE  q \in X
    BY DEF Coherent
  <2>1. Closed(X, t, P)
    BY <1>7 DEF Closed
  <2>2. \A a, b \in MarkedSet(t) : t[a].clump = t[b].clump /\ a \in X => b \in X
    BY <2>1 DEF Merges, Coherent, P
  <2>3. i \in X <=> j \in X
    BY <1>7 DEF Closed, Linked, P, ClumpsMerged
  <2>4. p \in 1..Len(s) /\ q \in 1..Len(s) /\ p \in MarkedSet(t) /\ q \in MarkedSet(t)
    BY <1>6, <1>7 DEF MarkedSet
  <2>5. i \in MarkedSet(t) /\ j \in MarkedSet(t)
    BY <1>7 DEF ClumpsMerged
  <2>6. \/ t[p].clump = t[q].clump
        \/ t[p].clump = c1 /\ t[q].clump = c0
        \/ t[p].clump = c0 /\ t[q].clump = c1
    BY <1>5, <2>4
  <2>7. CASE t[p].clump = t[q].clump
    BY <2>2, <2>4, <2>7
  <2>8. CASE t[p].clump = c1 /\ t[q].clump = c0
    BY <2>2, <2>3, <2>4, <2>5, <2>8 DEF c0, c1
  <2>9. CASE t[p].clump = c0 /\ t[q].clump = c1
    BY <2>2, <2>3, <2>4, <2>5, <2>9 DEF c0, c1
  <2> QED BY <2>6, <2>7, <2>8, <2>9
<1>9. \A a, b \in 1..Len(s) : t[a].clump = t[b].clump => r[a].clump = r[b].clump
  BY <1>5
<1>10. r[i].clump = c0 /\ r[j].clump = c0
  BY <1>3, <1>5 DEF c0, c1
<1> QED BY <1>6, <1>7, <1>8, <1>9, <1>10 DEF P, c0

LEMMA MergePairClumps ==
  ASSUME NEW S, NEW s \in Seq(Entry(S)), NEW turn, 0 \notin turn.codeSigs, NEW m \in Nat, NEW t,
         Merges(S, s, t, turn.codeSigs, m), NEW i \in MarkedSet(s), turn.i = i, turn.blob.clump = t[i].clump,
         NEW j \in 1..Len(s), i < j, JoinedUpTo(t, Pairs(s), i, j - 1)
  PROVE  LET r == MergePair(turn, t, j)
         IN /\ Merges(S, s, r, turn.codeSigs, m) /\ r[i].clump = t[i].clump
            /\ JoinedUpTo(r, Pairs(s), i, j)
<1> DEFINE r == MergePair(turn, t, j)
           P == Pairs(s)
           C == turn.codeSigs
           cond == Marked(t[j]) /\ t[j].clump # t[i].clump /\ closeby(t[i], t[j], C)
<1>1. t \in Seq(Entry(S)) /\ Len(t) = Len(s) /\ Len(s) \in Nat
  BY DEF Merges, Relabelled
<1>2. i \in 1..Len(s) /\ MarkedSet(t) = MarkedSet(s)
  BY DEF MarkedSet, Merges
<1>3. t[i].clump \in 1..m
  <2>1. t[i].clump \in Nat /\ t[i].clump # 0 /\ t[i].clump <= m
    <3>1. t[i].clump \in Nat
      BY <1>2, PairsSame DEF Merges
    <3> QED BY <1>1, <1>2, <3>1 DEF MarkedSet, Marked, Merges, Labelled
  <2> QED BY <2>1
<1>4. Relabelled(S, s, r) /\ Labelled(r, C, m)
  BY <1>3, MergePairEffect DEF Merges
<1>5. Len(r) = Len(s)
  BY <1>4 DEF Relabelled
<1>6. \A k \in 1..Len(s) : t[k].sig = s[k].sig /\ t[k] \in Entry(S) /\ t[k].clump \in Nat
  BY PairsSame DEF Merges
<1>7. Pairs(t) = P
  BY PairsSame DEF Merges
<1>8. /\ MarkedSet(r) = MarkedSet(s) /\ Coherent(r, P) /\ r[i].clump = t[i].clump
      /\ \A a, b \in 1..Len(s) : t[a].clump = t[b].clump => r[a].clump = r[b].clump
      /\ (r = t /\ ~cond) \/ r[i].clump = r[j].clump
  <2>1. CASE ~cond
    <3>1. r = t
      BY <2>1, Zenon DEF MergePair
    <3> QED BY <1>2, <2>1, <3>1 DEF Merges
  <2>2. CASE cond
    <3>1. r = mergeClumps(t, t[i].clump, t[j].clump)
      BY <2>2, Zenon DEF MergePair
    <3>2. j \in MarkedSet(s)
      BY <1>1, <1>2, <2>2 DEF MarkedSet
    <3>3. <<i, j>> \in P
      BY <1>1, <1>2, <1>7, <2>2, PairIs DEF closeby
    <3> HIDE DEF r, cond
    <3>4. ClumpsMerged(s, t, i, j, r)
      BY <3>1, <3>2, <3>3 DEF ClumpsMerged
    <3>5. /\ MarkedSet(r) = MarkedSet(s) /\ Coherent(r, P)
          /\ \A a, b \in 1..Len(s) : t[a].clump = t[b].clump => r[a].clump = r[b].clump
          /\ r[i].clump = r[j].clump /\ r[i].clump = t[i].clump
      BY <3>4, OneClumpLess
    <3> QED BY <3>5
  <2> QED BY <2>1, <2>2
<1>9. Joined(r, P, i, j)
  <2> SUFFICES ASSUME <<i, j>> \in P, j \in MarkedSet(s), r = t, ~cond
               PROVE  t[i].clump = t[j].clump
    BY <1>8 DEF Joined
  <2>1. distance(t[i], t[j]) <= m_maxCodedDist
    BY <1>1, <1>2, <1>7, PairIs
  <2>2. Marked(t[i]) /\ Marked(t[j])
    BY <1>2 DEF MarkedSet
  <2>3. t[i].sig \in C /\ t[j].sig \in C
    BY <1>1, <1>2, <2>2 DEF Merges, Labelled
  <2> HIDE DEF r
  <2> SUFFICES ASSUME t[i].clump # t[j].clump PROVE FALSE
    OBVIOUS
  <2>4. <<t[i].sig, t[i].clump>> # <<t[j].sig, t[j].clump>>
    OBVIOUS
  <2>5. closeby(t[i], t[j], C)
    BY <2>1, <2>3, <2>4 DEF closeby, Valid
  <2> QED BY <2>2, <2>5
<1>10. JoinedUpTo(r, P, i, j)
  <2> SUFFICES ASSUME NEW a \in 1..Len(s), NEW b \in 1..Len(s), a < b, a < i \/ (a = i /\ b <= j)
               PROVE  Joined(r, P, a, b)
    BY <1>5 DEF JoinedUpTo
  <2>1. CASE a = i /\ b = j
    BY <1>9, <2>1
  <2>2. CASE ~(a = i /\ b = j)
    <3>1. a < i \/ (a = i /\ b <= j - 1)
      BY <1>1, <1>2, <2>2
    <3>2. Joined(t, P, a, b)
      BY <1>1, <3>1 DEF JoinedUpTo
    <3> HIDE DEF r
    <3> QED BY <1>2, <1>8, <3>2 DEF Joined
  <2> QED BY <2>1, <2>2
<1> QED BY <1>4, <1>8, <1>10 DEF Merges

LEMMA MergeTurnClumps ==
  ASSUME NEW S, NEW s \in Seq(Entry(S)), NEW codeSigs, 0 \notin codeSigs, NEW m \in Nat, NEW t,
         Merges(S, s, t, codeSigs, m), NEW i \in 1..Len(s), JoinedUpTo(t, Pairs(s), i - 1, Len(s))
  PROVE  LET r == MergeTurn(codeSigs, t, i)
         IN Merges(S, s, r, codeSigs, m) /\ JoinedUpTo(r, Pairs(s), i, Len(s))
<1> DEFINE n == Len(s)  turn == TurnOf(t, i, codeSigs)  P == Pairs(s)
           Good(u, k) == /\ Merges(S, s, u, codeSigs, m) /\ u[i].clump = t[i].clump
                         /\ JoinedUpTo(u, P, i, k)
           I == {p \in (i..n) \X Seq(Entry(S)) : Good(p[2], p[1])}
           r == Merging!Iterate(turn, t, i, n)
<1>1. t \in Seq(Entry(S)) /\ Len(t) = n /\ n \in Nat /\ MarkedSet(t) = MarkedSet(s)
  BY DEF Merges, Relabelled
<1>2. \A a, b \in 1..n : a < b /\ (a < i \/ (a = i /\ b <= i)) => a < i - 1 \/ (a = i - 1 /\ b <= n)
  BY <1>1
<1>3. CASE Marked(t[i])
  <2>1. turn.i = i /\ turn.codeSigs = codeSigs /\ turn.blob.clump = t[i].clump
    BY DEF TurnOf
  <2>2. i \in MarkedSet(s)
    BY <1>1, <1>3 DEF MarkedSet
  <2> HIDE DEF turn
  <2>3. <<i, t>> \in I
    <3>1. JoinedUpTo(t, P, i, i)
      BY <1>1, <1>2 DEF JoinedUpTo
    <3>2. i \in i..n
      BY <1>1
    <3> QED BY <1>1, <3>1, <3>2
  <2>4. ASSUME NEW k \in i + 1..n, NEW u, <<k - 1, u>> \in I
        PROVE  <<k, MergePair(turn, u, k)>> \in I
    <3> DEFINE v == MergePair(turn, u, k)
    <3>1. Good(u, k - 1)
      BY <2>4
    <3>2. k \in 1..n /\ i < k /\ k \in i..n
      BY <1>1
    <3>3. Good(v, k)
      BY <2>1, <2>2, <3>1, <3>2, MergePairClumps
    <3>4. v \in Seq(Entry(S))
      BY <3>3 DEF Merges, Relabelled
    <3> HIDE DEF Good
    <3> QED BY <3>2, <3>3, <3>4
  <2>5. <<n, r>> \in I
    <3> HIDE DEF I
    <3>1. i \in Int /\ n \in Int /\ i <= n
      BY <1>1
    <3> QED BY <2>3, <2>4, <3>1, Merging!LoopRule
  <2>6. Loop(MergePair, turn, t, i, n) = r
    BY Zenon DEF Loop, Merging!Iterate
  <2>7. MergeTurn(codeSigs, t, i) = r
    BY <1>1, <1>3, <2>6 DEF MergeTurn, Turn, turn
  <2> HIDE DEF r
  <2>8. Good(r, n)
    BY <2>5
  <2> QED BY <2>7, <2>8
<1>4. CASE ~Marked(t[i])
  <2>1. MergeTurn(codeSigs, t, i) = t
    BY <1>4, Zenon DEF MergeTurn
  <2>2. i \notin MarkedSet(t)
    BY <1>4 DEF MarkedSet
  <2>3. JoinedUpTo(t, P, i, n)
    <3> SUFFICES ASSUME NEW a \in 1..n, NEW b \in 1..n, a < b, a < i PROVE Joined(t, P, a, b)
      BY <1>1, <2>2 DEF JoinedUpTo, Joined
    <3>1. a < i - 1 \/ (a = i - 1 /\ b <= n)
      BY <1>1
    <3> QED BY <1>1, <3>1 DEF JoinedUpTo
  <2> QED BY <2>1, <2>3
<1> QED BY <1>3, <1>4

\* After pass 2 close blobs that are in clumps are in one.
LEMMA MergeCloseClumps ==
  ASSUME NEW S, NEW s \in Seq(Entry(S)), NEW codeSigs, 0 \notin codeSigs, NEW m \in Nat,
         Labelled(s, codeSigs, m), Coherent(s, Pairs(s))
  PROVE  LET r == MergeClose(s, codeSigs)
         IN Merges(S, s, r, codeSigs, m) /\ JoinedUpTo(r, Pairs(s), Len(s), Len(s))
<1> DEFINE n == Len(s)  P == Pairs(s)
           Good(u, k) == Merges(S, s, u, codeSigs, m) /\ JoinedUpTo(u, P, k, n)
           I == {p \in (0..n) \X Seq(Entry(S)) : Good(p[2], p[1])}
           r == MergeTurns!Iterate(codeSigs, s, 0, n)
<1>1. n \in Nat
  OBVIOUS
<1>2. <<0, s>> \in I
  <2>1. JoinedUpTo(s, P, 0, n)
    BY <1>1 DEF JoinedUpTo
  <2> QED BY <1>1, <2>1, RelabelledSelf DEF Merges
<1>3. ASSUME NEW k \in 0 + 1..n, NEW u, <<k - 1, u>> \in I
      PROVE  <<k, MergeTurn(codeSigs, u, k)>> \in I
  <2> DEFINE v == MergeTurn(codeSigs, u, k)
  <2>1. Good(u, k - 1) /\ k \in 1..n
    BY <1>3
  <2>2. Good(v, k)
    BY <2>1, MergeTurnClumps
  <2>3. v \in Seq(Entry(S))
    BY <2>2 DEF Merges, Relabelled
  <2> HIDE DEF Good
  <2> QED BY <2>1, <2>2, <2>3
<1>4. <<n, r>> \in I
  <2> HIDE DEF I
  <2>1. 0 \in Int /\ n \in Int /\ 0 <= n
    BY <1>1
  <2> QED BY <1>2, <1>3, <2>1, MergeTurns!LoopRule
<1>5. MergeClose(s, codeSigs) = r
  BY Zenon DEF MergeClose, Loop, MergeTurns!Iterate
<1> HIDE DEF r
<1>6. Good(r, n)
  BY <1>4
<1> QED BY <1>5, <1>6

\* What the first two passes of processCC leave: clumps are connected, hold what is close
\* and of different signatures, and are not close to one another.
AreClumps(s, codeSigs) ==
  /\ Coherent(s, Pairs(s))
  /\ \A i, j \in 1..Len(s) : i < j => Caught(s, Pairs(s), codeSigs, i, j) /\ Joined(s, Pairs(s), i, j)

LEMMA ClumpsMade ==
  ASSUME NEW S, NEW s \in Seq(Entry(S)), NEW codeSigs, 0 \notin codeSigs,
         \A k \in 1..Len(s) : ~Marked(s[k])
  PROVE  AreClumps(MergeClose(MarkClose(s, codeSigs), codeSigs), codeSigs)
<1> DEFINE n == Len(s)  P == Pairs(s)
           t == MarkClose(s, codeSigs)  r == MergeClose(t, codeSigs)
<1>1. Marks(S, s, t, codeSigs) /\ CaughtUpTo(t, P, codeSigs, n, n)
  BY MarkCloseClumps
<1>2. Labelled(t, codeSigs, n) /\ n \in Nat
  BY MarkCloseEffect
<1> HIDE DEF t
<1>3. t \in Seq(Entry(S)) /\ Len(t) = n /\ Pairs(t) = P /\ Coherent(t, P)
  <2>1. Relabelled(S, s, t) /\ Coherent(t, P)
    BY <1>1 DEF Marks
  <2> QED BY <2>1, PairsSame DEF Relabelled
<1>4. Merges(S, t, r, codeSigs, n) /\ JoinedUpTo(r, P, n, n)
  <2>1. Coherent(t, Pairs(t))
    BY <1>3
  <2>2. /\ Merges(S, t, MergeClose(t, codeSigs), codeSigs, n)
        /\ JoinedUpTo(MergeClose(t, codeSigs), Pairs(t), Len(t), Len(t))
    BY <1>2, <1>3, <2>1, MergeCloseClumps
  <2> QED BY <1>3, <2>2
<1> HIDE DEF r
<1>5. /\ Len(r) = n /\ Pairs(r) = P /\ Coherent(r, P) /\ MarkedSet(r) = MarkedSet(t)
      /\ \A k \in 1..n : r[k].sig = t[k].sig
  <2>1. Relabelled(S, t, r) /\ Coherent(r, P) /\ MarkedSet(r) = MarkedSet(t)
    BY <1>3, <1>4 DEF Merges
  <2>2. Pairs(r) = Pairs(t) /\ \A k \in 1..Len(t) : r[k].sig = t[k].sig
    BY <1>3, <2>1, PairsSame
  <2>3. Len(r) = Len(t)
    BY <2>1 DEF Relabelled
  <2> QED BY <1>3, <2>1, <2>2, <2>3
<1>6. ASSUME NEW i \in 1..n, NEW j \in 1..n, i < j
      PROVE  Caught(r, P, codeSigs, i, j) /\ Joined(r, P, i, j)
  <2>1. i < n \/ (i = n /\ j <= n)
    BY <1>2, <1>6
  <2>2. Caught(t, P, codeSigs, i, j)
    BY <1>1, <1>3, <1>6, <2>1 DEF CaughtUpTo
  <2>3. Joined(r, P, i, j)
    BY <1>4, <1>5, <1>6, <2>1 DEF JoinedUpTo
  <2> QED BY <1>5, <2>2, <2>3 DEF Caught
<1> QED BY <1>5, <1>6 DEF AreClumps, r, t

-----------------------------------------------------------------------------
(* Codes as numbers.                                                       *)

LEMMA LastDigit ==
  ASSUME NEW a \in Nat, NEW d \in 1..7
  PROVE  (8 * a + d) \div 8 = a /\ (8 * a + d) % 8 = d
OBVIOUS

LEMMA PowerIsPositive ==
  ASSUME NEW n \in Nat
  PROVE  EightTo(n) \in Nat \ {0}
<1> DEFINE I == {p \in (0..n) \X (Nat \ {0}) : TRUE}  r == Powers!Iterate({}, 1, 0, n)
<1>1. <<0, 1>> \in I
  OBVIOUS
<1>2. ASSUME NEW k \in 0 + 1..n, NEW v, <<k - 1, v>> \in I PROVE <<k, TimesEight({}, v, k)>> \in I
  BY <1>2 DEF TimesEight
<1>3. <<n, r>> \in I
  <2> HIDE DEF I
  <2> QED BY <1>1, <1>2, Powers!LoopRule
<1>4. EightTo(n) = r
  BY Zenon DEF EightTo, Loop, Powers!Iterate
<1> HIDE DEF r
<1> QED BY <1>3, <1>4

LEMMA PowerStep ==
  ASSUME NEW n \in Nat
  PROVE  EightTo(n + 1) = 8 * EightTo(n) /\ EightTo(0) = 1
<1> DEFINE Is(f, m) == f = [k \in 0..m |-> IF k = 0 THEN 1 ELSE 8 * f[k - 1]]
<1>1. ASSUME NEW m \in Nat PROVE \E f : Is(f, m) /\ EightTo(m) = f[m]
  <2>1. PICK f : Powers!IsIteration(f, {}, 1, 0, m) /\ Powers!Iterate({}, 1, 0, m) = f[m]
    BY Powers!LoopValues
  <2>2. EightTo(m) = f[m]
    <3>1. EightTo(m) = Powers!Iterate({}, 1, 0, m)
      BY Zenon DEF EightTo, Loop, Powers!Iterate
    <3> QED BY <2>1, <3>1
  <2>3. Is(f, m)
    BY <2>1, Zenon DEF Powers!IsIteration, TimesEight
  <2> QED BY <2>2, <2>3
<1>2. PICK f : Is(f, n) /\ EightTo(n) = f[n]
  BY <1>1, Zenon
<1>3. PICK g : Is(g, n + 1) /\ EightTo(n + 1) = g[n + 1]
  <2>1. n + 1 \in Nat
    OBVIOUS
  <2> QED BY <1>1, <2>1, Zenon
<1> HIDE DEF Is
<1>4. \A k \in 0..n : f[k] = g[k]
  <2> DEFINE K == {k \in 0..n : f[k] = g[k]}
  <2>1. 0 \in K
    BY <1>2, <1>3 DEF Is
  <2>2. ASSUME NEW k \in 0 + 1..n, k - 1 \in K PROVE k \in K
    <3>1. f[k] = 8 * f[k - 1] /\ g[k] = 8 * g[k - 1]
      BY <1>2, <1>3 DEF Is
    <3> QED BY <2>2, <3>1
  <2>3. \A k \in 0..n : k \in K
    <3> HIDE DEF K
    <3> QED BY <2>1, <2>2, Powers!RangeInduction
  <2> QED BY <2>3
<1>5. g[n + 1] = 8 * g[n]
  BY <1>3 DEF Is
<1>6. EightTo(n + 1) = 8 * EightTo(n)
  BY <1>2, <1>3, <1>4, <1>5
<1>7. EightTo(0) = 1
  <2>1. 0 \in Nat
    OBVIOUS
  <2>2. PICK h : Is(h, 0) /\ EightTo(0) = h[0]
    BY <1>1, <2>1, Zenon
  <2> QED BY <2>2 DEF Is
<1> QED BY <1>6, <1>7

\* The code of n signatures has just n digits, which are the signatures.
LEMMA CodeDigits ==
  ASSUME NEW sigs \in Seq(1..7), NEW n, n = Len(sigs), n \in 1..MAX_COLOR_CODE_MODELS
  PROVE  Code(sigs) \in 1..EightTo(MAX_COLOR_CODE_MODELS) - 1 /\ Digits(Code(sigs)) = sigs
<1> DEFINE M == MAX_COLOR_CODE_MODELS
<1>1. M \in Nat /\ n \in Nat /\ 1 <= n /\ n <= M
  BY TableAssumption
<1>2. \A k \in 1..n : sigs[k] \in 1..7
  OBVIOUS
<1>3. PICK f : f = [k \in 0..n |-> IF k = 0 THEN 0 ELSE 8 * f[k - 1] + sigs[k]] /\ Code(sigs) = f[n]
  <2>1. PICK f : Numbers!IsIteration(f, sigs, 0, 0, n) /\ Numbers!Iterate(sigs, 0, 0, n) = f[n]
    BY <1>1, Numbers!LoopValues
  <2>2. f = [k \in 0..n |-> IF k = 0 THEN 0 ELSE 8 * f[k - 1] + sigs[k]]
    BY <2>1, Zenon DEF Numbers!IsIteration, NextDigit
  <2>3. Code(sigs) = Numbers!Iterate(sigs, 0, 0, n)
    BY Zenon DEF Code, Loop, Numbers!Iterate
  <2> QED BY <2>1, <2>2, <2>3
<1>4. f[0] = 0 /\ \A k \in 1..n : f[k] = 8 * f[k - 1] + sigs[k]
  BY <1>1, <1>3
\* The values, and that they grow with their digits.
<1>5. \A k \in 0..n : f[k] \in Nat /\ (k # 0 => f[k] # 0) /\ f[k] < EightTo(k)
  <2> DEFINE K == {k \in 0..n : f[k] \in Nat /\ (k # 0 => f[k] # 0) /\ f[k] < EightTo(k)}
  <2>1. 0 \in K
    <3>1. 0 \in Nat
      OBVIOUS
    <3>2. EightTo(0) = 1
      BY <3>1, PowerStep
    <3> QED BY <1>1, <1>4, <3>2
  <2>2. ASSUME NEW k \in 0 + 1..n, k - 1 \in K PROVE k \in K
    <3>1. f[k - 1] \in Nat /\ f[k - 1] < EightTo(k - 1) /\ k - 1 \in Nat /\ (k - 1) + 1 = k
      BY <2>2
    <3>2. EightTo(k - 1) \in Nat
      BY <3>1, PowerIsPositive
    <3>3. EightTo((k - 1) + 1) = 8 * EightTo(k - 1)
      BY <3>1, PowerStep
    <3>4. f[k] = 8 * f[k - 1] + sigs[k] /\ sigs[k] \in 1..7
      BY <1>2, <1>4
    <3>5. f[k] \in Nat /\ f[k] # 0 /\ f[k] < 8 * EightTo(k - 1)
      <4> DEFINE a == f[k - 1]  b == EightTo(k - 1)  d == sigs[k]  e == f[k]
      <4>1. a \in Nat /\ b \in Nat /\ a < b /\ d \in 1..7 /\ e = 8 * a + d
        BY <3>1, <3>2, <3>4
      <4> HIDE DEF a, b, d, e
      <4>2. e \in Nat /\ e # 0 /\ e < 8 * b
        BY <4>1
      <4> QED BY <4>2 DEF b, e
    <3> QED BY <3>1, <3>3, <3>5
  <2>3. \A k \in 0..n : k \in K
    <3> HIDE DEF K
    <3>1. 0 \in Int /\ n \in Int /\ M \in Int
      BY <1>1
    <3> QED BY <2>1, <2>2, <3>1, Powers!RangeInduction
  <2> QED BY <2>3
<1>6. ASSUME NEW j \in 0..n PROVE Without(f[n], j) = f[n - j]
  <2> DEFINE I == {p \in (0..n) \X Nat : p[2] = f[n - p[1]]}
             r == Shifts!Iterate({}, f[n], 0, j)
  <2>1. <<0, f[n]>> \in I
    BY <1>1, <1>5
  <2>2. ASSUME NEW k \in 0 + 1..j, NEW v, <<k - 1, v>> \in I PROVE <<k, DropDigit({}, v, k)>> \in I
    <3>1. v = f[n - (k - 1)]
      BY <2>2
    <3>2. n - (k - 1) \in 1..n /\ (n - (k - 1)) - 1 = n - k /\ n - k \in 0..n
      BY <1>1
    <3>3. v = 8 * f[n - k] + sigs[n - (k - 1)] /\ sigs[n - (k - 1)] \in 1..7 /\ f[n - k] \in Nat
      BY <1>2, <1>4, <1>5, <3>1, <3>2
    <3>4. v \div 8 = f[n - k]
      BY <3>3, LastDigit
    <3>5. DropDigit({}, v, k) = f[n - k] /\ k \in 0..n
      BY <1>1, <3>4 DEF DropDigit
    <3> QED BY <3>3, <3>5
  <2>3. <<j, r>> \in I
    <3> HIDE DEF I
    <3>1. 0 \in Int /\ j \in Int /\ 0 <= j
      OBVIOUS
    <3> QED BY <2>1, <2>2, <3>1, Shifts!LoopRule
  <2>4. Without(f[n], j) = r
    BY Zenon DEF Without, Loop, Shifts!Iterate
  <2> HIDE DEF r
  <2> QED BY <2>3, <2>4
<1> DEFINE c == f[n]
           length == CHOOSE k \in 1..M : Without(c, k) = 0 /\ \A l \in 1..k - 1 : Without(c, l) # 0
<1>7. Without(c, n) = 0 /\ \A l \in 1..n - 1 : Without(c, l) # 0
  <2>1. Without(c, n) = 0
    BY <1>1, <1>4, <1>6
  <2>2. ASSUME NEW l \in 1..n - 1 PROVE Without(c, l) # 0
    <3>1. l \in 0..n /\ n - l \in 0..n /\ n - l # 0
      BY <1>1
    <3> QED BY <1>5, <1>6, <3>1
  <2> QED BY <2>1, <2>2
<1> HIDE DEF c
<1>8. length = n
  <2>1. n \in 1..M
    BY <1>1
  <2>2. length \in 1..M /\ Without(c, length) = 0 /\ \A l \in 1..length - 1 : Without(c, l) # 0
    BY <1>7, <2>1
  <2> HIDE DEF length
  <2>3. ~(length < n)
    BY <1>7, <2>2
  <2>4. ~(n < length)
    BY <1>1, <1>7, <2>2
  <2> QED BY <1>1, <2>2, <2>3, <2>4
<1>9. Digits(c) = [k \in 1..length |-> Without(c, length - k) % 8]
  BY Zenon DEF Digits
<1> HIDE DEF length
<1>10. Digits(c) = [k \in 1..n |-> Without(c, n - k) % 8]
  BY <1>8, <1>9
<1>11. ASSUME NEW k \in 1..n PROVE Without(c, n - k) % 8 = sigs[k]
  <2>1. n - k \in 0..n /\ n - (n - k) = k /\ k - 1 \in 0..n
    BY <1>1
  <2>2. Without(c, n - k) = f[k]
    BY <1>6, <2>1 DEF c
  <2>3. f[k] = 8 * f[k - 1] + sigs[k] /\ sigs[k] \in 1..7 /\ f[k - 1] \in Nat
    BY <1>2, <1>4, <1>5, <2>1
  <2>4. f[k] % 8 = sigs[k]
    BY <2>3
  <2> QED BY <2>2, <2>4
<1>12. sigs = [k \in 1..n |-> sigs[k]]
  OBVIOUS
<1>13. Digits(c) = sigs
  BY <1>10, <1>11, <1>12
<1>14. c \in Nat \ {0} /\ c < EightTo(n)
  BY <1>1, <1>5 DEF c
<1>15. \A k \in n..M : EightTo(n) <= EightTo(k)
  <2> DEFINE K == {k \in n..M : EightTo(n) <= EightTo(k)}
  <2>1. n \in K
    <3>1. EightTo(n) \in Nat
      BY <1>1, PowerIsPositive
    <3> QED BY <1>1, <3>1
  <2>2. ASSUME NEW k \in n + 1..M, k - 1 \in K PROVE k \in K
    <3>1. k - 1 \in Nat /\ (k - 1) + 1 = k /\ EightTo(n) <= EightTo(k - 1)
      BY <1>1, <2>2
    <3>2. EightTo(k - 1) \in Nat /\ EightTo(n) \in Nat
      BY <1>1, <3>1, PowerIsPositive
    <3>3. EightTo((k - 1) + 1) = 8 * EightTo(k - 1)
      BY <3>1, PowerStep
    <3> QED BY <1>1, <3>1, <3>2, <3>3
  <2>3. \A k \in n..M : k \in K
    <3> HIDE DEF K
    <3>1. 0 \in Int /\ n \in Int /\ M \in Int
      BY <1>1
    <3> QED BY <2>1, <2>2, <3>1, Powers!RangeInduction
  <2> QED BY <2>3
<1>16. c \in 1..EightTo(M) - 1
  <2>1. EightTo(n) <= EightTo(M) /\ EightTo(n) \in Nat /\ EightTo(M) \in Nat
    BY <1>1, <1>15, PowerIsPositive
  <2> QED BY <1>14, <2>1
<1> QED BY <1>3, <1>13, <1>16 DEF c

\* The signatures of a colour code.
ColorCode(sigs, codeSigs) ==
  /\ sigs \in Seq(codeSigs) /\ Len(sigs) \in 2..MAX_COLOR_CODE_MODELS
  /\ \A k \in 1..Len(sigs) - 1 : sigs[k] # sigs[k + 1]

LEMMA ReverseProperties ==
  ASSUME NEW T, NEW s \in Seq(T)
  PROVE  /\ Reverse(s) \in Seq(T) /\ Len(Reverse(s)) = Len(s)
         /\ \A k \in 1..Len(s) : Reverse(s)[k] = s[Len(s) - k + 1]
         /\ Reverse(Reverse(s)) = s
<1> DEFINE n == Len(s)  r == Reverse(s)
<1>1. n \in Nat
  OBVIOUS
<1>2. r = [k \in 1..n |-> s[n - k + 1]]
  BY Zenon DEF Reverse
<1>3. \A k \in 1..n : r[k] = s[n - k + 1] /\ n - k + 1 \in 1..n
  BY <1>1, <1>2
<1> HIDE DEF r
<1>4. r \in Seq(T) /\ Len(r) = n
  <2>1. r = [k \in 1..n |-> r[k]]
    BY <1>2, <1>3
  <2>2. \A k \in 1..n : r[k] \in T
    BY <1>3
  <2> QED BY <1>1, <2>1, <2>2, FunctionIsSequence
<1>5. Reverse(r) = [k \in 1..n |-> r[n - k + 1]]
  BY <1>4 DEF Reverse
<1>6. s = [k \in 1..n |-> s[k]]
  OBVIOUS
<1>7. \A k \in 1..n : r[n - k + 1] = s[k]
  BY <1>1, <1>3
<1>8. Reverse(r) = s
  BY <1>5, <1>6, <1>7
<1> QED BY <1>3, <1>4, <1>8 DEF r

\* The smaller of the two readings of a colour code reads as a colour code, not greater
\* than its own other reading.
LEMMA SmallerCodeEffect ==
  ASSUME NEW codeSigs, codeSigs \subseteq 1..7, NEW sigs, ColorCode(sigs, codeSigs),
         NEW c, c = SmallerCode(sigs)
  PROVE  /\ c \in 1..EightTo(MAX_COLOR_CODE_MODELS) - 1
         /\ ColorCode(Digits(c), codeSigs) /\ c <= Code(Reverse(Digits(c)))
<1> DEFINE back == Reverse(sigs)  n == Len(sigs)
<1>1. sigs \in Seq(codeSigs) /\ n \in 2..MAX_COLOR_CODE_MODELS /\ n \in 1..MAX_COLOR_CODE_MODELS
  BY TableAssumption DEF ColorCode
<1>2. /\ back \in Seq(codeSigs) /\ Len(back) = n /\ Reverse(back) = sigs
      /\ \A k \in 1..n : back[k] = sigs[n - k + 1]
  BY <1>1, ReverseProperties
<1>3. sigs \in Seq(1..7) /\ back \in Seq(1..7)
  BY <1>1, <1>2, SeqOfMore
<1> HIDE DEF back
<1>4. Code(sigs) \in 1..EightTo(MAX_COLOR_CODE_MODELS) - 1 /\ Digits(Code(sigs)) = sigs
  BY <1>1, <1>3, CodeDigits
<1>5. Code(back) \in 1..EightTo(MAX_COLOR_CODE_MODELS) - 1 /\ Digits(Code(back)) = back
  BY <1>1, <1>2, <1>3, CodeDigits
<1>6. ColorCode(back, codeSigs)
  <2>1. ASSUME NEW k \in 1..n - 1 PROVE back[k] # back[k + 1]
    <3>1. k \in 1..n /\ k + 1 \in 1..n /\ n - k \in 1..n - 1 /\ n - (k + 1) + 1 = n - k
      BY <1>1
    <3>2. back[k] = sigs[(n - k) + 1] /\ back[k + 1] = sigs[n - k]
      BY <1>2, <3>1
    <3>3. sigs[n - k] # sigs[(n - k) + 1]
      BY <3>1 DEF ColorCode
    <3> QED BY <3>2, <3>3
  <2> QED BY <1>1, <1>2, <2>1 DEF ColorCode
<1>7. c = IF Code(sigs) < Code(back) THEN Code(sigs) ELSE Code(back)
  BY Zenon DEF SmallerCode, back
<1>8. CASE Code(sigs) < Code(back)
  <2>1. c = Code(sigs)
    BY <1>7, <1>8
  <2>2. Code(Reverse(Digits(c))) = Code(back)
    BY <1>4, <2>1 DEF back
  <2> QED BY <1>4, <1>5, <1>8, <2>1, <2>2
<1>9. CASE ~(Code(sigs) < Code(back))
  <2>1. c = Code(back)
    BY <1>7, <1>9
  <2>2. Code(Reverse(Digits(c))) = Code(sigs)
    BY <1>2, <1>5, <2>1
  <2> QED BY <1>4, <1>5, <1>6, <1>9, <2>1, <2>2
<1> QED BY <1>8, <1>9

-----------------------------------------------------------------------------
(* The members of a clump.                                                 *)

LEMMA MembersEffect ==
  ASSUME NEW S, NEW s \in Seq(Entry(S)), NEW clump
  PROVE  MembersOf(s, clump) \in Seq({k \in 1..Len(s) : s[k].clump = clump})
<1> DEFINE n == Len(s)  T == {k \in 1..n : s[k].clump = clump}
           c == [blobs |-> s, clump |-> clump]
           I == {p \in (0..n) \X Seq(T) : TRUE}
           r == Gathering!Iterate(c, <<>>, 0, n)
<1>1. n \in Nat
  OBVIOUS
<1>2. <<0, <<>>>> \in I
  <2> DEFINE none == <<>>
  <2>1. none \in Seq(T)
    BY EmptySeq
  <2> HIDE DEF none
  <2>2. <<0, none>> \in I
    BY <1>1, <2>1
  <2> QED BY <2>2 DEF none
<1>3. ASSUME NEW k \in 0 + 1..n, NEW v, <<k - 1, v>> \in I PROVE <<k, AddMember(c, v, k)>> \in I
  <2>1. v \in Seq(T) /\ k \in 0..n /\ k \in 1..n
    BY <1>3
  <2>2. CASE AddMember(c, v, k) = v
    BY <2>1, <2>2
  <2>3. CASE AddMember(c, v, k) = Append(v, k) /\ s[k].clump = clump
    <3>1. k \in T
      BY <2>1, <2>3
    <3> HIDE DEF T
    <3>2. Append(v, k) \in Seq(T)
      BY <2>1, <3>1, AppendProperties
    <3> QED BY <2>1, <2>3, <3>2
  <2>4. AddMember(c, v, k) = v \/ (AddMember(c, v, k) = Append(v, k) /\ s[k].clump = clump)
    BY DEF AddMember
  <2> QED BY <2>2, <2>3, <2>4
<1>4. <<n, r>> \in I
  <2> HIDE DEF I, c
  <2>1. 0 \in Int /\ n \in Int /\ 0 <= n
    BY <1>1
  <2> QED BY <1>2, <1>3, <2>1, Gathering!LoopRule
<1>5. MembersOf(s, clump) = r
  BY Zenon DEF MembersOf, Loop, Gathering!Iterate
<1> HIDE DEF r, T
<1>6. r \in Seq(T)
  BY <1>4
<1> QED BY <1>5, <1>6 DEF T

LEMMA CleanupEffect ==
  ASSUME NEW blobs, NEW T, NEW members \in Seq(T)
  PROVE  cleanup(blobs, members) \in Seq(T)
<1> DEFINE n == Len(members)
           I == {p \in (0..n) \X Seq(T) : TRUE}
<1>1. n \in Nat
  OBVIOUS
<1>2. ASSUME NEW area, NEW c, c = [blobs |-> blobs, members |-> members, area |-> area]
      PROVE  Loop(KeepSimilar, c, <<>>, 0, n) \in Seq(T)
  <2> DEFINE r == Sizing!Iterate(c, <<>>, 0, n)
  <2>1. <<0, <<>>>> \in I
    <3> DEFINE none == <<>>
    <3>1. none \in Seq(T)
      BY EmptySeq
    <3> HIDE DEF none
    <3>2. <<0, none>> \in I
      BY <1>1, <3>1
    <3> QED BY <3>2 DEF none
  <2>2. ASSUME NEW k \in 0 + 1..n, NEW v, <<k - 1, v>> \in I PROVE <<k, KeepSimilar(c, v, k)>> \in I
    <3>1. v \in Seq(T) /\ k \in 0..n /\ members[k] \in T /\ c.members[k] = members[k]
      BY <1>2, <2>2
    <3>2. Append(v, members[k]) \in Seq(T)
      BY <3>1, AppendProperties
    <3>3. KeepSimilar(c, v, k) = v \/ KeepSimilar(c, v, k) = Append(v, members[k])
      BY <3>1 DEF KeepSimilar
    <3> QED BY <3>1, <3>2, <3>3
  <2>3. <<n, r>> \in I
    <3> HIDE DEF I
    <3>1. 0 \in Int /\ n \in Int /\ 0 <= n
      BY <1>1
    <3> QED BY <2>1, <2>2, <3>1, Sizing!LoopRule
  <2>4. Loop(KeepSimilar, c, <<>>, 0, n) = r
    BY Zenon DEF Loop, Sizing!Iterate
  <2> HIDE DEF r
  <2> QED BY <2>3, <2>4
<1>3. <<>> \in Seq(T)
  BY EmptySeq
<1>4. \/ cleanup(blobs, members) = <<>>
      \/ \E area : cleanup(blobs, members)
                     = Loop(KeepSimilar, [blobs |-> blobs, members |-> members, area |-> area], <<>>, 0, n)
  BY Zenon DEF cleanup
<1> QED BY <1>2, <1>3, <1>4, Zenon

LEMMA ExtremeEffect ==
  ASSUME NEW blobs, NEW T, NEW members \in Seq(T), members # <<>>, NEW side
  PROVE  Extreme(blobs, members, side) \in T
<1> DEFINE n == Len(members)
           c == [blobs |-> blobs, members |-> members, side |-> side]
           I == {p \in (1..n) \X T : TRUE}
           r == Reaching!Iterate(c, members[1], 1, n)
<1>1. n \in Nat /\ 1 <= n /\ members[1] \in T
  BY EmptySeq
<1>2. <<1, members[1]>> \in I
  BY <1>1
<1>3. ASSUME NEW k \in 1 + 1..n, NEW v, <<k - 1, v>> \in I PROVE <<k, FartherOut(c, v, k)>> \in I
  <2>1. v \in T /\ k \in 1..n /\ members[k] \in T
    BY <1>3
  <2>2. FartherOut(c, v, k) = v \/ FartherOut(c, v, k) = members[k]
    BY DEF FartherOut
  <2> QED BY <2>1, <2>2
<1>4. <<n, r>> \in I
  <2> HIDE DEF I, c
  <2>1. 1 \in Int /\ n \in Int
    BY <1>1
  <2> QED BY <1>1, <1>2, <1>3, <2>1, Reaching!LoopRule
<1>5. Extreme(blobs, members, side) = r
  BY Zenon DEF Extreme, Loop, Reaching!Iterate
<1> HIDE DEF r
<1> QED BY <1>4, <1>5

LEMMA SwapEffect ==
  ASSUME NEW T, NEW s \in Seq(T), NEW k \in 2..Len(s), NEW c
  PROVE  SwapNeighbours(c, s, k) \in Seq(T) /\ Len(SwapNeighbours(c, s, k)) = Len(s)
<1>1. k - 1 \in 1..Len(s) /\ k \in 1..Len(s) /\ s[k] \in T /\ s[k - 1] \in T
  OBVIOUS
<1> DEFINE t == [s EXCEPT ![k - 1] = s[k]]  u == [t EXCEPT ![k] = s[k - 1]]
<1>2. SwapNeighbours(c, s, k) = s \/ SwapNeighbours(c, s, k) = u
  <2>1. \/ SwapNeighbours(c, s, k) = s
        \/ SwapNeighbours(c, s, k) = [s EXCEPT ![k - 1] = s[k], ![k] = s[k - 1]]
    BY Zenon DEF SwapNeighbours
  <2> QED BY <2>1
<1>3. t \in Seq(T) /\ Len(t) = Len(s)
  BY <1>1, OneChanged
<1> HIDE DEF t
<1>4. u \in Seq(T) /\ Len(u) = Len(s)
  BY <1>1, <1>3, OneChanged
<1> QED BY <1>2, <1>4

LEMMA SortPassEffect ==
  ASSUME NEW T, NEW s \in Seq(T), NEW c, NEW pass, Len(s) >= 1
  PROVE  SortPass(c, s, pass) \in Seq(T) /\ Len(SortPass(c, s, pass)) = Len(s)
<1> DEFINE n == Len(s)
           I == {p \in (1..n) \X Seq(T) : Len(p[2]) = n}
           r == Swapping!Iterate(c, s, 1, n)
<1>1. n \in Nat /\ 1 <= n /\ <<1, s>> \in I
  OBVIOUS
<1>2. ASSUME NEW k \in 1 + 1..n, NEW v, <<k - 1, v>> \in I PROVE <<k, SwapNeighbours(c, v, k)>> \in I
  <2>1. v \in Seq(T) /\ Len(v) = n /\ k \in 2..Len(v) /\ k \in 1..n
    BY <1>2
  <2>2. SwapNeighbours(c, v, k) \in Seq(T) /\ Len(SwapNeighbours(c, v, k)) = n
    BY <2>1, SwapEffect
  <2> QED BY <2>1, <2>2
<1>3. <<n, r>> \in I
  <2> HIDE DEF I
  <2>1. 1 \in Int /\ n \in Int
    BY <1>1
  <2> QED BY <1>1, <1>2, <2>1, Swapping!LoopRule
<1>4. SortPass(c, s, pass) = r
  BY Zenon DEF SortPass, Loop, Swapping!Iterate
<1> HIDE DEF r
<1> QED BY <1>3, <1>4

LEMMA SortEffect ==
  ASSUME NEW blobs, NEW T, NEW members \in Seq(T), members # <<>>, NEW first, NEW horiz
  PROVE  sort(blobs, members, first, horiz) \in Seq(T)
<1> DEFINE n == Len(members)
           c == [blobs |-> blobs, first |-> first, horiz |-> horiz]
           I == {p \in (0..n) \X Seq(T) : Len(p[2]) = n}
           r == Sorting!Iterate(c, members, 0, n)
<1>1. n \in Nat /\ 1 <= n
  BY EmptySeq
<1>2. <<0, members>> \in I
  BY <1>1
<1>3. ASSUME NEW k \in 0 + 1..n, NEW v, <<k - 1, v>> \in I PROVE <<k, SortPass(c, v, k)>> \in I
  <2> HIDE DEF c
  <2>1. v \in Seq(T) /\ Len(v) = n /\ k \in 0..n
    BY <1>3
  <2>2. SortPass(c, v, k) \in Seq(T) /\ Len(SortPass(c, v, k)) = n
    BY <1>1, <2>1, SortPassEffect
  <2> QED BY <2>1, <2>2
<1>4. <<n, r>> \in I
  <2> HIDE DEF I, c
  <2>1. 0 \in Int /\ n \in Int /\ 0 <= n
    BY <1>1
  <2> QED BY <1>2, <1>3, <2>1, Sorting!LoopRule
<1>5. sort(blobs, members, first, horiz) = r
  BY Zenon DEF sort, Loop, Sorting!Iterate
<1> HIDE DEF r
<1> QED BY <1>4, <1>5

\* No two neighbours of what is kept have one signature.
Changing(blobs, s) == \A k \in 1..Len(s) - 1 : blobs[s[k]].sig # blobs[s[k + 1]].sig

LEMMA Cleanup2Effect ==
  ASSUME NEW blobs, NEW T, NEW members \in Seq(T)
  PROVE  cleanup2(blobs, members) \in Seq(T) /\ Changing(blobs, cleanup2(blobs, members))
<1> DEFINE n == Len(members)
           c == [blobs |-> blobs, members |-> members]
           Sig(m) == blobs[m].sig
           \* The last that was kept has the signature of the last that was looked at.
           Good(k, v) == /\ Changing(blobs, v)
                         /\ k = 0 <=> v = <<>>
                         /\ k # 0 => Sig(v[Len(v)]) = Sig(members[k])
           I == {p \in (0..n) \X Seq(T) : Good(p[1], p[2])}
           r == Thinning!Iterate(c, <<>>, 0, n)
<1>1. n \in Nat
  OBVIOUS
<1>2. <<0, <<>>>> \in I
  <2> DEFINE none == <<>>
  <2>1. none \in Seq(T) /\ Len(none) = 0
    BY EmptySeq
  <2>2. Good(0, none)
    BY <2>1 DEF Changing
  <2> HIDE DEF none, Good
  <2>3. 0 \in 0..n
    BY <1>1
  <2>4. <<0, none>> \in I
    BY <2>1, <2>2, <2>3
  <2> QED BY <2>4 DEF none
<1>3. ASSUME NEW k \in 0 + 1..n, NEW v, <<k - 1, v>> \in I PROVE <<k, KeepChange(c, v, k)>> \in I
  <2>1. v \in Seq(T) /\ Good(k - 1, v) /\ k \in 1..n /\ members[k] \in T
    BY <1>3
  <2> DEFINE u == KeepChange(c, v, k)  w == Append(v, members[k])
             new == k = 1 \/ Sig(members[k]) # Sig(members[k - 1])
  <2>2. u = IF new THEN w ELSE v
    BY DEF KeepChange
  <2>3. CASE new
    <3>1. /\ w \in Seq(T) /\ Len(w) = Len(v) + 1 /\ Len(v) \in Nat
          /\ \A l \in 1..Len(v) : w[l] = v[l]
          /\ w[Len(v) + 1] = members[k]
      BY <2>1, AppendProperties
    <3>2. ASSUME NEW l \in 1..Len(w) - 1 PROVE Sig(w[l]) # Sig(w[l + 1])
      <4>1. l \in 1..Len(v)
        BY <3>1
      <4>2. CASE l = Len(v)
        <5>1. v # <<>> /\ k # 1
          BY <2>1, <4>1
        <5>2. Sig(v[Len(v)]) = Sig(members[k - 1])
          BY <2>1, <5>1
        <5>3. w[l] = v[Len(v)] /\ w[l + 1] = members[k]
          BY <3>1, <4>1, <4>2
        <5> QED BY <2>3, <5>1, <5>2, <5>3
      <4>3. CASE l # Len(v)
        <5>1. l \in 1..Len(v) - 1 /\ w[l] = v[l] /\ w[l + 1] = v[l + 1]
          BY <3>1, <4>1, <4>3
        <5>2. Sig(v[l]) # Sig(v[l + 1])
          BY <2>1, <5>1 DEF Changing
        <5> QED BY <5>1, <5>2
      <4> QED BY <4>2, <4>3
    <3>3. w # <<>> /\ w[Len(w)] = members[k]
      BY <3>1
    <3> HIDE DEF w
    <3>4. Good(k, w)
      BY <2>1, <3>2, <3>3 DEF Changing
    <3>5. u = w
      BY <2>2, <2>3
    <3> HIDE DEF Good, u
    <3> QED BY <2>1, <3>1, <3>4, <3>5 DEF u
  <2>4. CASE ~new
    <3>1. u = v
      BY <2>2, <2>4
    <3>2. Good(k, v)
      BY <2>1, <2>4
    <3> HIDE DEF Good, u
    <3> QED BY <2>1, <3>1, <3>2 DEF u
  <2> QED BY <2>3, <2>4
<1>4. <<n, r>> \in I
  <2> HIDE DEF I, c
  <2>1. 0 \in Int /\ n \in Int /\ 0 <= n
    BY <1>1
  <2> QED BY <1>2, <1>3, <2>1, Thinning!LoopRule
<1>5. cleanup2(blobs, members) = r
  BY Zenon DEF cleanup2, Loop, Thinning!Iterate
<1> HIDE DEF r
<1>6. r \in Seq(T) /\ Changing(blobs, r)
  BY <1>4
<1> QED BY <1>5, <1>6

LEMMA FrontEffect ==
  ASSUME NEW T, NEW s \in Seq(T), NEW n \in Nat
  PROVE  /\ Front_n(s, n) \in Seq(T)
         /\ Len(Front_n(s, n)) = IF Len(s) < n THEN Len(s) ELSE n
         /\ \A k \in 1..Len(Front_n(s, n)) : Front_n(s, n)[k] = s[k]
<1> DEFINE m == IF Len(s) < n THEN Len(s) ELSE n
<1>1. m \in Nat /\ m <= Len(s) /\ Len(s) \in Nat
  OBVIOUS
<1>2. Front_n(s, n) = SubSeq(s, 1, m)
  BY Zenon DEF Front_n
<1>3. Front_n(s, n) = SubSeq(s, 1, m) /\ m = IF Len(s) < n THEN Len(s) ELSE n
  BY <1>2
<1> HIDE DEF m
<1>4. \A i \in 1..m : s[i] \in T
  BY <1>1
<1>5. /\ SubSeq(s, 1, m) \in Seq(T)
      /\ Len(SubSeq(s, 1, m)) = IF 1 <= m THEN m - 1 + 1 ELSE 0
      /\ \A i \in 1..m - 1 + 1 : SubSeq(s, 1, m)[i] = s[1 + i - 1]
  BY <1>1, <1>4, SubSeqProperties
<1>6. Len(SubSeq(s, 1, m)) = m
  BY <1>1, <1>5
<1>7. \A i \in 1..m : SubSeq(s, 1, m)[i] = s[i]
  BY <1>1, <1>5
<1> QED BY <1>3, <1>5, <1>6, <1>7

-----------------------------------------------------------------------------
(* The code of a clump.                                                    *)

LEMMA LineEffect ==
  ASSUME NEW S, NEW blobs \in Seq(Entry(S)), NEW T, T \subseteq 1..Len(blobs),
         NEW members \in Seq(T), members # <<>>, NEW line, line = InLine(blobs, members)
  PROVE  /\ line.order \in Seq(T)
         /\ line.left \in Nat /\ line.right \in Nat /\ line.top \in Nat /\ line.bottom \in Nat
<1> DEFINE left == Extreme(blobs, members, "left")
           right == Extreme(blobs, members, "right")
           top == Extreme(blobs, members, "top")
           bottom == Extreme(blobs, members, "bottom")
           across == sort(blobs, members, left, TRUE)
           down == sort(blobs, members, top, FALSE)
<1>1. left \in T /\ right \in T /\ top \in T /\ bottom \in T
  BY ExtremeEffect
<1>2. across \in Seq(T) /\ down \in Seq(T)
  <2> HIDE DEF left, top
  <2> QED BY SortEffect
<1>3. /\ line.order = across \/ line.order = down
      /\ line.left = blobs[left].left /\ line.right = blobs[right].right
      /\ line.top = blobs[top].top /\ line.bottom = blobs[bottom].bottom
  BY DEF InLine
<1> HIDE DEF left, right, top, bottom, across, down
<1>4. \A k \in T : blobs[k] \in Entry(S)
  OBVIOUS
<1>5. /\ blobs[left] \in Entry(S) /\ blobs[right] \in Entry(S)
      /\ blobs[top] \in Entry(S) /\ blobs[bottom] \in Entry(S)
  BY <1>1, <1>4
<1>6. /\ blobs[left].left \in Nat /\ blobs[right].right \in Nat
      /\ blobs[top].top \in Nat /\ blobs[bottom].bottom \in Nat
  BY <1>5 DEF Entry
<1> QED BY <1>2, <1>3, <1>6

LEMMA UsedEffect ==
  ASSUME NEW blobs, NEW codeSigs, NEW T, \A k \in T : blobs[k].sig \in codeSigs,
         NEW line, line.order \in Seq(T), NEW used, used = CodedBlobs(blobs, line), Len(used) >= 2
  PROVE  used \in Seq(T) /\ ColorCode(SigsOf(blobs, used), codeSigs)
<1> DEFINE all == cleanup2(blobs, line.order)  sigs == SigsOf(blobs, used)
           max == MAX_COLOR_CODE_MODELS
<1>1. all \in Seq(T) /\ Changing(blobs, all)
  BY Cleanup2Effect
<1>2. used = Front_n(all, max)
  BY DEF CodedBlobs
<1> HIDE DEF all
<1>3. max \in Nat
  BY TableAssumption
<1>4. /\ used \in Seq(T)
      /\ Len(used) = IF Len(all) < max THEN Len(all) ELSE max
      /\ \A k \in 1..Len(used) : used[k] = all[k]
  BY <1>1, <1>2, <1>3, FrontEffect
<1>5. Len(used) \in 2..max /\ Len(used) <= Len(all) /\ Len(all) \in Nat
  BY <1>1, <1>3, <1>4
<1>6. sigs = [k \in 1..Len(used) |-> blobs[used[k]].sig]
  BY <1>4 DEF SigsOf
<1> HIDE DEF sigs
<1>7. \A k \in 1..Len(used) : used[k] \in T
  BY <1>4
<1>8. \A k \in 1..Len(used) : sigs[k] = blobs[used[k]].sig /\ sigs[k] \in codeSigs
  BY <1>6, <1>7
<1>9. sigs \in Seq(codeSigs) /\ Len(sigs) = Len(used)
  <2>1. sigs = [k \in 1..Len(used) |-> sigs[k]] /\ Len(used) \in Nat
    BY <1>5, <1>6
  <2> QED BY <1>8, <2>1, FunctionIsSequence
<1>10. ASSUME NEW k \in 1..Len(sigs) - 1 PROVE sigs[k] # sigs[k + 1]
  <2>1. k \in 1..Len(used) /\ k + 1 \in 1..Len(used) /\ k \in 1..Len(all) - 1
    BY <1>5, <1>9
  <2>2. sigs[k] = blobs[all[k]].sig /\ sigs[k + 1] = blobs[all[k + 1]].sig
    BY <1>4, <1>8, <2>1
  <2> QED BY <1>1, <2>1, <2>2 DEF Changing
<1> QED BY <1>4, <1>5, <1>9, <1>10 DEF ColorCode, sigs

\* The colour codes that signatures of codeSigs make, and an entry for one of them.
CodesOf(codeSigs) == {SmallerCode(sigs) : sigs \in {q \in Seq(codeSigs) : ColorCode(q, codeSigs)}}
CodeEntry(codeSigs) ==
  [model : CodesOf(codeSigs), left : Nat, right : Nat, top : Nat, bottom : Nat]

CodeStates(S, codeSigs) == [blobs : Seq(Entry(S)), codes : Seq(CodeEntry(codeSigs))]

\* Codes end where the table's memory does.
Fits(numBlobs, numCodes) == numCodes = 0 \/ 5 * numBlobs + 6 * numCodes <= 5 * MAX_BLOBS

LEMMA RoomForOne ==
  ASSUME NEW numBlobs \in Nat, NEW numCodes \in Nat, HasRoom(numBlobs, numCodes)
  PROVE  Fits(numBlobs, numCodes + 1)
BY TableAssumption DEF HasRoom, Fits

LEMMA AddCodeEffect ==
  ASSUME NEW S, 0 \in S, NEW b \in Seq(Entry(S)), NEW st, Dropped(S, b, st.blobs),
         NEW codeSigs, st.codes \in Seq(CodeEntry(codeSigs)),
         HasRoom(Len(b), Len(st.codes)),
         NEW line, line.left \in Nat, line.right \in Nat, line.top \in Nat, line.bottom \in Nat,
         NEW used, ColorCode(SigsOf(st.blobs, used), codeSigs),
         NEW r, r = AddCode(st, line, used)
  PROVE  /\ Dropped(S, b, r.blobs) /\ Fits(Len(b), Len(r.codes))
         /\ r \in CodeStates(S, codeSigs)
<1> DEFINE t == st.blobs  u == r.blobs
<1>1. t \in Seq(Entry(S)) /\ Len(t) = Len(b) /\ Len(b) \in Nat /\ DOMAIN t = 1..Len(b)
  BY DEF Dropped
<1>2. u = [k \in 1..Len(b) |-> IF k \in ToSet(used) THEN Invalid(t[k]) ELSE t[k]]
  BY <1>1 DEF AddCode
<1>3. \A k \in 1..Len(b) : t[k] \in Entry(S) /\ (t[k] = b[k] \/ t[k] = Invalid(b[k]))
  BY <1>1 DEF Dropped
<1>4. \A k \in 1..Len(b) : Invalid(t[k]) \in Entry(S) /\ Invalid(t[k]) = Invalid(b[k])
  BY <1>1, <1>3 DEF Invalid, Entry
<1> HIDE DEF t, u
<1>5. \A k \in 1..Len(b) : u[k] \in Entry(S) /\ (u[k] = b[k] \/ u[k] = Invalid(b[k]))
  BY <1>2, <1>3, <1>4
<1>6. u \in Seq(Entry(S)) /\ Len(u) = Len(b)
  <2>1. u = [k \in 1..Len(b) |-> u[k]]
    BY <1>2
  <2> QED BY <1>1, <1>5, <2>1, FunctionIsSequence
<1>7. Dropped(S, b, u)
  BY <1>5, <1>6 DEF Dropped
<1> DEFINE sigs == SigsOf(st.blobs, used)
           c == [model |-> SmallerCode(sigs), left |-> line.left, right |-> line.right,
                 top |-> line.top, bottom |-> line.bottom]
<1>8. r.codes = Append(st.codes, c)
  BY DEF AddCode
<1>9. c \in CodeEntry(codeSigs)
  <2>1. SmallerCode(sigs) \in CodesOf(codeSigs)
    BY DEF CodesOf, ColorCode
  <2> QED BY <2>1 DEF CodeEntry
<1> HIDE DEF c
<1>10. /\ r.codes \in Seq(CodeEntry(codeSigs)) /\ Len(r.codes) = Len(st.codes) + 1
       /\ Len(st.codes) \in Nat
  BY <1>8, <1>9, AppendProperties
<1>11. Fits(Len(b), Len(r.codes))
  BY <1>1, <1>10, RoomForOne
<1>12. r = [blobs |-> r.blobs, codes |-> r.codes]
  BY DEF AddCode
<1>13. r \in CodeStates(S, codeSigs)
  BY <1>6, <1>10, <1>12 DEF u, CodeStates
<1> QED BY <1>7, <1>11, <1>13 DEF u

LEMMA CodeOfClumpEffect ==
  ASSUME NEW S, 0 \in S, NEW b \in Seq(Entry(S)), NEW codeSigs,
         NEW st \in CodeStates(S, codeSigs), Dropped(S, b, st.blobs), Fits(Len(b), Len(st.codes)),
         NEW n \in Nat, Labelled(b, codeSigs, n),
         NEW clump \in Nat \ {0}, NEW none, NEW r, r = CodeOfClump(none, st, clump)
  PROVE  /\ Dropped(S, b, r.blobs) /\ Fits(Len(b), Len(r.codes))
         /\ r \in CodeStates(S, codeSigs)
<1> DEFINE t == st.blobs
           T == {k \in 1..Len(t) : t[k].clump = clump}
           members == cleanup(t, MembersOf(t, clump))
           line == InLine(t, members)
           used == CodedBlobs(t, line)
           coded == HasRoom(Len(t), Len(st.codes)) /\ Len(members) >= 2 /\ Len(used) >= 2
<1>1. t \in Seq(Entry(S)) /\ Len(t) = Len(b)
  BY DEF Dropped
<1>2. members \in Seq(T)
  <2>1. MembersOf(t, clump) \in Seq(T)
    BY <1>1, MembersEffect
  <2> QED BY <2>1, CleanupEffect
<1>3. \A k \in T : t[k].sig \in codeSigs
  <2> TAKE k \in T
  <2>1. k \in 1..Len(b) /\ t[k].clump = clump /\ clump # 0
    BY <1>1
  <2>2. b[k] \in Entry(S)
    BY <2>1
  <2>3. Invalid(b[k]).clump = 0
    BY <2>2, InvalidBlob
  <2>4. t[k] = b[k]
    BY <2>1, <2>3 DEF Dropped
  <2>5. Marked(b[k])
    BY <2>1, <2>4 DEF Marked
  <2>6. b[k].sig \in codeSigs
    BY <2>1, <2>5 DEF Labelled
  <2> QED BY <2>4, <2>6
<1>4. r = IF coded THEN AddCode(st, line, used) ELSE st
  BY Zenon DEF CodeOfClump
<1>5. CASE ~coded
  <2>1. r = st
    BY <1>4, <1>5
  <2> QED BY <2>1
<1>6. CASE coded
  <2>1. r = AddCode(st, line, used) /\ HasRoom(Len(b), Len(st.codes))
        /\ Len(members) >= 2 /\ Len(used) >= 2
    BY <1>1, <1>4, <1>6
  <2>2. T \subseteq 1..Len(t)
    OBVIOUS
  <2>3. line = InLine(t, members)
    OBVIOUS
  <2>4. used = CodedBlobs(t, line)
    OBVIOUS
  <2> HIDE DEF T, members, line, used, coded
  <2>5. members # <<>>
    <3>1. Len(<<>>) = 0
      OBVIOUS
    <3> QED BY <2>1, <3>1
  <2>6. /\ line.order \in Seq(T)
        /\ line.left \in Nat /\ line.right \in Nat /\ line.top \in Nat /\ line.bottom \in Nat
    BY <1>1, <1>2, <2>2, <2>3, <2>5, LineEffect
  <2>7. ColorCode(SigsOf(t, used), codeSigs)
    BY <1>3, <2>1, <2>4, <2>6, UsedEffect
  <2>8. st.codes \in Seq(CodeEntry(codeSigs))
    BY DEF CodeStates
  <2> QED BY <2>1, <2>6, <2>7, <2>8, AddCodeEffect
<1> QED BY <1>5, <1>6


\* Pass 3.
LEMMA CodesEffect ==
  ASSUME NEW S, 0 \in S, NEW b \in Seq(Entry(S)), NEW codeSigs, NEW n \in Nat,
         Labelled(b, codeSigs, n), NEW count \in Nat, NEW mixed,
         NEW r, r = MakeCodes(b, count, codeSigs, mixed)
  PROVE  /\ Dropped(S, b, r.blobs)
         /\ r.codes \in Seq(CodeEntry(codeSigs)) /\ Fits(Len(b), Len(r.codes))
<1> DEFINE Good(st) == Dropped(S, b, st.blobs) /\ Fits(Len(b), Len(st.codes))
           first == [blobs |-> b, codes |-> <<>>]
           I == {p \in (0..count) \X CodeStates(S, codeSigs) : Good(p[2])}
           st == Coding!Iterate({}, first, 0, count)
           t == st.blobs
           dropped(e) == Marked(e) \/ (~mixed /\ e.sig \in codeSigs)
<1>1. first \in CodeStates(S, codeSigs) /\ Good(first)
  <2> DEFINE none == <<>>
  <2>1. none \in Seq(CodeEntry(codeSigs)) /\ Len(none) = 0
    BY EmptySeq
  <2> HIDE DEF none
  <2>2. [blobs |-> b, codes |-> none] \in CodeStates(S, codeSigs)
    BY <2>1 DEF CodeStates
  <2>3. Dropped(S, b, b) /\ Fits(Len(b), Len(none))
    BY <2>1, DroppedSelf DEF Fits
  <2> QED BY <2>2, <2>3 DEF none
<1>2. <<0, first>> \in I
  <2> HIDE DEF first, Good
  <2>1. 0 \in 0..count
    OBVIOUS
  <2> QED BY <1>1, <2>1
<1>3. ASSUME NEW k \in 0 + 1..count, NEW v, <<k - 1, v>> \in I
      PROVE  <<k, CodeOfClump({}, v, k)>> \in I
  <2>1. v \in CodeStates(S, codeSigs) /\ Good(v) /\ k \in Nat \ {0} /\ k \in 0..count
    BY <1>3
  <2> DEFINE w == CodeOfClump({}, v, k)
  <2>2. Good(w) /\ w \in CodeStates(S, codeSigs)
    BY <2>1, CodeOfClumpEffect
  <2> HIDE DEF w, Good
  <2>3. <<k, w>> \in I
    BY <2>1, <2>2
  <2> QED BY <2>3 DEF w
<1>4. <<count, st>> \in I
  <2> HIDE DEF I, first
  <2>1. 0 \in Int /\ count \in Int /\ 0 <= count
    OBVIOUS
  <2> QED BY <1>2, <1>3, <2>1, Coding!LoopRule
<1>5. /\ r.codes = st.codes
      /\ r.blobs = [k \in DOMAIN b |-> IF dropped(t[k]) THEN Invalid(t[k]) ELSE t[k]]
  <2>1. st = Loop(CodeOfClump, {}, first, 0, count)
    BY Zenon DEF Loop, Coding!Iterate
  <2> HIDE DEF st
  <2> QED BY <2>1 DEF MakeCodes
<1> HIDE DEF st
<1>6. /\ Dropped(S, b, t) /\ Fits(Len(b), Len(st.codes))
      /\ st.codes \in Seq(CodeEntry(codeSigs))
  <2>1. st \in CodeStates(S, codeSigs) /\ Good(st)
    BY <1>4
  <2> QED BY <2>1 DEF CodeStates
<1> DEFINE u == r.blobs
<1>7. t \in Seq(Entry(S)) /\ Len(t) = Len(b) /\ Len(b) \in Nat /\ DOMAIN b = 1..Len(b)
  BY <1>6 DEF Dropped
<1>8. \A k \in 1..Len(b) : t[k] \in Entry(S) /\ (t[k] = b[k] \/ t[k] = Invalid(b[k]))
  BY <1>6, <1>7 DEF Dropped
<1> HIDE DEF t, dropped
<1>9. \A k \in 1..Len(b) : Invalid(t[k]) \in Entry(S) /\ Invalid(t[k]) = Invalid(b[k])
  BY <1>7, <1>8 DEF Invalid, Entry
<1>10. u = [k \in 1..Len(b) |-> IF dropped(t[k]) THEN Invalid(t[k]) ELSE t[k]]
  BY <1>5, <1>7
<1> HIDE DEF u
<1>11. \A k \in 1..Len(b) : u[k] \in Entry(S) /\ (u[k] = b[k] \/ u[k] = Invalid(b[k]))
  BY <1>8, <1>9, <1>10
<1>12. u \in Seq(Entry(S)) /\ Len(u) = Len(b)
  <2>1. u = [k \in 1..Len(b) |-> u[k]]
    BY <1>10
  <2> QED BY <1>7, <1>11, <2>1, FunctionIsSequence
<1>13. Dropped(S, b, u)
  BY <1>11, <1>12 DEF Dropped
<1> QED BY <1>5, <1>6, <1>13 DEF u

-----------------------------------------------------------------------------
(* Copying, and compressing.                                               *)

LEMMA CompressEffect ==
  ASSUME NEW T, NEW s \in Seq(T)
  PROVE  compress(s) \in Seq(T) /\ Len(compress(s)) <= Len(s)
<1> DEFINE n == Len(s)
           empty == <<>>
           Good(k, v) == Len(v) <= k
           I == {p \in (0..n) \X Seq(T) : Good(p[1], p[2])}
           r == Keeping!Iterate(s, empty, 0, n)
<1>1. n \in Nat
  OBVIOUS
<1>2. <<0, empty>> \in I
  <2>1. empty \in Seq(T) /\ Len(empty) = 0
    BY EmptySeq
  <2>2. 0 \in 0..n
    BY <1>1
  <2>3. Good(0, empty)
    BY <2>1
  <2> HIDE DEF empty, Good
  <2> QED BY <2>1, <2>2, <2>3
<1>3. ASSUME NEW k \in 0 + 1..n, NEW v, <<k - 1, v>> \in I PROVE <<k, KeepValid(s, v, k)>> \in I
  <2>1. v \in Seq(T) /\ Len(v) <= k - 1 /\ k \in 1..n /\ k \in 0..n /\ s[k] \in T /\ Len(v) \in Nat
    BY <1>3
  <2> DEFINE u == KeepValid(s, v, k)
  <2>2. u = v \/ u = Append(v, s[k])
    BY DEF KeepValid
  <2>3. Append(v, s[k]) \in Seq(T) /\ Len(Append(v, s[k])) = Len(v) + 1
    BY <2>1, AppendProperties
  <2> HIDE DEF u
  <2>4. u \in Seq(T) /\ Len(u) <= k
    BY <2>1, <2>2, <2>3
  <2>5. <<k, u>> \in I
    BY <2>1, <2>4
  <2> QED BY <2>5 DEF u
<1>4. <<n, r>> \in I
  <2> HIDE DEF I, empty
  <2>1. 0 \in Int /\ n \in Int /\ 0 <= n
    BY <1>1
  <2> QED BY <1>2, <1>3, <2>1, Keeping!LoopRule
<1>5. compress(s) = r
  BY Zenon DEF compress, Loop, Keeping!Iterate
<1> HIDE DEF r
<1>6. r \in Seq(T) /\ Len(r) <= n
  BY <1>4
<1> QED BY <1>5, <1>6

\* Blobs of one signature as they are copied.
Copies(S) == [sig : S, clump : {0}, left : Nat, right : Nat, top : Nat, bottom : Nat]

LEMMA CopyEffect ==
  ASSUME NEW T, \A b \in T : b.left \in Nat /\ b.right \in Nat /\ b.top \in Nat /\ b.bottom \in Nat,
         NEW c, NEW from \in Seq(T), from = c.from, NEW room \in Nat, room = c.room
  PROVE  LET r == Loop(CopyBlob, c, <<>>, 0, Len(from))
         IN r \in Seq(Copies({c.sig})) /\ Len(r) <= room
<1> DEFINE n == Len(from)
           empty == <<>>
           E == Copies({c.sig})
           Good(v) == Len(v) <= room
           I == {p \in (0..n) \X Seq(E) : Good(p[2])}
           r == Loop(CopyBlob, c, empty, 0, n)
           q == Copying!Iterate(c, empty, 0, n)
<1>1. n \in Nat
  OBVIOUS
<1>2. <<0, empty>> \in I
  <2>1. empty \in Seq(Copies({c.sig})) /\ Len(empty) = 0
    BY EmptySeq
  <2>2. 0 \in 0..n
    BY <1>1
  <2>3. Good(empty)
    BY <2>1
  <2> HIDE DEF empty, Good, E
  <2>4. empty \in Seq(E)
    BY <2>1
  <2>5. <<0, empty>> \in (0..n) \X Seq(E)
    BY <2>2, <2>4
  <2> QED BY <2>3, <2>5
<1>3. ASSUME NEW k \in 0 + 1..n, NEW v, <<k - 1, v>> \in I PROVE <<k, CopyBlob(c, v, k)>> \in I
  <2>1. v \in Seq(E) /\ Good(v) /\ k \in 0..n /\ k \in 1..n
    <3> HIDE DEF E, Good
    <3> QED BY <1>3
  <2>2. Len(v) <= room /\ Len(v) \in Nat /\ from[k] \in T
    <3> HIDE DEF E
    <3> QED BY <2>1
  <2> DEFINE b == from[k]
             e == [sig |-> c.sig, clump |-> 0, left |-> b.left, right |-> b.right,
                   top |-> b.top, bottom |-> b.bottom]
             u == CopyBlob(c, v, k)
  <2>3. u = v \/ (u = Append(v, e) /\ Len(v) < room)
    BY DEF CopyBlob
  <2>4. e \in E
    BY <2>2 DEF Copies
  <2> HIDE DEF e, u, E
  <2>5. Append(v, e) \in Seq(E) /\ Len(Append(v, e)) = Len(v) + 1
    BY <2>1, <2>4, AppendProperties
  <2>6. u \in Seq(E) /\ Good(u)
    <3>1. CASE u = v
      BY <2>1, <3>1
    <3>2. CASE u # v
      <4>1. u = Append(v, e) /\ Len(v) < room
        BY <2>3, <3>2
      <4>2. Len(u) <= room
        BY <2>2, <2>5, <4>1
      <4> QED BY <2>5, <4>1, <4>2
    <3> QED BY <3>1, <3>2
  <2> HIDE DEF Good
  <2>7. <<k, u>> \in I
    BY <2>1, <2>6
  <2> QED BY <2>7 DEF u
<1>4. <<n, q>> \in I
  <2> HIDE DEF I, empty
  <2>1. 0 \in Int /\ n \in Int /\ 0 <= n
    BY <1>1
  <2> QED BY <1>2, <1>3, <2>1, Copying!LoopRule
<1>5. r = q
  BY Zenon DEF Loop, Copying!Iterate
<1> HIDE DEF q, r
<1>6. q \in Seq(E) /\ Good(q)
  <2> HIDE DEF E, Good
  <2> QED BY <1>4
<1> QED BY <1>5, <1>6 DEF r

LEMMA WholeFront ==
  ASSUME NEW T, NEW s \in Seq(T)
  PROVE  Front_n(s, Len(s)) = s
<1> DEFINE r == Front_n(s, Len(s))
<1>1. Len(s) \in Nat
  OBVIOUS
<1>2. r \in Seq(T) /\ Len(r) = Len(s) /\ \A k \in 1..Len(r) : r[k] = s[k]
  BY <1>1, FrontEffect
<1> HIDE DEF r
<1>3. r = s
  BY <1>2
<1> QED BY <1>3 DEF r

-----------------------------------------------------------------------------
(* The inductive invariant.                                                *)

Stages == {"copy", "combine", "mark", "codes", "publish"}
Building == pc \in Stages
Params == [m_maxBlobs : 0..MAX_BLOBS, m_maxBlobsPerModel : Nat, m_minArea : Nat, m_ccMode : Modes]
Readable == [begin : BOOLEAN, entry : BlobA \cup BlobB \cup {Wild}]

\* The types, and that the memory is shut just while the table is built.
Types ==
  /\ pc \in {"ready", "overrun"} \cup Stages
  /\ sig \in Signatures /\ m_mutex \in BOOLEAN /\ (m_mutex <=> Building)
  /\ Building => finished \in Frames
  /\ m_blobs \in Seq(BlobA) /\ Len(m_blobs) <= MAX_BLOBS /\ m_ccBlobs \in Seq(BlobB)
  /\ m_numBlobs \in 0..MAX_BLOBS /\ m_numCCBlobs \in 0..MAX_BLOBS
  /\ m_blobReadIndex \in 0..MAX_BLOBS /\ m_ccBlobReadIndex \in 0..MAX_BLOBS
  /\ params \in Params /\ sent \in Seq(Readable)

\* Of a frame's table all blobs and codes count; none is read before it is built.
Counted ==
  /\ Building => frame = "published" /\ sent = <<>> /\ m_maxBlob = NULL
  /\ Building => Len(m_blobs) <= params.m_maxBlobs
  /\ pc = "overrun" => frame # "published"
  /\ frame = "published" => m_numBlobs = Len(m_blobs) /\ m_numCCBlobs = Len(m_ccBlobs)
  /\ pc \in {"copy", "combine", "mark", "codes"} => m_ccBlobs = <<>>

\* The read indices count what was sent, codes after the last blob.
ReadUpTo ==
  frame = "published" /\ ~Building =>
    /\ m_blobReadIndex <= m_numBlobs /\ m_ccBlobReadIndex <= m_numCCBlobs
    /\ Len(sent) = m_blobReadIndex + m_ccBlobReadIndex
    /\ m_ccBlobReadIndex > 0 => m_blobReadIndex = m_numBlobs

\* No two of one ordinary signature touch.
SettledSoFar ==
  Building => \A i, j \in 1..Len(m_blobs) :
    i < j /\ m_blobs[i].sig = m_blobs[j].sig /\ m_blobs[i].sig \notin CodeSigs \cup {0}
      => Side(m_blobs[i], m_blobs[j]) = "none"

\* What each stage leaves to the next.
Stage ==
  /\ pc = "copy" => \A k \in 1..Len(m_blobs) : m_blobs[k].sig < sig
  /\ pc \in {"copy", "combine", "mark"} => \A k \in 1..Len(m_blobs) : ~Marked(m_blobs[k])
  /\ pc = "codes" => Labelled(m_blobs, CodeSigs, Len(m_blobs))
  /\ pc = "publish" => /\ m_ccBlobs \in Seq(CodeEntry(CodeSigs))
                       /\ Fits(Len(m_blobs), Len(m_ccBlobs))

Inv == Types /\ Counted /\ ReadUpTo /\ SettledSoFar /\ Stage /\ ReadInOrder /\ MaxBlobIsBiggest

\* All signatures a blob may have: 0 is none.
Sigs == Signatures \cup {0}

LEMMA SignatureBounds ==
  /\ Signatures \subseteq 1..7 /\ CodeTypes \subseteq Signatures /\ 1 \in Signatures
  /\ \A s \in Signatures : s + 1 \notin Signatures => \A t \in Signatures : t <= s
BY BlobsAssumption DEF CL_NUM_SIGNATURES

LEMMA CodeSigsBound == CodeSigs \subseteq Signatures
BY SignatureBounds DEF CodeSigs

LEMMA TableEntries ==
  ASSUME NEW s \in Seq(BlobA)
  PROVE  s \in Seq(Entry(Sigs)) /\ \A k \in 1..Len(s) : s[k].clump <= MAX_BLOBS
<1>1. BlobA \subseteq Entry(Sigs)
  BY TableAssumption DEF BlobA, Entry, Sigs
<1>2. \A k \in 1..Len(s) : s[k] \in BlobA
  OBVIOUS
<1>3. \A b \in BlobA : b.clump <= MAX_BLOBS
  BY TableAssumption DEF BlobA
<1>4. s \in Seq(Entry(Sigs))
  BY <1>1, SeqOfMore
<1> QED BY <1>2, <1>3, <1>4

LEMMA SigType == \A b \in BlobA : b.sig \in Nat
<1> SUFFICES ASSUME NEW b \in BlobA PROVE b.sig \in Nat
  OBVIOUS
<1>1. b.sig \in Signatures \cup {0}
  BY DEF BlobA
<1>2. Signatures \subseteq 1..7
  BY SignatureBounds
<1>3. \A x \in Signatures \cup {0} : x \in Nat
  BY <1>2
<1> QED BY <1>1, <1>3

LEMMA TypedEntries ==
  ASSUME NEW s \in Seq(Entry(Sigs)), \A k \in 1..Len(s) : s[k].clump <= MAX_BLOBS
  PROVE  s \in Seq(BlobA)
<1>1. \A k \in 1..Len(s) : s[k] \in Entry(Sigs) /\ s[k].clump <= MAX_BLOBS
  OBVIOUS
<1>2. \A k \in 1..Len(s) : s[k] \in BlobA
  <2> TAKE k \in 1..Len(s)
  <2> DEFINE b == s[k]
  <2>1. b \in Entry(Sigs) /\ b.clump <= MAX_BLOBS
    BY <1>1
  <2> HIDE DEF b
  <2>2. b \in BlobA
    BY <2>1, TableAssumption DEF BlobA, Entry, Sigs
  <2> QED BY <2>2 DEF b
<1>3. s = [k \in 1..Len(s) |-> s[k]] /\ Len(s) \in Nat
  OBVIOUS
<1> QED BY <1>2, <1>3, FunctionIsSequence

LEMMA DroppedEntries ==
  ASSUME NEW s \in Seq(BlobA), NEW t, Dropped(Sigs, s, t)
  PROVE  t \in Seq(BlobA)
<1>1. t \in Seq(Entry(Sigs)) /\ Len(t) = Len(s)
  BY DEF Dropped
<1>2. ASSUME NEW k \in 1..Len(s) PROVE t[k].clump <= MAX_BLOBS
  <2>1. s[k] \in Entry(Sigs) /\ s[k].clump <= MAX_BLOBS
    BY TableEntries
  <2>2. Invalid(s[k]).clump = 0
    BY <2>1, InvalidBlob DEF Sigs
  <2>3. t[k] = s[k] \/ t[k] = Invalid(s[k])
    BY DEF Dropped
  <2> QED BY <2>1, <2>2, <2>3, TableAssumption
<1> QED BY <1>1, <1>2, TypedEntries

-----------------------------------------------------------------------------
(* The first blobs, and the parameters.                                    *)

LEMMA NoEntries == ASSUME NEW T PROVE <<>> \in Seq(T) /\ Len(<<>>) = 0
BY EmptySeq

LEMMA InitInv == Init => Inv
<1> SUFFICES ASSUME Init PROVE Inv
  OBVIOUS
<1> DEFINE none == <<>>
<1>1. none \in Seq(BlobA) /\ none \in Seq(BlobB) /\ none \in Seq(Readable) /\ Len(none) = 0
  BY NoEntries
<1>2. m_blobs = none /\ m_ccBlobs = none /\ sent = none /\ pc = "ready" /\ frame = "none"
  BY DEF Init
<1> HIDE DEF none
<1>3. params \in Params
  BY BlobsAssumption, TableAssumption DEF Init, Params, Modes
<1>4. Types
  <2>1. /\ sig = 1 /\ m_mutex = FALSE /\ m_numBlobs = 0 /\ m_numCCBlobs \in {0, 1}
        /\ m_blobReadIndex = 0 /\ m_ccBlobReadIndex = 0
    BY DEF Init
  <2>2. ~Building /\ m_mutex \in BOOLEAN /\ (m_mutex <=> Building)
    BY <1>2, <2>1 DEF Building, Stages
  <2>3. /\ m_blobs \in Seq(BlobA) /\ Len(m_blobs) = 0 /\ m_ccBlobs \in Seq(BlobB)
        /\ sent \in Seq(Readable)
    BY <1>1, <1>2
  <2> QED BY <1>2, <1>3, <2>1, <2>2, <2>3, SignatureBounds, TableAssumption DEF Types
<1>5. Counted /\ ReadUpTo /\ SettledSoFar /\ Stage /\ ReadInOrder /\ MaxBlobIsBiggest
  BY <1>2 DEF Counted, ReadUpTo, SettledSoFar, Stage, ReadInOrder, MaxBlobIsBiggest, Building, Stages
<1> QED BY <1>4, <1>5 DEF Inv

LEMMA SetParamsInv ==
  ASSUME Inv, NEW p \in ParamSets, SetParams(p)
  PROVE  Inv'
<1>1. /\ pc = "ready" /\ pc' = pc /\ finished' = finished /\ sig' = sig /\ m_mutex' = m_mutex
      /\ memory' = memory /\ reading' = reading /\ frame' = frame
  BY DEF SetParams
<1>2. /\ m_blobs' = m_blobs /\ m_numBlobs' = m_numBlobs
      /\ m_ccBlobs' = m_ccBlobs /\ m_numCCBlobs' = m_numCCBlobs
      /\ m_blobReadIndex' = m_blobReadIndex /\ m_ccBlobReadIndex' = m_ccBlobReadIndex
      /\ m_maxBlob' = m_maxBlob /\ sent' = sent
  BY <1>1 DEF memory, reading
<1>3. params' \in Params
  <2>1. p \in [m_maxBlobs : Nat, m_maxBlobsPerModel : Nat, m_minArea : Nat, m_ccMode : Modes]
    BY BlobsAssumption
  <2>2. params' = [p EXCEPT !.m_maxBlobs = IF p.m_maxBlobs <= MAX_BLOBS THEN p.m_maxBlobs ELSE MAX_BLOBS]
    BY DEF SetParams
  <2> DEFINE m == IF p.m_maxBlobs <= MAX_BLOBS THEN p.m_maxBlobs ELSE MAX_BLOBS
  <2>3. m \in 0..MAX_BLOBS
    BY <2>1, TableAssumption
  <2> HIDE DEF m
  <2>4. [p EXCEPT !.m_maxBlobs = m] \in Params
    BY <2>1, <2>3 DEF Params
  <2> QED BY <2>2, <2>4 DEF m
<1>4. ~Building /\ ~Building'
  BY <1>1 DEF Building, Stages
<1>5. Types'
  BY <1>1, <1>2, <1>3, <1>4 DEF Inv, Types
<1>6. Counted' /\ ReadUpTo' /\ SettledSoFar' /\ Stage'
  BY <1>1, <1>2, <1>4 DEF Inv, Counted, ReadUpTo, SettledSoFar, Stage
<1>7. ReadInOrder' /\ MaxBlobIsBiggest'
  BY <1>1, <1>2 DEF Inv, ReadInOrder, MaxBlobIsBiggest, Table
<1> QED BY <1>5, <1>6, <1>7 DEF Inv

-----------------------------------------------------------------------------
(* A frame begins, or is discarded.                                        *)

LEMMA TableType ==
  ASSUME NEW a \in Seq(BlobA), NEW b \in Seq(BlobB)
  PROVE  /\ a \o b \in Seq(BlobA \cup BlobB) /\ Len(a \o b) = Len(a) + Len(b)
         /\ \A k \in 1..Len(a) : (a \o b)[k] = a[k]
         /\ \A k \in 1..Len(b) : (a \o b)[Len(a) + k] = b[k]
<1> DEFINE T == BlobA \cup BlobB
<1>1. a \in Seq(T) /\ b \in Seq(T)
  BY SeqOfMore
<1>2. Len(a) \in Nat /\ Len(b) \in Nat
  OBVIOUS
<1> HIDE DEF T
<1>3. /\ a \o b \in Seq(T) /\ Len(a \o b) = Len(a) + Len(b)
      /\ \A k \in 1..Len(a) + Len(b) : (a \o b)[k] = IF k <= Len(a) THEN a[k] ELSE b[k - Len(a)]
  BY <1>1, ConcatProperties
<1>4. \A k \in 1..Len(a) : (a \o b)[k] = a[k]
  BY <1>2, <1>3
<1>5. \A k \in 1..Len(b) : (a \o b)[Len(a) + k] = b[k]
  <2> TAKE k \in 1..Len(b)
  <2>1. Len(a) + k \in 1..Len(a) + Len(b) /\ ~(Len(a) + k <= Len(a)) /\ Len(a) + k - Len(a) = k
    BY <1>2
  <2> QED BY <1>3, <2>1
<1> QED BY <1>3, <1>4, <1>5 DEF T

LEMMA NothingRead ==
  ASSUME m_blobs' \in Seq(BlobA), m_ccBlobs' \in Seq(BlobB), sent' = <<>>, m_maxBlob' = NULL
  PROVE  ReadInOrder' /\ MaxBlobIsBiggest'
<1>1. Len(Table') \in Nat
  BY TableType DEF Table
<1>2. Len(sent') = 0 /\ DOMAIN sent' = {}
  OBVIOUS
<1> QED BY <1>1, <1>2 DEF ReadInOrder, MaxBlobIsBiggest

LEMMA NewFrameInv ==
  ASSUME Inv, NEW f \in Frames, NewFrame(f)
  PROVE  Inv'
<1> DEFINE none == <<>>
<1>1. none \in Seq(BlobA) /\ none \in Seq(BlobB) /\ none \in Seq(Readable) /\ Len(none) = 0
  BY NoEntries
<1>2. /\ m_blobs' = none /\ m_ccBlobs' = none /\ sent' = none /\ m_maxBlob' = none
      /\ pc' = "copy" /\ frame' = "published" /\ m_mutex' = TRUE /\ finished' = f /\ sig' = 1
      /\ m_numBlobs' = 0 /\ m_numCCBlobs' = 0 /\ params' = params
      /\ m_blobReadIndex' = m_blobReadIndex /\ m_ccBlobReadIndex' = m_ccBlobReadIndex
  BY DEF NewFrame, NULL
<1>3. ReadInOrder' /\ MaxBlobIsBiggest'
  <2>1. m_blobs' \in Seq(BlobA) /\ m_ccBlobs' \in Seq(BlobB) /\ sent' = <<>> /\ m_maxBlob' = NULL
    BY <1>1, <1>2 DEF NULL
  <2> QED BY <2>1, NothingRead
<1>4. Building' /\ params \in Params /\ params.m_maxBlobs \in Nat
  BY <1>2, TableAssumption DEF Building, Stages, Inv, Types, Params
<1>5. Counted'
  <2>1. Building' => frame' = "published" /\ sent' = <<>> /\ m_maxBlob' = NULL
    BY <1>2 DEF NULL
  <2>2. Len(m_blobs') <= params'.m_maxBlobs /\ m_numBlobs' = Len(m_blobs')
        /\ m_numCCBlobs' = Len(m_ccBlobs') /\ m_ccBlobs' = <<>>
    BY <1>1, <1>2, <1>4
  <2> QED BY <1>2, <2>1, <2>2 DEF Counted
<1> HIDE DEF none
<1>6. Types'
  <2>1. /\ m_blobs' \in Seq(BlobA) /\ Len(m_blobs') = 0 /\ m_ccBlobs' \in Seq(BlobB)
        /\ sent' \in Seq(Readable)
    BY <1>1, <1>2
  <2>2. m_blobReadIndex' \in 0..MAX_BLOBS /\ m_ccBlobReadIndex' \in 0..MAX_BLOBS
    BY <1>2 DEF Inv, Types
  <2>3. pc' \in Stages
    BY <1>2 DEF Stages
  <2> QED BY <1>2, <1>4, <2>1, <2>2, <2>3, SignatureBounds, TableAssumption DEF Types
<1>7. ReadUpTo' /\ SettledSoFar' /\ Stage'
  <2>1. 1..Len(m_blobs') = {}
    BY <1>1, <1>2
  <2>2. ReadUpTo'
    BY <1>4 DEF ReadUpTo
  <2>3. SettledSoFar'
    BY <2>1 DEF SettledSoFar
  <2>4. Stage'
    BY <1>2, <2>1 DEF Stage
  <2> QED BY <2>2, <2>3, <2>4
<1> QED BY <1>3, <1>5, <1>6, <1>7 DEF Inv

LEMMA OverrunInv ==
  ASSUME Inv, Overrun \/ OverrunEnds
  PROVE  Inv'
<1>1. /\ pc \in {"ready", "overrun"} /\ pc' \in {"ready", "overrun"} /\ frame' # "published"
      /\ finished' = finished /\ sig' = sig /\ m_mutex' = m_mutex /\ params' = params
      /\ m_blobs' = m_blobs /\ m_ccBlobs' = m_ccBlobs /\ sent' = sent
      /\ m_numBlobs' \in {0, m_numBlobs} /\ m_numCCBlobs' \in {0, m_numCCBlobs}
      /\ m_blobReadIndex' = m_blobReadIndex /\ m_ccBlobReadIndex' = m_ccBlobReadIndex
  BY DEF Overrun, OverrunEnds, reading, Inv, Counted
<1>2. ~Building /\ ~Building'
  BY <1>1 DEF Building, Stages
<1>3. Types'
  BY <1>1, <1>2, TableAssumption DEF Inv, Types
<1>4. Counted' /\ ReadUpTo' /\ SettledSoFar' /\ Stage' /\ ReadInOrder' /\ MaxBlobIsBiggest'
  <2>1. pc' \notin {"copy", "combine", "mark", "codes", "publish"}
    BY <1>1
  <2> QED BY <1>1, <1>2, <2>1
          DEF Counted, ReadUpTo, SettledSoFar, Stage, ReadInOrder, MaxBlobIsBiggest
<1> QED BY <1>3, <1>4 DEF Inv

-----------------------------------------------------------------------------
(* The stages of blobify.                                                  *)

\* What all stages but the last have in common.
LEMMA StageInv ==
  ASSUME Inv, Building, pc' \in Stages, sig' \in Signatures,
         finished' = finished, m_mutex' = m_mutex, reading' = reading,
         params' = params, frame' = frame,
         m_blobs' \in Seq(BlobA), Len(m_blobs') <= params.m_maxBlobs, m_numBlobs' = Len(m_blobs'),
         m_ccBlobs' \in Seq(BlobB), Len(m_ccBlobs') <= MAX_BLOBS, m_numCCBlobs' = Len(m_ccBlobs'),
         pc' # "publish" => m_ccBlobs' = <<>>,
         SettledSoFar', Stage'
  PROVE  Inv'
<1>1. Building' /\ params.m_maxBlobs \in 0..MAX_BLOBS
  BY DEF Building, Inv, Types, Params
<1>2. /\ m_blobReadIndex' = m_blobReadIndex /\ m_ccBlobReadIndex' = m_ccBlobReadIndex
      /\ m_maxBlob' = m_maxBlob /\ sent' = sent
  BY DEF reading
<1>3. sent' = <<>> /\ m_maxBlob' = NULL /\ frame' = "published"
  BY <1>2 DEF Inv, Counted
<1>4. ReadInOrder' /\ MaxBlobIsBiggest'
  BY <1>3, NothingRead
<1>5. Len(m_blobs') \in Nat /\ Len(m_ccBlobs') \in Nat /\ m_numBlobs' \in 0..MAX_BLOBS
      /\ m_numCCBlobs' \in 0..MAX_BLOBS /\ Len(m_blobs') <= MAX_BLOBS
  <2>1. Len(m_blobs') \in Nat /\ Len(m_ccBlobs') \in Nat
    OBVIOUS
  <2> QED BY <1>1, <2>1, TableAssumption
<1>6. Types'
  <2>1. finished' \in Frames /\ m_mutex' \in BOOLEAN /\ (m_mutex' <=> Building')
    BY <1>1 DEF Inv, Types
  <2>2. /\ m_blobReadIndex' \in 0..MAX_BLOBS /\ m_ccBlobReadIndex' \in 0..MAX_BLOBS
        /\ params' \in Params /\ sent' \in Seq(Readable)
    BY <1>2 DEF Inv, Types
  <2> QED BY <1>5, <2>1, <2>2 DEF Types
<1>7. Counted'
  BY <1>3 DEF Counted, Stages
<1>8. ReadUpTo'
  BY <1>1 DEF ReadUpTo
<1> QED BY <1>4, <1>6, <1>7, <1>8 DEF Inv

\* The blobs of the signature are of its own or invalid, and settled if it is an
\* ordinary one.
LEMMA NewEntries ==
  ASSUME Inv, pc = "copy",
         NEW new, new = IF sig \in CodeSigs THEN Copied ELSE Combine2UntilDone(Copied)
  PROVE  /\ new \in Seq(Entry({sig, 0})) /\ \A k \in 1..Len(new) : ~Marked(new[k])
         /\ Len(m_blobs) + Len(new) <= params.m_maxBlobs
         /\ sig \notin CodeSigs => NoneTouch(new)
<1> DEFINE from == Front_n(finished[sig], params.m_maxBlobsPerModel)
           room == params.m_maxBlobs - m_numBlobs
           c == [from |-> from, sig |-> sig, room |-> room,
                 minArea |-> IF sig \in CodeSigs THEN MIN_COLOR_CODE_AREA ELSE params.m_minArea]
           S == {sig, 0}
<1>1. /\ sig \in Signatures /\ finished \in Frames /\ params \in Params /\ m_blobs \in Seq(BlobA)
      /\ m_numBlobs = Len(m_blobs) /\ Len(m_blobs) <= params.m_maxBlobs
  BY DEF Inv, Types, Counted, Building, Stages
<1>2. from \in Seq(Finished)
  <2>1. finished[sig] \in Seq(Finished) /\ params.m_maxBlobsPerModel \in Nat
    BY <1>1, BlobsAssumption DEF Params
  <2> QED BY <2>1, FrontEffect
<1>3. room \in Nat /\ Len(m_blobs) \in Nat /\ Len(m_blobs) + room = params.m_maxBlobs
  BY <1>1, TableAssumption DEF Params
<1>4. \A b \in Finished : b.left \in Nat /\ b.right \in Nat /\ b.top \in Nat /\ b.bottom \in Nat
  BY DEF Finished
<1>5. Copied = Loop(CopyBlob, c, <<>>, 0, Len(from))
  BY Zenon DEF Copied
<1>6. c.from = from /\ c.room = room /\ c.sig = sig
  OBVIOUS
<1> HIDE DEF c, from, room
<1>7. Copied \in Seq(Copies({sig})) /\ Len(Copied) <= room
  BY <1>2, <1>3, <1>4, <1>5, <1>6, CopyEffect
<1> DEFINE old == Copied
<1>8. old \in Seq(Entry(S)) /\ Len(old) \in Nat /\ Len(old) <= room
      /\ \A k \in 1..Len(old) : old[k].clump = 0
  <2> HIDE DEF old
  <2>1. old \in Seq(Copies({sig})) /\ Len(old) <= room
    BY <1>7 DEF old
  <2>2. Copies({sig}) \subseteq Entry(S) /\ \A b \in Copies({sig}) : b.clump = 0
    BY DEF Copies, Entry
  <2>3. \A k \in 1..Len(old) : old[k] \in Copies({sig})
    BY <2>1
  <2> HIDE DEF S
  <2>4. old \in Seq(Entry(S))
    BY <2>1, <2>2, SeqOfMore
  <2>5. Len(old) \in Nat
    BY <2>1
  <2> QED BY <2>1, <2>2, <2>3, <2>4, <2>5
<1> DEFINE combined == Combine2UntilDone(old)
<1> HIDE DEF old
<1>9. Fewer(S, old, combined) /\ NoneTouch(combined)
  BY <1>8, Combine2Ends
<1>10. new = IF sig \in CodeSigs THEN old ELSE combined
  BY DEF old
<1> HIDE DEF combined
<1>11. CASE sig \in CodeSigs
  <2>1. new = old
    BY <1>10, <1>11
  <2> QED BY <1>3, <1>8, <1>11, <2>1 DEF Marked
<1>12. CASE sig \notin CodeSigs
  <2>1. new = combined
    BY <1>10, <1>12
  <2>2. new \in Seq(Entry(S)) /\ Len(new) = Len(old)
    BY <1>9, <2>1 DEF Fewer
  <2>3. \A k \in 1..Len(new) : ~Marked(new[k])
    BY <1>8, <1>9, <2>1, <2>2 DEF Fewer, Marked
  <2> QED BY <1>3, <1>8, <1>9, <1>12, <2>1, <2>2, <2>3
<1> QED BY <1>11, <1>12

LEMMA CopyInv ==
  ASSUME Inv, CopySignature
  PROVE  Inv'
<1> DEFINE new == IF sig \in CodeSigs THEN Copied ELSE Combine2UntilDone(Copied)
           S == {sig, 0}
           a == m_blobs
           t == a \o new
<1>1. pc = "copy" /\ Building /\ sig \in Signatures
  BY DEF CopySignature, Building, Stages, Inv, Types
<1>2. /\ new \in Seq(Entry(S)) /\ \A k \in 1..Len(new) : ~Marked(new[k])
      /\ Len(a) + Len(new) <= params.m_maxBlobs /\ (sig \notin CodeSigs => NoneTouch(new))
  BY <1>1, NewEntries
<1>3. /\ m_blobs' = t /\ m_numBlobs' = Len(m_blobs')
      /\ sig' = (IF sig + 1 \in Signatures THEN sig + 1 ELSE 1)
      /\ pc' = (IF sig + 1 \in Signatures THEN "copy" ELSE "combine")
      /\ finished' = finished /\ m_mutex' = m_mutex /\ m_ccBlobs' = m_ccBlobs
      /\ m_numCCBlobs' = m_numCCBlobs /\ reading' = reading /\ params' = params /\ frame' = frame
  BY DEF CopySignature
<1> HIDE DEF new
<1>4. /\ a \in Seq(BlobA) /\ m_ccBlobs \in Seq(BlobB) /\ m_numCCBlobs \in 0..MAX_BLOBS
      /\ m_ccBlobs = <<>> /\ m_numCCBlobs = Len(m_ccBlobs)
      /\ \A k \in 1..Len(a) : a[k].sig < sig /\ ~Marked(a[k])
      /\ SettledSoFar
  BY <1>1 DEF Inv, Types, Counted, Stage
<1>5. sig \in 1..7 /\ 1 \in Signatures /\ Len(a) \in Nat /\ Len(new) \in Nat
  BY <1>1, <1>2, <1>4, SignatureBounds
<1>6. new \in Seq(BlobA)
  <2>1. \A k \in 1..Len(new) : new[k] \in Entry(S) /\ new[k].clump = 0
    BY <1>2 DEF Marked
  <2>2. \A k \in 1..Len(new) : new[k] \in Entry(Sigs) /\ new[k].clump <= MAX_BLOBS
    BY <1>1, <2>1, TableAssumption DEF Entry, Sigs
  <2>3. new \in Seq(Entry(Sigs))
    <3>1. new = [k \in 1..Len(new) |-> new[k]]
      BY <1>2
    <3> QED BY <1>5, <2>2, <3>1, FunctionIsSequence
  <2> QED BY <2>2, <2>3, TypedEntries
<1>7. /\ t \in Seq(BlobA) /\ Len(t) = Len(a) + Len(new)
      /\ \A k \in 1..Len(t) : t[k] = IF k <= Len(a) THEN a[k] ELSE new[k - Len(a)]
  BY <1>4, <1>6, ConcatProperties
<1> HIDE DEF a, t
<1>8. \A k \in 1..Len(t) : ~(k <= Len(a)) => k - Len(a) \in 1..Len(new)
  BY <1>5, <1>7
<1>9. \A k \in 1..Len(new) : (new[k].sig = sig \/ new[k].sig = 0) /\ ~Marked(new[k])
  <2>1. \A k \in 1..Len(new) : new[k] \in Entry(S)
    BY <1>2
  <2> QED BY <1>2, <2>1 DEF Entry
<1>10. \A k \in 1..Len(t) : t[k].sig <= sig /\ ~Marked(t[k])
  <2> TAKE k \in 1..Len(t)
  <2>1. CASE k <= Len(a)
    <3>1. k \in 1..Len(a) /\ t[k] = a[k]
      BY <1>5, <1>7, <2>1
    <3>2. a[k].sig \in Nat
      <4>1. a[k] \in BlobA
        BY <1>4, <3>1 DEF a
      <4> QED BY <4>1, SigType
    <3> QED BY <1>4, <1>5, <3>1, <3>2 DEF a
  <2>2. CASE ~(k <= Len(a))
    <3>1. t[k] = new[k - Len(a)] /\ k - Len(a) \in 1..Len(new)
      BY <1>7, <1>8, <2>2
    <3>2. t[k].sig \in {sig, 0} /\ ~Marked(t[k])
      BY <1>9, <3>1
    <3> QED BY <1>5, <3>2
  <2> QED BY <2>1, <2>2
<1>11. Stage'
  <2>1. CASE sig + 1 \in Signatures
    <3>1. pc' = "copy" /\ sig' = sig + 1
      BY <1>3, <2>1
    <3>2. \A k \in 1..Len(t) : t[k].sig < sig + 1
      <4>1. \A k \in 1..Len(t) : t[k] \in BlobA
        BY <1>7
      <4>2. \A k \in 1..Len(t) : t[k].sig \in Nat
        BY <4>1, SigType
      <4> QED BY <1>5, <1>10, <4>2
    <3> QED BY <1>3, <1>10, <3>1, <3>2 DEF Stage
  <2>2. CASE sig + 1 \notin Signatures
    <3>1. pc' = "combine"
      BY <1>3, <2>2
    <3> QED BY <1>3, <1>10, <3>1 DEF Stage
  <2> QED BY <2>1, <2>2
<1>12. SettledSoFar'
  <2> SUFFICES ASSUME NEW i \in 1..Len(t), NEW j \in 1..Len(t), i < j, t[i].sig = t[j].sig,
                      t[i].sig \notin CodeSigs \cup {0}
               PROVE  Side(t[i], t[j]) = "none"
    BY <1>3 DEF SettledSoFar, CodeSigs
  <2>1. CASE j <= Len(a)
    <3>1. i \in 1..Len(a) /\ j \in 1..Len(a) /\ t[i] = a[i] /\ t[j] = a[j]
      BY <1>5, <1>7, <2>1
    <3> QED BY <1>1, <1>4, <3>1 DEF SettledSoFar, a
  <2>2. CASE ~(j <= Len(a)) /\ i <= Len(a)
    <3>1. i \in 1..Len(a) /\ t[i] = a[i] /\ t[j] = new[j - Len(a)] /\ j - Len(a) \in 1..Len(new)
      BY <1>5, <1>7, <1>8, <2>2
    <3>2. a[i].sig < sig /\ a[i].sig # 0
      BY <1>4, <3>1 DEF a
    <3>3. t[j].sig = sig \/ t[j].sig = 0
      BY <1>9, <3>1
    <3> QED BY <1>5, <3>1, <3>2, <3>3
  <2>3. CASE ~(i <= Len(a))
    <3>1. ~(j <= Len(a))
      BY <1>5, <2>3
    <3>2. /\ t[i] = new[i - Len(a)] /\ i - Len(a) \in 1..Len(new)
          /\ t[j] = new[j - Len(a)] /\ j - Len(a) \in 1..Len(new)
      BY <1>7, <1>8, <2>3, <3>1
    <3>3. t[i].sig = sig /\ t[i].sig # 0 /\ t[j].sig # 0
      BY <1>9, <3>2
    <3>4. NoneTouch(new) /\ i - Len(a) < j - Len(a)
      BY <1>2, <1>5, <3>3
    <3> QED BY <3>2, <3>3, <3>4 DEF NoneTouch, Valid
  <2> QED BY <2>1, <2>2, <2>3
<1>13. pc' \in Stages /\ sig' \in Signatures /\ pc' # "publish"
  BY <1>3, <1>5 DEF Stages
<1>14. Len(m_ccBlobs') <= MAX_BLOBS
  BY <1>3, <1>4
<1>15. m_blobs' \in Seq(BlobA) /\ Len(m_blobs') <= params.m_maxBlobs
  BY <1>2, <1>3, <1>7
<1> QED BY <1>1, <1>3, <1>4, <1>11, <1>12, <1>13, <1>14, <1>15, StageInv

\* A pass that at most makes blobs invalid leaves no two that touch.
LEMMA SettledWhenDropped ==
  ASSUME Inv, Building, params' = params, Dropped(Sigs, m_blobs, m_blobs')
  PROVE  SettledSoFar'
<1> DEFINE s == m_blobs  t == m_blobs'
<1>1. s \in Seq(Entry(Sigs)) /\ Len(t) = Len(s) /\ SettledSoFar /\ CodeSigs' = CodeSigs
  BY TableEntries DEF Dropped, Inv, Types, CodeSigs
<1> SUFFICES ASSUME NEW i \in 1..Len(s), NEW j \in 1..Len(s), i < j, t[i].sig = t[j].sig,
                    t[i].sig \notin CodeSigs \cup {0}
             PROVE  Side(t[i], t[j]) = "none"
  BY <1>1 DEF SettledSoFar
<1>2. Valid(t[i]) /\ Valid(t[j])
  BY DEF Valid
<1>3. t[i] = s[i] /\ t[j] = s[j]
  BY <1>1, <1>2, DroppedValid DEF ValidSet, Sigs
<1> QED BY <1>1, <1>3 DEF SettledSoFar

LEMMA CombineInv ==
  ASSUME Inv, Combine
  PROVE  Inv'
<1>1. /\ pc = "combine" /\ pc' \in {"publish", "mark"} /\ m_blobs' = combine(m_blobs)
      /\ finished' = finished /\ sig' = sig /\ m_mutex' = m_mutex /\ m_numBlobs' = m_numBlobs
      /\ m_ccBlobs' = m_ccBlobs /\ m_numCCBlobs' = m_numCCBlobs /\ reading' = reading
      /\ params' = params /\ frame' = frame
  BY DEF Combine
<1>2. /\ Building /\ m_blobs \in Seq(BlobA) /\ Len(m_blobs) <= params.m_maxBlobs
      /\ m_numBlobs = Len(m_blobs) /\ m_ccBlobs = <<>> /\ m_numCCBlobs = Len(m_ccBlobs)
      /\ m_numCCBlobs \in 0..MAX_BLOBS /\ sig \in Signatures /\ m_ccBlobs \in Seq(BlobB)
      /\ \A k \in 1..Len(m_blobs) : ~Marked(m_blobs[k])
  BY <1>1 DEF Inv, Types, Counted, Building, Stages, Stage
<1>3. Dropped(Sigs, m_blobs, m_blobs')
  BY <1>1, <1>2, TableEntries, CombineEffect DEF Sigs
<1>4. m_blobs' \in Seq(BlobA) /\ Len(m_blobs') = Len(m_blobs)
  BY <1>2, <1>3, DroppedEntries DEF Dropped
<1>5. SettledSoFar'
  BY <1>1, <1>2, <1>3, SettledWhenDropped
<1>6. Stage'
  <2>1. \A k \in 1..Len(m_blobs') : ~Marked(m_blobs'[k])
    <3> TAKE k \in 1..Len(m_blobs')
    <3>1. k \in 1..Len(m_blobs) /\ (m_blobs'[k] = m_blobs[k] \/ m_blobs'[k] = Invalid(m_blobs[k]))
      BY <1>3, <1>4 DEF Dropped
    <3>2. m_blobs[k] \in Entry(Sigs)
      BY <1>2, <3>1, TableEntries
    <3>3. ~Marked(Invalid(m_blobs[k]))
      BY <3>2, InvalidBlob DEF Sigs
    <3> QED BY <1>2, <3>1, <3>3
  <2>2. CASE pc' = "mark"
    BY <2>1, <2>2 DEF Stage
  <2>3. CASE pc' = "publish"
    <3> DEFINE none == <<>>
    <3>1. none \in Seq(CodeEntry(CodeSigs')) /\ Len(none) = 0
      BY NoEntries
    <3>2. m_ccBlobs' = none
      BY <1>1, <1>2
    <3> HIDE DEF none
    <3> QED BY <2>3, <3>1, <3>2 DEF Stage, Fits
  <2> QED BY <1>1, <2>2, <2>3
<1>7. pc' \in Stages
  BY <1>1 DEF Stages
<1>8. /\ Len(m_blobs') <= params.m_maxBlobs /\ m_numBlobs' = Len(m_blobs')
      /\ m_ccBlobs' \in Seq(BlobB) /\ Len(m_ccBlobs') <= MAX_BLOBS /\ m_numCCBlobs' = Len(m_ccBlobs')
      /\ m_ccBlobs' = <<>> /\ sig' \in Signatures
  BY <1>1, <1>2, <1>4
<1> QED BY <1>1, <1>2, <1>4, <1>5, <1>6, <1>7, <1>8, StageInv

LEMMA MarkClumpsInv ==
  ASSUME Inv, MarkClumps
  PROVE  Inv'
<1> DEFINE s == m_blobs  t == m_blobs'
<1>1. /\ pc = "mark" /\ pc' = "codes" /\ t = MergeClose(MarkClose(s, CodeSigs), CodeSigs)
      /\ finished' = finished /\ sig' = sig /\ m_mutex' = m_mutex /\ m_numBlobs' = m_numBlobs
      /\ m_ccBlobs' = m_ccBlobs /\ m_numCCBlobs' = m_numCCBlobs /\ reading' = reading
      /\ params' = params /\ frame' = frame /\ CodeSigs' = CodeSigs
  BY DEF MarkClumps, CodeSigs
<1>2. /\ Building /\ s \in Seq(BlobA) /\ Len(s) <= params.m_maxBlobs /\ Len(s) <= MAX_BLOBS
      /\ m_numBlobs = Len(s) /\ m_ccBlobs = <<>> /\ m_numCCBlobs = Len(m_ccBlobs)
      /\ m_numCCBlobs \in 0..MAX_BLOBS /\ sig \in Signatures /\ m_ccBlobs \in Seq(BlobB)
      /\ \A k \in 1..Len(s) : ~Marked(s[k])
      /\ SettledSoFar
  BY <1>1 DEF Inv, Types, Counted, Building, Stages, Stage
<1>3. s \in Seq(Entry(Sigs)) /\ Len(s) \in Nat
  BY <1>2, TableEntries
<1>4. Relabelled(Sigs, s, t) /\ Labelled(t, CodeSigs, Len(s))
  BY <1>1, <1>2, <1>3, MarkEffect
<1>5. t \in Seq(Entry(Sigs)) /\ Len(t) = Len(s)
  BY <1>4 DEF Relabelled
<1>6. t \in Seq(BlobA)
  <2>1. ASSUME NEW k \in 1..Len(t) PROVE t[k].clump <= MAX_BLOBS
    <3>1. t[k] \in Entry(Sigs)
      BY <1>5
    <3>2. t[k].clump \in Nat /\ t[k].clump <= Len(s)
      BY <1>4, <3>1 DEF Labelled, Entry
    <3> QED BY <1>2, <1>3, <3>2, TableAssumption
  <2> QED BY <1>5, <2>1, TypedEntries
<1>7. Stage'
  BY <1>1, <1>4, <1>5 DEF Stage
<1>8. SettledSoFar'
  <2>1. ASSUME NEW k \in 1..Len(s)
        PROVE  /\ t[k].sig = s[k].sig /\ t[k].left = s[k].left /\ t[k].right = s[k].right
               /\ t[k].top = s[k].top /\ t[k].bottom = s[k].bottom
    <3>1. s[k] \in Entry(Sigs) /\ t[k] = [s[k] EXCEPT !.clump = t[k].clump]
      BY <1>3, <1>4 DEF Relabelled
    <3> QED BY <3>1 DEF Entry
  <2>2. ASSUME NEW i \in 1..Len(s), NEW j \in 1..Len(s)
        PROVE  Side(t[i], t[j]) = Side(s[i], s[j])
    BY <2>1 DEF Side, RowsMeet, ColsMeet, Within
  <2> QED BY <1>1, <1>2, <1>5, <2>1, <2>2 DEF SettledSoFar
<1>9. pc' \in Stages /\ pc' # "publish"
  BY <1>1 DEF Stages
<1>10. /\ m_blobs' \in Seq(BlobA) /\ Len(m_blobs') <= params.m_maxBlobs /\ m_numBlobs' = Len(m_blobs')
       /\ m_ccBlobs' \in Seq(BlobB) /\ Len(m_ccBlobs') <= MAX_BLOBS /\ m_numCCBlobs' = Len(m_ccBlobs')
       /\ m_ccBlobs' = <<>> /\ sig' \in Signatures
  BY <1>1, <1>2, <1>5, <1>6
<1> QED BY <1>1, <1>2, <1>7, <1>8, <1>9, <1>10, StageInv

LEMMA CodeEntries ==
  CodeEntry(CodeSigs) \subseteq BlobB
<1>1. CodeSigs \subseteq 1..7
  BY CodeSigsBound, SignatureBounds
<1>2. CodesOf(CodeSigs) \subseteq CodeValues
  <2> SUFFICES ASSUME NEW c \in CodesOf(CodeSigs) PROVE c \in CodeValues
    OBVIOUS
  <2>1. PICK sigs \in Seq(CodeSigs) : ColorCode(sigs, CodeSigs) /\ c = SmallerCode(sigs)
    BY Zenon DEF CodesOf
  <2> QED BY <1>1, <2>1, SmallerCodeEffect DEF CodeValues
<1> QED BY <1>2 DEF CodeEntry, BlobB

LEMMA ProcessCodesInv ==
  ASSUME Inv, ProcessCodes
  PROVE  Inv'
<1> DEFINE s == m_blobs  count == Clumps(m_blobs)  mixed == params.m_ccMode = "MIXED"
           made == MakeCodes(s, count, CodeSigs, mixed)
<1>1. /\ pc = "codes" /\ pc' = "publish" /\ m_blobs' = made.blobs /\ m_ccBlobs' = made.codes
      /\ m_numCCBlobs' = Len(made.codes)
      /\ finished' = finished /\ sig' = sig /\ m_mutex' = m_mutex /\ m_numBlobs' = m_numBlobs
      /\ reading' = reading /\ params' = params /\ frame' = frame /\ CodeSigs' = CodeSigs
  BY DEF ProcessCodes, CodeSigs
<1>2. /\ Building /\ s \in Seq(BlobA) /\ Len(s) <= params.m_maxBlobs /\ Len(s) <= MAX_BLOBS
      /\ m_numBlobs = Len(s) /\ sig \in Signatures /\ Labelled(s, CodeSigs, Len(s))
  BY <1>1 DEF Inv, Types, Counted, Building, Stages, Stage
<1>3. s \in Seq(Entry(Sigs)) /\ Len(s) \in Nat
  BY <1>2, TableEntries
<1>4. count \in Nat
  <2>1. \A k \in 1..Len(s) : s[k].clump <= Len(s)
    BY <1>2 DEF Labelled
  <2>2. count \in 0..Len(s)
    BY <1>3, <2>1, ClumpsBound
  <2> QED BY <1>3, <2>2
<1> HIDE DEF count, mixed
<1>5. /\ Dropped(Sigs, s, made.blobs)
      /\ made.codes \in Seq(CodeEntry(CodeSigs)) /\ Fits(Len(s), Len(made.codes))
  <2> DEFINE m == made
  <2>1. m = MakeCodes(s, count, CodeSigs, mixed)
    OBVIOUS
  <2>2. 0 \in Sigs
    BY DEF Sigs
  <2> HIDE DEF m
  <2>3. /\ Dropped(Sigs, s, m.blobs)
        /\ m.codes \in Seq(CodeEntry(CodeSigs)) /\ Fits(Len(s), Len(m.codes))
    BY <1>2, <1>3, <1>4, <2>1, <2>2, CodesEffect
  <2> QED BY <2>3 DEF m
<1> HIDE DEF made
<1>6. m_blobs' \in Seq(BlobA) /\ Len(m_blobs') = Len(s)
  BY <1>1, <1>2, <1>5, DroppedEntries DEF Dropped
<1>7. SettledSoFar'
  BY <1>1, <1>2, <1>5, SettledWhenDropped
<1>8. Stage'
  BY <1>1, <1>5, <1>6 DEF Stage
<1>9. m_ccBlobs' \in Seq(BlobB) /\ Len(m_ccBlobs') <= MAX_BLOBS
  <2> DEFINE n == Len(made.codes)
  <2>1. made.codes \in Seq(BlobB) /\ n \in Nat
    BY <1>5, CodeEntries, SeqOfMore
  <2>2. n = 0 \/ 5 * Len(s) + 6 * n <= 5 * MAX_BLOBS
    BY <1>5 DEF Fits
  <2> HIDE DEF n
  <2>3. n <= MAX_BLOBS
    BY <1>3, <2>1, <2>2, TableAssumption
  <2> QED BY <1>1, <2>1, <2>3 DEF n
<1>10. pc' \in Stages
  BY <1>1 DEF Stages
<1>11. /\ Len(m_blobs') <= params.m_maxBlobs /\ m_numBlobs' = Len(m_blobs')
       /\ m_numCCBlobs' = Len(m_ccBlobs') /\ sig' \in Signatures
  BY <1>1, <1>2, <1>6
<1> QED BY <1>1, <1>2, <1>6, <1>7, <1>8, <1>9, <1>10, <1>11, StageInv

LEMMA PublishInv ==
  ASSUME Inv, Publish
  PROVE  Inv'
<1>1. /\ pc = "publish" /\ pc' = "ready" /\ m_blobs' = compress(m_blobs)
      /\ m_numBlobs' = Len(m_blobs') /\ m_blobReadIndex' = 0 /\ m_ccBlobReadIndex' = 0
      /\ m_mutex' = FALSE /\ sig' = sig /\ m_ccBlobs' = m_ccBlobs /\ m_numCCBlobs' = m_numCCBlobs
      /\ m_maxBlob' = m_maxBlob /\ sent' = sent /\ params' = params /\ frame' = frame
  BY DEF Publish
<1>2. /\ m_blobs \in Seq(BlobA) /\ Len(m_blobs) <= MAX_BLOBS /\ frame = "published"
      /\ sent = <<>> /\ m_maxBlob = NULL /\ m_numCCBlobs = Len(m_ccBlobs)
      /\ m_numCCBlobs \in 0..MAX_BLOBS /\ sig \in Signatures /\ m_ccBlobs \in Seq(BlobB)
      /\ params \in Params /\ sent \in Seq(Readable)
  BY <1>1 DEF Inv, Types, Counted, Building, Stages
<1>3. m_blobs' \in Seq(BlobA) /\ Len(m_blobs') \in 0..MAX_BLOBS
  <2>1. m_blobs' \in Seq(BlobA) /\ Len(m_blobs') <= Len(m_blobs)
    BY <1>1, <1>2, CompressEffect
  <2>2. Len(m_blobs') \in Nat /\ Len(m_blobs) \in Nat
    BY <1>2, <2>1
  <2> QED BY <1>2, <2>1, <2>2, TableAssumption
<1>4. ReadInOrder' /\ MaxBlobIsBiggest'
  BY <1>1, <1>2, <1>3, NothingRead
<1>5. ~Building'
  BY <1>1 DEF Building, Stages
<1>6. Types'
  <2>1. /\ sig' \in Signatures /\ m_mutex' \in BOOLEAN /\ (m_mutex' <=> Building')
        /\ m_ccBlobs' \in Seq(BlobB) /\ params' \in Params /\ sent' \in Seq(Readable)
    BY <1>1, <1>2, <1>5
  <2>2. /\ m_numBlobs' \in 0..MAX_BLOBS /\ m_numCCBlobs' \in 0..MAX_BLOBS
        /\ m_blobReadIndex' \in 0..MAX_BLOBS /\ m_ccBlobReadIndex' \in 0..MAX_BLOBS
        /\ Len(m_blobs') <= MAX_BLOBS
    BY <1>1, <1>2, <1>3, TableAssumption
  <2> QED BY <1>1, <1>3, <1>5, <2>1, <2>2 DEF Types
<1>7. Counted' /\ SettledSoFar' /\ Stage'
  BY <1>1, <1>2, <1>5 DEF Counted, SettledSoFar, Stage
<1>8. ReadUpTo'
  <2>1. Len(sent') = 0
    BY <1>1, <1>2
  <2> QED BY <1>1, <1>2, <1>3, <2>1 DEF ReadUpTo
<1> QED BY <1>4, <1>6, <1>7, <1>8 DEF Inv

-----------------------------------------------------------------------------
(* The interrupt and the program.                                          *)

LEMMA EntryType ==
  ASSUME NEW T, NEW blobs \in Seq(T), NEW k \in Nat \ {0}
  PROVE  /\ InMemory(blobs, k) \in T \cup {Wild}
         /\ k <= Len(blobs) => InMemory(blobs, k) = blobs[k]
<1>1. DOMAIN blobs = 1..Len(blobs) /\ Len(blobs) \in Nat /\ \A l \in 1..Len(blobs) : blobs[l] \in T
  OBVIOUS
<1>2. CASE k \in DOMAIN blobs
  <2>1. InMemory(blobs, k) = blobs[k]
    BY <1>2 DEF InMemory
  <2> QED BY <1>1, <1>2, <2>1
<1>3. CASE k \notin DOMAIN blobs
  <2>1. InMemory(blobs, k) = Wild
    BY <1>3 DEF InMemory
  <2> QED BY <1>1, <1>3, <2>1
<1> QED BY <1>2, <1>3

\* The next entry of the table is sent.
LEMMA SendNext ==
  ASSUME Inv, frame = "published", Table' = Table, frame' = frame,
         NEW e, NEW begin, sent' = Append(sent, [begin |-> begin, entry |-> e]),
         Len(sent) + 1 <= Len(Table), e = Table[Len(sent) + 1], begin = (Len(sent) = 0)
  PROVE  ReadInOrder'
<1> DEFINE n == Len(sent)  new == [begin |-> begin, entry |-> e]
<1>1. sent \in Seq(Readable) /\ n \in Nat /\ DOMAIN sent = 1..n
  BY DEF Inv, Types
<1>2. Len(Table) \in Nat
  BY TableType DEF Inv, Types, Table
<1>3. /\ Len(sent') = n + 1 /\ DOMAIN sent' = 1..n + 1
      /\ sent'[n + 1] = new /\ \A k \in 1..n : sent'[k] = sent[k]
  <2>1. sent = [k \in 1..n |-> sent[k]]
    BY <1>1
  <2> HIDE DEF new
  <2>2. sent' = Append(sent, new)
    BY DEF new
  <2> QED BY <1>1, <2>1, <2>2
<1>4. \A k \in 1..n : sent[k].entry = Table[k] /\ sent[k].begin = (k = 1)
  BY <1>1 DEF Inv, ReadInOrder
<1>5. new.entry = e /\ new.begin = begin
  OBVIOUS
<1> HIDE DEF n, new
<1>6. ASSUME NEW k \in 1..n + 1
      PROVE  sent'[k].entry = Table[k] /\ sent'[k].begin = (k = 1)
  <2>1. CASE k \in 1..n
    BY <1>3, <1>4, <2>1
  <2>2. CASE k = n + 1
    <3>1. sent'[k] = new
      BY <1>3, <2>2
    <3>2. begin = (k = 1)
      <4>1. (n = 0) <=> (k = 1)
        BY <1>1, <2>2
      <4>2. begin = (n = 0)
        BY DEF n
      <4> QED BY <4>1, <4>2
    <3>3. e = Table[k]
      BY <2>2 DEF n
    <3> QED BY <1>5, <3>1, <3>2, <3>3
  <2> QED BY <1>1, <2>1, <2>2
<1>7. n + 1 <= Len(Table)
  BY DEF n
<1> QED BY <1>3, <1>6, <1>7 DEF ReadInOrder

LEMMA GetBlockInv ==
  ASSUME Inv, getBlock
  PROVE  Inv'
<1> DEFINE i == m_blobReadIndex  j == m_ccBlobReadIndex
<1>1. /\ pc' = pc /\ finished' = finished /\ sig' = sig /\ m_mutex' = m_mutex
      /\ m_blobs' = m_blobs /\ m_ccBlobs' = m_ccBlobs /\ m_numBlobs' = m_numBlobs
      /\ m_numCCBlobs' = m_numCCBlobs /\ m_maxBlob' = m_maxBlob /\ params' = params /\ frame' = frame
      /\ m_mutex = FALSE
  BY DEF getBlock, getCCBlock, memory
<1>2. /\ m_blobs \in Seq(BlobA) /\ m_ccBlobs \in Seq(BlobB) /\ sent \in Seq(Readable)
      /\ i \in 0..MAX_BLOBS /\ j \in 0..MAX_BLOBS
      /\ m_numBlobs \in 0..MAX_BLOBS /\ m_numCCBlobs \in 0..MAX_BLOBS
      /\ ~Building
  BY <1>1 DEF Inv, Types
<1>3. ~Building' /\ Table' = Table
  BY <1>1, <1>2 DEF Building, Table
<1>4. frame = "published" =>
        /\ m_numBlobs = Len(m_blobs) /\ m_numCCBlobs = Len(m_ccBlobs)
        /\ i <= m_numBlobs /\ j <= m_numCCBlobs /\ Len(sent) = i + j /\ (j > 0 => i = m_numBlobs)
  BY <1>2 DEF Inv, Counted, ReadUpTo
<1>5. Counted' /\ SettledSoFar' /\ Stage' /\ MaxBlobIsBiggest'
  <2>1. SettledSoFar' /\ Stage'
    BY <1>3 DEF SettledSoFar, Stage, Building, Stages
  <2>2. Counted'
    BY <1>1, <1>3 DEF Inv, Counted
  <2>3. MaxBlobIsBiggest'
    BY <1>1, <1>3 DEF Inv, MaxBlobIsBiggest
  <2> QED BY <2>1, <2>2, <2>3
<1> DEFINE send(e, begin) == sent' = Append(sent, [begin |-> begin, entry |-> e])
<1>6. ASSUME NEW e \in BlobA \cup BlobB \cup {Wild}, NEW begin \in BOOLEAN, send(e, begin),
             m_blobReadIndex' \in 0..MAX_BLOBS, m_ccBlobReadIndex' \in 0..MAX_BLOBS,
             frame = "published" =>
               /\ i + j + 1 <= Len(Table) /\ e = Table[i + j + 1] /\ begin = (i + j = 0)
               /\ m_blobReadIndex' + m_ccBlobReadIndex' = i + j + 1
               /\ m_blobReadIndex' <= m_numBlobs /\ m_ccBlobReadIndex' <= m_numCCBlobs
               /\ m_ccBlobReadIndex' > 0 => m_blobReadIndex' = m_numBlobs
      PROVE  Inv'
  <2> DEFINE new == [begin |-> begin, entry |-> e]
  <2>1. new \in Readable
    BY <1>6 DEF Readable
  <2>2. sent' = Append(sent, new)
    BY <1>6
  <2> HIDE DEF new
  <2>3. sent' \in Seq(Readable) /\ Len(sent') = Len(sent) + 1
    BY <1>2, <2>1, <2>2, AppendProperties
  <2>4. Types'
    BY <1>1, <1>3, <1>6, <2>3 DEF Inv, Types
  <2>5. ReadInOrder'
    <3>1. CASE frame = "published"
      <4>1. /\ Len(sent) + 1 <= Len(Table) /\ e = Table[Len(sent) + 1]
            /\ begin = (Len(sent) = 0)
        BY <1>4, <1>6, <3>1
      <4>2. sent' = Append(sent, [begin |-> begin, entry |-> e])
        BY <2>2 DEF new
      <4> QED BY <1>1, <1>3, <3>1, <4>1, <4>2, SendNext
    <3>2. CASE frame # "published"
      BY <1>1, <3>2 DEF ReadInOrder
    <3> QED BY <3>1, <3>2
  <2>6. ReadUpTo'
    BY <1>1, <1>4, <1>6, <2>3 DEF ReadUpTo
  <2> QED BY <1>5, <2>4, <2>5, <2>6 DEF Inv
<1>7. Len(m_blobs) \in Nat /\ Len(m_ccBlobs) \in Nat /\ i \in Nat /\ j \in Nat
      /\ m_numBlobs \in Nat /\ m_numCCBlobs \in Nat
  BY <1>2, TableAssumption
<1>8. /\ Len(Table) = Len(m_blobs) + Len(m_ccBlobs)
      /\ \A k \in 1..Len(m_blobs) : Table[k] = m_blobs[k]
      /\ \A k \in 1..Len(m_ccBlobs) : Table[Len(m_blobs) + k] = m_ccBlobs[k]
  BY <1>2, TableType DEF Table
<1>9. CASE i >= m_numBlobs /\ getCCBlock
  <2> DEFINE e == InMemory(m_ccBlobs, j + 1)  begin == (i = 0 /\ j = 0)
  <2>1. send(e, begin) /\ m_ccBlobReadIndex' = j + 1 /\ m_blobReadIndex' = i /\ j < m_numCCBlobs
    BY <1>9 DEF getCCBlock, Send
  <2>2. e \in BlobB \cup {Wild} /\ (j + 1 <= Len(m_ccBlobs) => e = m_ccBlobs[j + 1])
    BY <1>2, <1>7, EntryType
  <2> HIDE DEF e
  <2>3. begin \in BOOLEAN /\ (begin <=> i + j = 0)
    BY <1>7
  <2>4. m_blobReadIndex' \in 0..MAX_BLOBS /\ m_ccBlobReadIndex' \in 0..MAX_BLOBS
    BY <1>2, <1>7, <2>1, TableAssumption
  <2>5. ASSUME frame = "published"
        PROVE  /\ i + j + 1 <= Len(Table) /\ e = Table[i + j + 1]
               /\ m_blobReadIndex' + m_ccBlobReadIndex' = i + j + 1
               /\ m_blobReadIndex' <= m_numBlobs /\ m_ccBlobReadIndex' <= m_numCCBlobs
               /\ m_ccBlobReadIndex' > 0 => m_blobReadIndex' = m_numBlobs
    <3>1. i = m_numBlobs /\ i = Len(m_blobs) /\ j + 1 \in 1..Len(m_ccBlobs) /\ j + 1 <= m_numCCBlobs
      BY <1>4, <1>7, <1>9, <2>1, <2>5
    <3>2. e = m_ccBlobs[j + 1] /\ Table[i + (j + 1)] = m_ccBlobs[j + 1] /\ i + (j + 1) = i + j + 1
      BY <1>7, <1>8, <2>2, <3>1
    <3>3. i + j + 1 <= Len(Table)
      BY <1>7, <1>8, <3>1
    <3> QED BY <1>7, <2>1, <3>1, <3>2, <3>3
  <2> HIDE DEF begin, i, j, send
  <2>6. begin = (i + j = 0)
    BY <2>3
  <2> QED BY <1>6, <2>1, <2>2, <2>3, <2>4, <2>5, <2>6
<1>10. CASE /\ ~m_mutex /\ m_blobReadIndex < m_numBlobs
            /\ Send(InMemory(m_blobs, m_blobReadIndex + 1), m_blobReadIndex = 0)
            /\ m_blobReadIndex' = m_blobReadIndex + 1
            /\ UNCHANGED m_ccBlobReadIndex
  <2> DEFINE e == InMemory(m_blobs, i + 1)  begin == (i = 0)
  <2>1. send(e, begin) /\ m_blobReadIndex' = i + 1 /\ m_ccBlobReadIndex' = j /\ i < m_numBlobs
    BY <1>10 DEF Send
  <2>2. e \in BlobA \cup {Wild} /\ (i + 1 <= Len(m_blobs) => e = m_blobs[i + 1])
    BY <1>2, <1>7, EntryType
  <2> HIDE DEF e
  <2>3. m_blobReadIndex' \in 0..MAX_BLOBS /\ m_ccBlobReadIndex' \in 0..MAX_BLOBS
    BY <1>2, <1>7, <2>1, TableAssumption
  <2>4. ASSUME frame = "published"
        PROVE  /\ i + j + 1 <= Len(Table) /\ e = Table[i + j + 1] /\ begin = (i + j = 0)
               /\ m_blobReadIndex' + m_ccBlobReadIndex' = i + j + 1
               /\ m_blobReadIndex' <= m_numBlobs /\ m_ccBlobReadIndex' <= m_numCCBlobs
               /\ m_ccBlobReadIndex' > 0 => m_blobReadIndex' = m_numBlobs
    <3>1. j = 0 /\ i + 1 \in 1..Len(m_blobs) /\ i + 1 <= m_numBlobs
      BY <1>4, <1>7, <2>1, <2>4
    <3>2. e = Table[i + 1] /\ i + 1 = i + j + 1 /\ i + j = i
      BY <1>7, <1>8, <2>2, <3>1
    <3>3. i + j + 1 <= Len(Table)
      BY <1>7, <1>8, <3>1
    <3> QED BY <1>4, <1>7, <2>1, <2>4, <3>1, <3>2, <3>3
  <2>5. begin \in BOOLEAN
    OBVIOUS
  <2> HIDE DEF begin, i, j, send
  <2> QED BY <1>6, <2>1, <2>2, <2>3, <2>4, <2>5
<1>11. \/ i >= m_numBlobs /\ getCCBlock
       \/ /\ ~m_mutex /\ m_blobReadIndex < m_numBlobs
          /\ Send(InMemory(m_blobs, m_blobReadIndex + 1), m_blobReadIndex = 0)
          /\ m_blobReadIndex' = m_blobReadIndex + 1
          /\ UNCHANGED m_ccBlobReadIndex
  BY DEF getBlock
<1> QED BY <1>9, <1>10, <1>11

LEMMA EntryIsNotNull ==
  \A e \in BlobA \cup BlobB : e # NULL
<1> SUFFICES ASSUME NEW e \in BlobA \cup BlobB PROVE e # NULL
  OBVIOUS
<1>1. "left" \in DOMAIN e
  BY DEF BlobA, BlobB
<1>2. DOMAIN <<>> = {}
  OBVIOUS
<1> QED BY <1>1, <1>2 DEF NULL

LEMMA AreaType ==
  \A e \in BlobA \cup BlobB : Area(e) \in Int
<1> SUFFICES ASSUME NEW e \in BlobA \cup BlobB PROVE Area(e) \in Int
  OBVIOUS
<1>1. e.left \in Nat /\ e.right \in Nat /\ e.top \in Nat /\ e.bottom \in Nat
  BY DEF BlobA, BlobB
<1> QED BY <1>1 DEF Area

LEMMA BiggestEffect ==
  ASSUME NEW s \in Seq(BlobA \cup BlobB), Biggest(s) # NULL
  PROVE  /\ \E k \in 1..Len(s) : Biggest(s) = s[k]
         /\ \A k \in 1..Len(s) : Area(s[k]) <= Area(Biggest(s))
<1> DEFINE n == Len(s)
           E == BlobA \cup BlobB
           Some == {s[k] : k \in 1..n}
           best(v) == IF v = NULL THEN 0 ELSE Area(v)
           Good(k, v) == \A l \in 1..k : Area(s[l]) <= best(v)
           I == {p \in (0..n) \X (Some \cup {NULL}) : Good(p[1], p[2])}
           r == Choosing!Iterate(s, NULL, 0, n)
<1>1. n \in Nat /\ Some \subseteq E /\ \A k \in 1..n : s[k] \in E /\ s[k] \in Some
  <2> HIDE DEF E
  <2>1. \A k \in 1..n : s[k] \in E
    BY DEF E
  <2> QED BY <2>1
<1>2. \A v \in Some \cup {NULL} : best(v) \in Int
  BY <1>1, AreaType
<1>3. <<0, NULL>> \in I
  <2>1. Good(0, NULL)
    OBVIOUS
  <2>2. 0 \in 0..n /\ NULL \in Some \cup {NULL}
    BY <1>1
  <2> HIDE DEF Good, Some
  <2> QED BY <2>1, <2>2
<1>4. ASSUME NEW k \in 0 + 1..n, NEW v, <<k - 1, v>> \in I PROVE <<k, Bigger(s, v, k)>> \in I
  <2> DEFINE u == Bigger(s, v, k)
  <2>1. v \in Some \cup {NULL} /\ Good(k - 1, v) /\ k \in 1..n /\ k \in 0..n
    <3> HIDE DEF Good, Some
    <3> QED BY <1>4
  <2>2. u = IF Area(s[k]) > best(v) THEN s[k] ELSE v
    BY DEF Bigger
  <2>3. Area(s[k]) \in Int /\ best(v) \in Int /\ s[k] \in Some /\ best(s[k]) = Area(s[k])
    BY <1>1, <1>2, <2>1, AreaType, EntryIsNotNull
  <2>4. \A l \in 1..k - 1 : Area(s[l]) \in Int
    BY <1>1, <2>1, AreaType
  <2>5. u \in Some \cup {NULL} /\ best(u) >= best(v) /\ best(u) >= Area(s[k]) /\ best(u) \in Int
    <3> HIDE DEF best, Some, u
    <3>1. CASE Area(s[k]) > best(v)
      BY <2>2, <2>3, <3>1
    <3>2. CASE ~(Area(s[k]) > best(v))
      BY <2>1, <2>2, <2>3, <3>2
    <3> QED BY <3>1, <3>2
  <2>6. Good(k, u)
    <3> HIDE DEF best, u
    <3> SUFFICES ASSUME NEW l \in 1..k PROVE Area(s[l]) <= best(u)
      OBVIOUS
    <3>1. CASE l = k
      BY <2>3, <2>5, <3>1
    <3>2. CASE l # k
      <4>1. l \in 1..k - 1
        BY <2>1, <3>2
      <4> QED BY <2>1, <2>3, <2>4, <2>5, <4>1
    <3> QED BY <3>1, <3>2
  <2> HIDE DEF Good, Some, u
  <2>7. <<k, u>> \in I
    BY <2>1, <2>5, <2>6
  <2> QED BY <2>7 DEF u
<1>5. <<n, r>> \in I
  <2> HIDE DEF I
  <2>1. 0 \in Int /\ n \in Int /\ 0 <= n
    BY <1>1
  <2> QED BY <1>3, <1>4, <2>1, Choosing!LoopRule
<1>6. Biggest(s) = r
  BY Zenon DEF Biggest, Loop, Choosing!Iterate
<1> HIDE DEF r
<1>7. r \in Some \cup {NULL} /\ Good(n, r)
  <2> HIDE DEF Good, Some
  <2> QED BY <1>5
<1>8. r # NULL
  BY <1>6
<1> QED BY <1>6, <1>7, <1>8

LEMMA GetMaxBlobInv ==
  ASSUME Inv, getMaxBlob
  PROVE  Inv'
<1>1. /\ pc' = pc /\ finished' = finished /\ sig' = sig /\ m_mutex' = m_mutex
      /\ m_blobs' = m_blobs /\ m_ccBlobs' = m_ccBlobs /\ m_numBlobs' = m_numBlobs
      /\ m_numCCBlobs' = m_numCCBlobs /\ params' = params /\ frame' = frame /\ sent' = sent
      /\ m_blobReadIndex' = m_blobReadIndex /\ m_ccBlobReadIndex' = m_ccBlobReadIndex
      /\ m_mutex = FALSE
  BY DEF getMaxBlob, memory
<1>2. m_blobs \in Seq(BlobA) /\ m_ccBlobs \in Seq(BlobB) /\ ~Building
  BY <1>1 DEF Inv, Types
<1>3. ~Building' /\ Table' = Table
  BY <1>1, <1>2 DEF Building, Table
<1>4. Types'
  BY <1>1, <1>3 DEF Inv, Types
<1>5. SettledSoFar' /\ Stage'
  BY <1>3 DEF SettledSoFar, Stage, Building, Stages
<1>6. Counted'
  BY <1>1, <1>3 DEF Inv, Counted
<1>7. ReadUpTo' /\ ReadInOrder'
  BY <1>1, <1>2, <1>3 DEF Inv, ReadUpTo, ReadInOrder
<1>8. MaxBlobIsBiggest'
  <2> SUFFICES ASSUME frame = "published", m_maxBlob' # NULL
               PROVE  m_maxBlob' \in ToSet(Table) /\ \A e \in ToSet(Table) : Area(e) <= Area(m_maxBlob')
    BY <1>1, <1>3 DEF MaxBlobIsBiggest
  <2>1. m_numBlobs = Len(m_blobs) /\ m_numCCBlobs = Len(m_ccBlobs)
    BY DEF Inv, Counted
  <2>2. CASE m_maxBlob' = m_maxBlob
    BY <2>2 DEF Inv, MaxBlobIsBiggest
  <2>3. CASE m_maxBlob' = Biggest(Front_n(m_blobs, m_numBlobs) \o Front_n(m_ccBlobs, m_numCCBlobs))
    <3>1. Front_n(m_blobs, m_numBlobs) = m_blobs /\ Front_n(m_ccBlobs, m_numCCBlobs) = m_ccBlobs
      BY <1>2, <2>1, WholeFront
    <3>2. m_maxBlob' = Biggest(Table)
      BY <2>3, <3>1 DEF Table
    <3>3. Table \in Seq(BlobA \cup BlobB)
      BY <1>2, TableType DEF Table
    <3>4. ToSet(Table) = {Table[k] : k \in 1..Len(Table)}
      BY <3>3 DEF ToSet
    <3>5. /\ \E k \in 1..Len(Table) : m_maxBlob' = Table[k]
          /\ \A k \in 1..Len(Table) : Area(Table[k]) <= Area(m_maxBlob')
      BY <3>2, <3>3, BiggestEffect
    <3> QED BY <3>4, <3>5
  <2>4. ~(m_numCCBlobs > Len(m_ccBlobs))
    BY <1>2, <2>1
  <2> QED BY <2>2, <2>3, <2>4 DEF getMaxBlob
<1> QED BY <1>4, <1>5, <1>6, <1>7, <1>8 DEF Inv

-----------------------------------------------------------------------------
(* Theorems.                                                               *)

LEMMA InvStep == Inv /\ [Next]_vars => Inv'
<1> SUFFICES ASSUME Inv, [Next]_vars PROVE Inv'
  OBVIOUS
<1>1. ASSUME NEW p \in ParamSets, SetParams(p) PROVE Inv'
  BY <1>1, SetParamsInv
<1>2. ASSUME NEW f \in Frames, NewFrame(f) PROVE Inv'
  BY <1>2, NewFrameInv
<1>3. CASE Overrun \/ OverrunEnds
  BY <1>3, OverrunInv
<1>4. CASE CopySignature
  BY <1>4, CopyInv
<1>5. CASE Combine
  BY <1>5, CombineInv
<1>6. CASE MarkClumps
  BY <1>6, MarkClumpsInv
<1>7. CASE ProcessCodes
  BY <1>7, ProcessCodesInv
<1>8. CASE Publish
  BY <1>8, PublishInv
<1>9. CASE getBlock
  BY <1>9, GetBlockInv
<1>10. CASE getMaxBlob
  BY <1>10, GetMaxBlobInv
<1>11. CASE UNCHANGED vars
  BY <1>11 DEF vars, memory, reading, Inv, Types, Counted, ReadUpTo, SettledSoFar, Stage, ReadInOrder,
     MaxBlobIsBiggest, Building, Table, CodeSigs
<1> QED BY <1>1, <1>2, <1>3, <1>4, <1>5, <1>6, <1>7, <1>8, <1>9, <1>10, <1>11 DEF Next

\* The inductive invariant holds in every behaviour of blobify, the interrupt that takes
\* its blocks and the program that asks for the biggest blob.
THEOREM InvAlways == Spec => []Inv
<1>1. Init => Inv
  BY InitInv
<1>2. Inv /\ [Next]_vars => Inv'
  BY InvStep
<1> QED BY <1>1, <1>2, PTL DEF Spec

\* Every variable of blobify has its type: no count exceeds the table, no clump's number
\* the number of blobs, no code the digits it may have.
THEOREM TypeCorrect == Spec => []TypeOK
<1>1. Inv => TypeOK
  <2> SUFFICES ASSUME Inv PROVE TypeOK
    OBVIOUS
  <2>1. params.m_maxBlobs \in 0..MAX_BLOBS /\ params.m_ccMode \in Modes
    BY DEF Inv, Types, Params
  <2> QED BY <2>1 DEF Inv, Types, TypeOK, Stages
<1> QED BY <1>1, InvAlways, PTL

\* The blocks the interrupt takes from a frame are its blobs and then its codes, each
\* once and in order, with one mark of a new frame, before the first.
THEOREM BlocksInOrder == Spec => []ReadInOrder
<1>1. Inv => ReadInOrder
  BY DEF Inv
<1> QED BY <1>1, InvAlways, PTL

\* The biggest blob getMaxBlob remembers is one of the frame, and none is bigger.
THEOREM BiggestOfFrame == Spec => []MaxBlobIsBiggest
<1>1. Inv => MaxBlobIsBiggest
  BY DEF Inv
<1> QED BY <1>1, InvAlways, PTL

\* After the passes of combine2 no blob of an ordinary signature would extend another
\* to a side, whatever the boxes and m_mergeDist.
THEOREM BlobsSettle == Spec => []Settled
<1>1. Inv => Settled
  <2> SUFFICES ASSUME Inv PROVE Settled
    OBVIOUS
  <2>1. m_blobs \in Seq(BlobA) /\ SettledSoFar
    BY DEF Inv, Types
  <2>2. DOMAIN m_blobs = 1..Len(m_blobs)
    BY <2>1
  <2>3. Built => Building
    BY DEF Built, Building, Stages
  <2> QED BY <2>1, <2>2, <2>3 DEF Settled, SettledSoFar
<1> QED BY <1>1, InvAlways, PTL

\* Every colour code that processCC makes is the smaller reading of two or more
\* signatures of colour codes, no neighbours alike.
THEOREM CodesAreCanonical == Spec => []CodesCanonical
<1>1. Inv => CodesCanonical
  <2> SUFFICES ASSUME Inv, pc = "publish", NEW c \in ToSet(m_ccBlobs)
               PROVE  LET digits == Digits(c.model) IN
                        /\ Len(digits) >= 2 /\ ToSet(digits) \subseteq CodeSigs
                        /\ \A k \in 1..Len(digits) - 1 : digits[k] # digits[k + 1]
                        /\ c.model <= Code(Reverse(digits))
    BY Zenon DEF CodesCanonical
  <2> DEFINE digits == Digits(c.model)
  <2>1. m_ccBlobs \in Seq(CodeEntry(CodeSigs))
    BY DEF Inv, Stage
  <2>2. \E k \in 1..Len(m_ccBlobs) : c = m_ccBlobs[k]
    BY <2>1 DEF ToSet
  <2>3. c \in CodeEntry(CodeSigs)
    BY <2>1, <2>2
  <2>4. c.model \in CodesOf(CodeSigs)
    BY <2>3 DEF CodeEntry
  <2>5. PICK sigs \in Seq(CodeSigs) : ColorCode(sigs, CodeSigs) /\ c.model = SmallerCode(sigs)
    BY <2>4, Zenon DEF CodesOf
  <2>6. CodeSigs \subseteq 1..7
    BY CodeSigsBound, SignatureBounds
  <2>7. ColorCode(digits, CodeSigs) /\ c.model <= Code(Reverse(digits))
    BY <2>5, <2>6, SmallerCodeEffect
  <2> HIDE DEF digits
  <2>8. digits \in Seq(CodeSigs) /\ Len(digits) >= 2
    BY <2>7, TableAssumption DEF ColorCode
  <2>9. ToSet(digits) \subseteq CodeSigs
    BY <2>8 DEF ToSet
  <2>10. \A k \in 1..Len(digits) - 1 : digits[k] # digits[k + 1]
    BY <2>7 DEF ColorCode
  <2>11. Len(digits) >= 2 /\ ToSet(digits) \subseteq CodeSigs /\ c.model <= Code(Reverse(digits))
    BY <2>7, <2>8, <2>9
  <2> QED BY <2>10, <2>11 DEF digits
<1> QED BY <1>1, InvAlways, PTL

\* The codes written behind the blobs end before the table's memory does.
THEOREM CodesFit == Spec => []TableFits
<1>1. Inv => TableFits
  <2> SUFFICES ASSUME Inv, pc = "publish"
               PROVE  5 * Len(m_blobs) + 6 * Len(m_ccBlobs) <= 5 * MAX_BLOBS
    BY DEF TableFits
  <2>1. /\ Len(m_blobs) <= MAX_BLOBS /\ m_blobs \in Seq(BlobA) /\ m_ccBlobs \in Seq(BlobB)
        /\ Fits(Len(m_blobs), Len(m_ccBlobs))
    BY DEF Inv, Types, Stage
  <2>2. Len(m_blobs) \in Nat /\ Len(m_ccBlobs) \in Nat
    BY <2>1
  <2> QED BY <2>1, <2>2, TableAssumption DEF Fits
<1> QED BY <1>1, InvAlways, PTL

\* Of blobs inside others combine leaves none, and drops none that is not inside one it
\* keeps.
THEOREM CombineKeepsOuter == Spec => SurvivorsCover
<1> DEFINE A == pc = "combine" =>
       /\ \A i, j \in DOMAIN m_blobs :
            i # j /\ Valid(m_blobs'[i]) /\ Valid(m_blobs'[j]) => ~Encloses(m_blobs[i], m_blobs[j])
       /\ \A j \in DOMAIN m_blobs : Valid(m_blobs[j]) /\ ~Valid(m_blobs'[j]) =>
            \E i \in DOMAIN m_blobs : Valid(m_blobs'[i]) /\ Encloses(m_blobs[i], m_blobs[j])
<1>1. Inv /\ [Next]_vars => [A]_vars
  <2> SUFFICES ASSUME Inv, Next, pc = "combine" PROVE A
    OBVIOUS
  <2> DEFINE s == m_blobs  r == combine(m_blobs)  E == Inside(s)
  <2>1. Building /\ m_mutex = TRUE
    BY DEF Building, Stages, Inv, Types
  <2>2. Combine
    BY <2>1 DEF Next, SetParams, NewFrame, Overrun, OverrunEnds, CopySignature, MarkClumps,
       ProcessCodes, Publish, getBlock, getCCBlock, getMaxBlob
  <2>3. m_blobs' = r
    BY <2>2 DEF Combine
  <2>4. s \in Seq(Entry(Sigs))
    BY TableEntries DEF Inv, Types
  <2>5. /\ Dropped(Sigs, s, r) /\ Covered(E, ValidSet(s), ValidSet(r))
        /\ \A i, j \in ValidSet(r) : i # j => <<i, j>> \notin E
    BY <2>4, CombineEffect DEF Sigs
  <2> HIDE DEF r
  <2>6. DOMAIN s = 1..Len(s) /\ Len(r) = Len(s)
    BY <2>4, <2>5 DEF Dropped
  <2>7. \A i, j \in 1..Len(s) : <<i, j>> \in E <=> Encloses(s[i], s[j])
    BY DEF Inside
  <2> HIDE DEF E
  <2>8. ASSUME NEW i \in 1..Len(s), NEW j \in 1..Len(s), i # j, Valid(r[i]), Valid(r[j])
        PROVE  ~Encloses(s[i], s[j])
    BY <2>5, <2>6, <2>7, <2>8 DEF ValidSet
  <2>9. ASSUME NEW j \in 1..Len(s), Valid(s[j]), ~Valid(r[j])
        PROVE  \E i \in 1..Len(s) : Valid(r[i]) /\ Encloses(s[i], s[j])
    <3>1. j \in ValidSet(s) \ ValidSet(r)
      BY <2>9 DEF ValidSet
    <3>2. PICK i \in ValidSet(r) : <<i, j>> \in E
      BY <2>5, <3>1 DEF Covered
    <3>3. i \in 1..Len(s) /\ Valid(r[i])
      BY <2>6, <3>2 DEF ValidSet
    <3> QED BY <2>7, <3>2, <3>3
  <2> QED BY <2>3, <2>6, <2>8, <2>9
<1> QED BY <1>1, InvAlways, PTL DEF Spec, SurvivorsCover

-----------------------------------------------------------------------------
(* The clumps that processCC reads are connected.                          *)

LEMMA EndsOfPair ==
  ASSUME NEW i \in Int, NEW j \in Int, i < j
  PROVE  Min({i, j}) = i /\ Max({i, j}) = j /\ Min({j, i}) = i /\ Max({j, i}) = j
<1>1. {i, j} = {j, i}
  OBVIOUS
<1>2. Min({i, j}) = i
  BY DEF Min
<1>3. Max({i, j}) = j
  BY DEF Max
<1> QED BY <1>1, <1>2, <1>3

\* Near is what Pairs says of the table.
LEMMA NearIs ==
  ASSUME m_blobs \in Seq(BlobA), NEW i \in 1..Len(m_blobs), NEW j \in 1..Len(m_blobs), i # j
  PROVE  Near(i, j) <=> Linked(Pairs(m_blobs), i, j)
<1>1. Len(m_blobs) \in Nat
  OBVIOUS
<1>2. /\ <<i, j>> \in Pairs(m_blobs) <=> i < j /\ distance(m_blobs[i], m_blobs[j]) <= m_maxCodedDist
      /\ <<j, i>> \in Pairs(m_blobs) <=> j < i /\ distance(m_blobs[j], m_blobs[i]) <= m_maxCodedDist
  BY <1>1, PairIs
<1>3. CASE i < j
  BY <1>2, <1>3, EndsOfPair DEF Near, Linked
<1>4. CASE j < i
  BY <1>2, <1>4, EndsOfPair DEF Near, Linked
<1> QED BY <1>1, <1>3, <1>4

\* What the first two passes left is what the third finds.
Clumped == pc = "codes" => AreClumps(m_blobs, CodeSigs)

LEMMA ClumpedStep == Inv /\ Clumped /\ [Next]_vars => Clumped'
<1> SUFFICES ASSUME Inv, Clumped, [Next]_vars, pc' = "codes" PROVE AreClumps(m_blobs', CodeSigs')
  BY DEF Clumped
<1>1. CASE MarkClumps
  <2>1. pc = "mark" /\ CodeSigs' = CodeSigs /\ m_blobs' = MergeClose(MarkClose(m_blobs, CodeSigs), CodeSigs)
    BY <1>1 DEF MarkClumps, CodeSigs
  <2>2. m_blobs \in Seq(Entry(Sigs)) /\ \A k \in 1..Len(m_blobs) : ~Marked(m_blobs[k])
    BY <2>1, TableEntries DEF Inv, Types, Stage
  <2>3. 0 \notin CodeSigs
    BY CodeSigsBound, SignatureBounds
  <2>4. AreClumps(MergeClose(MarkClose(m_blobs, CodeSigs), CodeSigs), CodeSigs)
    BY <2>2, <2>3, ClumpsMade
  <2> QED BY <2>1, <2>4
<1>2. CASE ~MarkClumps
  <2>1. pc = "codes" /\ UNCHANGED <<m_blobs, params>>
    BY <1>2 DEF Next, vars, memory, SetParams, NewFrame, Overrun, OverrunEnds, CopySignature, Combine,
                ProcessCodes, Publish, getBlock, getMaxBlob
  <2>2. CodeSigs' = CodeSigs
    BY <2>1 DEF CodeSigs
  <2> QED BY <2>1, <2>2 DEF Clumped
<1> QED BY <1>1, <1>2

LEMMA ClumpedInv == Spec => []Clumped
<1>1. Init => Clumped
  BY DEF Init, Clumped
<1> QED BY <1>1, ClumpedStep, InvAlways, PTL DEF Spec

\* The clumps that processCC makes of any blobs, in two passes over pairs, are what is
\* connected: all of a clump hangs together, close blobs of different signatures are in
\* one, and no two clumps are close.
THEOREM ClumpsConnected == Spec => []ClumpsAreConnected
<1>1. ASSUME Inv, Clumped PROVE ClumpsAreConnected
  <2> SUFFICES ASSUME pc = "codes" PROVE ClumpsAreConnected
    BY DEF ClumpsAreConnected
  <2> DEFINE s == m_blobs  P == Pairs(s)  C == CodeSigs
             code == {k \in DOMAIN s : s[k].sig \in C}
             marked == {k \in DOMAIN s : Marked(s[k])}
             apart == {X \in SUBSET marked : \A i \in X, j \in marked \ X : ~Near(i, j)}
  <2>1. /\ s \in Seq(BlobA) /\ DOMAIN s = 1..Len(s) /\ Len(s) \in Nat
        /\ Labelled(s, C, Len(s))
    <3>1. s \in Seq(BlobA) /\ Labelled(s, C, Len(s))
      BY <1>1 DEF Inv, Types, Stage
    <3> QED BY <3>1
  <2>2. /\ Coherent(s, P)
        /\ \A i, j \in 1..Len(s) : i < j => Caught(s, P, C, i, j) /\ Joined(s, P, i, j)
    BY <1>1 DEF Clumped, AreClumps
  <2>3. marked = MarkedSet(s) /\ marked \subseteq 1..Len(s) /\ code \subseteq 1..Len(s)
    BY <2>1 DEF MarkedSet
  <2>4. \A i, j \in 1..Len(s) : i # j => (Near(i, j) <=> Linked(P, i, j))
    BY <2>1, NearIs
  <2>5. marked \subseteq code
    BY <2>1 DEF Labelled
  <2>6. ASSUME NEW i \in code, NEW j \in code, s[i].sig # s[j].sig, Near(i, j)
        PROVE  {i, j} \subseteq marked
    <3>1. i \in 1..Len(s) /\ j \in 1..Len(s) /\ i # j /\ s[i].sig \in C /\ s[j].sig \in C
      BY <2>1, <2>6
    <3>2. Linked(P, i, j)
      BY <2>4, <2>6, <3>1
    <3>3. CASE i < j
      <4>1. <<j, i>> \notin P
        BY <3>3 DEF Pairs
      <4>2. Caught(s, P, C, i, j) /\ <<i, j>> \in P
        BY <2>2, <3>1, <3>2, <3>3, <4>1 DEF Linked
      <4> QED BY <2>3, <2>6, <3>1, <4>2 DEF Caught
    <3>4. CASE j < i
      <4>1. <<i, j>> \notin P
        BY <3>4 DEF Pairs
      <4>2. Caught(s, P, C, j, i) /\ <<j, i>> \in P
        BY <2>2, <3>1, <3>2, <3>4, <4>1 DEF Linked
      <4> QED BY <2>3, <2>6, <3>1, <4>2 DEF Caught
    <3> QED BY <2>1, <3>1, <3>3, <3>4
  <2>7. ASSUME NEW i \in marked, NEW j \in marked, s[i].clump = s[j].clump, NEW X \in apart, i \in X
        PROVE  j \in X
    <3>1. Closed(X, s, P)
      <4> SUFFICES ASSUME NEW a \in MarkedSet(s), NEW b \in MarkedSet(s), a \in X, Linked(P, a, b), b \notin X
                   PROVE  FALSE
        BY DEF Closed
      <4>1. a \in 1..Len(s) /\ b \in 1..Len(s) /\ a # b /\ b \in marked \ X
        BY <2>3
      <4>2. Near(a, b)
        BY <2>4, <4>1
      <4> QED BY <4>1, <4>2
    <3> HIDE DEF apart, marked, s
    <3> QED BY <2>2, <2>3, <2>7, <3>1 DEF Coherent
  <2>8. ASSUME NEW i \in marked, NEW j \in marked, \A X \in apart : i \in X => j \in X
        PROVE  s[i].clump = s[j].clump
    <3> DEFINE X == {k \in marked : s[k].clump = s[i].clump}
    <3>1. \A a \in X, b \in marked \ X : ~Near(a, b)
      <4> SUFFICES ASSUME NEW a \in X, NEW b \in marked \ X, Near(a, b) PROVE FALSE
        OBVIOUS
      <4>1. /\ a \in 1..Len(s) /\ b \in 1..Len(s) /\ a # b /\ {a, b} \subseteq MarkedSet(s)
            /\ s[a].clump = s[i].clump /\ s[b].clump # s[i].clump
        BY <2>3
      <4>2. Linked(P, a, b)
        BY <2>4, <4>1
      <4>3. CASE <<a, b>> \in P
        <5>1. a < b
          BY <4>3 DEF Pairs
        <5> QED BY <2>2, <4>1, <4>3, <5>1 DEF Joined
      <4>4. CASE <<b, a>> \in P
        <5>1. b < a
          BY <4>4 DEF Pairs
        <5> QED BY <2>2, <4>1, <4>4, <5>1 DEF Joined
      <4> QED BY <4>2, <4>3, <4>4 DEF Linked
    <3>2. X \in apart
      BY <3>1
    <3>3. i \in X
      OBVIOUS
    <3> HIDE DEF apart
    <3>4. j \in X
      BY <2>8, <3>2, <3>3
    <3> QED BY <3>4
  <2> HIDE DEF s, P, C, code, marked, apart
  <2>9. /\ marked \subseteq code
        /\ \A i, j \in code : s[i].sig # s[j].sig /\ Near(i, j) => {i, j} \subseteq marked
        /\ \A i, j \in marked : s[i].clump = s[j].clump <=> \A X \in apart : i \in X => j \in X
    BY <2>5, <2>6, <2>7, <2>8
  <2> QED BY <2>9, Zenon DEF ClumpsAreConnected, s, C, code, marked, apart
<1> QED BY <1>1, InvAlways, ClumpedInv, PTL
=============================================================================
