-------------------------------- MODULE Blobs --------------------------------
(***************************************************************************)
(* Blobs: once a frame blobify builds the table of blobs and colour codes  *)
(* from what the assemblers finished.  getBlock and getMaxBlob may come    *)
(* between any two stages of blobify, from an interrupt; their test of     *)
(* m_mutex ("busy!") is what keeps them from a table that is being built.  *)
(* One step per stage of blobify; a call of either is one step, since      *)
(* blobify does not run during it.                                         *)
(***************************************************************************)
EXTENDS BlobTable, FiniteSets

CONSTANTS
  Signatures,             \* those in use, of 1..CL_NUM_SIGNATURES
  CodeTypes,              \* those of type CL_MODEL_TYPE_COLORCODE
  Frames,                 \* what the assemblers may have finished: signature -> blobs
  ParamSets,              \* arguments setParams may be called with
  MAX_BLOBS_PER_MODEL, MIN_AREA, MIN_COLOR_CODE_AREA

Modes == {"DISABLED", "ENABLED", "CC_ONLY", "MIXED"}

Finished == [left : Nat, right : Nat, top : Nat, bottom : Nat, area : Nat]

ASSUME BlobsAssumption ==
  /\ \E n \in 1..CL_NUM_SIGNATURES : Signatures = 1..n
  /\ CodeTypes \subseteq Signatures
  /\ Frames \subseteq [Signatures -> Seq(Finished)]
  /\ ParamSets \subseteq [m_maxBlobs : Nat, m_maxBlobsPerModel : Nat, m_minArea : Nat, m_ccMode : Modes]
  /\ MAX_BLOBS_PER_MODEL \in Nat /\ MIN_AREA \in Nat /\ MIN_COLOR_CODE_AREA \in Nat

\* What the assemblers finish is three pixels wide at least, and sorted by area.
ASSUME FinishedAssumption == \A f \in Frames, g \in Signatures :
  /\ \A b \in ToSet(f[g]) : b.right >= b.left + 2 /\ b.bottom >= b.top
  /\ IsSorted(f[g], LAMBDA b, c : b.area >= c.area)

VARIABLES
  pc,                          \* what blobify does next; "ready": it waits for the frame
  finished,                    \* what the assemblers hold while blobify reads it
  sig,                         \* the signature whose blobs are copied next
  m_mutex,
  m_blobs, m_numBlobs,         \* the blobs in memory, and how many of them count
  m_ccBlobs, m_numCCBlobs,     \* the colour codes in memory behind them, likewise
  m_blobReadIndex, m_ccBlobReadIndex,
  m_maxBlob,                   \* the blob it points to, or NULL
  params,                      \* m_maxBlobs, m_maxBlobsPerModel, m_minArea, m_ccMode
  frame,                       \* history: "none" yet, "published", or "discarded" by an overrun
  sent                         \* history: the blocks taken from the frame

memory == <<m_blobs, m_numBlobs, m_ccBlobs, m_numCCBlobs>>
reading == <<m_blobReadIndex, m_ccBlobReadIndex, m_maxBlob, sent>>
vars == <<pc, finished, sig, m_mutex, memory, reading, params, frame>>

NULL == <<>>
Wild == [wild |-> TRUE]     \* what is found through m_ccBlobs before it was assigned

Init ==
  /\ pc = "ready" /\ finished = NULL /\ sig = 1 /\ m_mutex = FALSE
  /\ m_blobs = <<>> /\ m_numBlobs = 0
  /\ m_ccBlobs = <<>> /\ m_numCCBlobs \in {0, 1}   \* not initialised
  /\ m_blobReadIndex = 0 /\ m_ccBlobReadIndex = 0 /\ m_maxBlob = NULL
  /\ params = [m_maxBlobs |-> MAX_BLOBS, m_maxBlobsPerModel |-> MAX_BLOBS_PER_MODEL,
               m_minArea |-> MIN_AREA, m_ccMode |-> "DISABLED"]
  /\ frame = "none" /\ sent = <<>>

\* The signatures for which CC_SIGNATURE holds.
CodeSigs == IF params.m_ccMode = "CC_ONLY" THEN Signatures ELSE CodeTypes

\* Mutant: a size above the table's is accepted.
SetParams_Unlimited(p) ==
  /\ pc = "ready"
  /\ params' = p
  /\ UNCHANGED <<pc, finished, sig, m_mutex, memory, reading, frame>>

SetParams(p) ==
  /\ pc = "ready"
  /\ params' = [p EXCEPT !.m_maxBlobs = IF @ <= MAX_BLOBS THEN @ ELSE MAX_BLOBS]
  /\ UNCHANGED <<pc, finished, sig, m_mutex, memory, reading, frame>>

-----------------------------------------------------------------------------
(* blobify.                                                                *)

\* Mutant: the biggest blob is remembered from frame to frame.
NewFrame_KeepsMax(f) ==
  /\ pc = "ready" /\ pc' = "copy" /\ m_mutex' = TRUE
  /\ finished' = f /\ sig' = 1 /\ m_blobs' = <<>> /\ m_numBlobs' = 0
  /\ m_ccBlobs' = <<>> /\ m_numCCBlobs' = 0 /\ sent' = <<>> /\ frame' = "published"
  /\ UNCHANGED <<m_blobReadIndex, m_ccBlobReadIndex, m_maxBlob, params>>

\* A frame has been read.
NewFrame(f) ==
  /\ pc = "ready" /\ pc' = "copy"
  /\ m_mutex' = TRUE
  /\ m_maxBlob' = NULL
  /\ finished' = f /\ sig' = 1
  /\ m_blobs' = <<>> /\ m_numBlobs' = 0 /\ m_ccBlobs' = <<>> /\ m_numCCBlobs' = 0
  /\ sent' = <<>> /\ frame' = "published"
  /\ UNCHANGED <<m_blobReadIndex, m_ccBlobReadIndex, params>>

\* The queue overran: no blobs this time.  The counts are cleared one after the other,
\* with m_mutex not set.
Overrun ==
  /\ pc = "ready" /\ pc' = "overrun"
  /\ m_numBlobs' = 0
  /\ frame' = "discarded"
  /\ UNCHANGED <<finished, sig, m_mutex, m_blobs, m_ccBlobs, m_numCCBlobs, reading, params>>

OverrunEnds ==
  /\ pc = "overrun" /\ pc' = "ready"
  /\ m_numCCBlobs' = 0
  /\ UNCHANGED <<finished, sig, m_mutex, m_blobs, m_numBlobs, m_ccBlobs, reading, params, frame>>

\* The blobs of signature sig that are copied: those of the first m_maxBlobsPerModel
\* finished ones that CopyBlob lets pass.
Copied ==
  LET from == Front_n(finished[sig], params.m_maxBlobsPerModel)
      c == [from |-> from, sig |-> sig, room |-> params.m_maxBlobs - m_numBlobs,
            minArea |-> IF sig \in CodeSigs THEN MIN_COLOR_CODE_AREA ELSE params.m_minArea]
  IN Loop(CopyBlob, c, <<>>, 0, Len(from))

\* Those of an ordinary signature are combined at once.
CopySignature ==
  /\ pc = "copy"
  /\ m_blobs' = m_blobs \o (IF sig \in CodeSigs THEN Copied ELSE Combine2UntilDone(Copied))
  /\ m_numBlobs' = Len(m_blobs')
  /\ sig' = IF sig + 1 \in Signatures THEN sig + 1 ELSE 1
  /\ pc' = IF sig + 1 \in Signatures THEN "copy" ELSE "combine"
  /\ UNCHANGED <<finished, m_mutex, m_ccBlobs, m_numCCBlobs, reading, params, frame>>

Combine ==
  /\ pc = "combine"
  /\ m_blobs' = combine(m_blobs)
  /\ pc' = IF params.m_ccMode = "DISABLED" THEN "publish" ELSE "mark"
  /\ UNCHANGED <<finished, sig, m_mutex, m_numBlobs, m_ccBlobs, m_numCCBlobs, reading, params, frame>>

\* The first two passes of processCC.
MarkClumps ==
  /\ pc = "mark" /\ pc' = "codes"
  /\ m_blobs' = MergeClose(MarkClose(m_blobs, CodeSigs), CodeSigs)
  /\ UNCHANGED <<finished, sig, m_mutex, m_numBlobs, m_ccBlobs, m_numCCBlobs, reading, params, frame>>

\* The third.
ProcessCodes ==
  /\ pc = "codes" /\ pc' = "publish"
  /\ LET made == MakeCodes(m_blobs, Clumps(m_blobs), CodeSigs, params.m_ccMode = "MIXED")
     IN m_blobs' = made.blobs /\ m_ccBlobs' = made.codes /\ m_numCCBlobs' = Len(made.codes)
  /\ UNCHANGED <<finished, sig, m_mutex, m_numBlobs, reading, params, frame>>

\* Mutant: the codes are read on from where the last frame's were.
Publish_KeepsIndex ==
  /\ pc = "publish" /\ pc' = "ready" /\ m_mutex' = FALSE /\ finished' = NULL
  /\ m_blobs' = compress(m_blobs) /\ m_numBlobs' = Len(m_blobs') /\ m_blobReadIndex' = 0
  /\ UNCHANGED <<sig, m_ccBlobs, m_numCCBlobs, m_ccBlobReadIndex, m_maxBlob, sent, params, frame>>

\* compress changes nothing where nothing is invalid.  The assemblers are reset.
Publish ==
  /\ pc = "publish" /\ pc' = "ready"
  /\ m_blobs' = compress(m_blobs)
  /\ m_numBlobs' = Len(m_blobs')
  /\ m_blobReadIndex' = 0 /\ m_ccBlobReadIndex' = 0
  /\ m_mutex' = FALSE
  /\ finished' = NULL
  /\ UNCHANGED <<sig, m_ccBlobs, m_numCCBlobs, m_maxBlob, sent, params, frame>>

-----------------------------------------------------------------------------
(* Called from the interrupt, and by the program.                          *)

\* A block, with the mark of a new frame before it or not.
Send(entry, begin) == sent' = Append(sent, [begin |-> begin, entry |-> entry])

InMemory(blobs, k) == IF k \in DOMAIN blobs THEN blobs[k] ELSE Wild

\* With a buffer for less than nine words nothing is returned.
getCCBlock ==
  /\ ~m_mutex /\ m_ccBlobReadIndex < m_numCCBlobs
  /\ Send(InMemory(m_ccBlobs, m_ccBlobReadIndex + 1), m_blobReadIndex = 0 /\ m_ccBlobReadIndex = 0)
  /\ m_ccBlobReadIndex' = m_ccBlobReadIndex + 1
  /\ UNCHANGED m_blobReadIndex

getBlock ==
  /\ \/ /\ m_blobReadIndex >= m_numBlobs /\ params.m_ccMode # "DISABLED"
        /\ getCCBlock
     \/ /\ ~m_mutex /\ m_blobReadIndex < m_numBlobs
        /\ Send(InMemory(m_blobs, m_blobReadIndex + 1), m_blobReadIndex = 0)
        /\ m_blobReadIndex' = m_blobReadIndex + 1
        /\ UNCHANGED m_ccBlobReadIndex
  /\ UNCHANGED <<pc, finished, sig, m_mutex, memory, m_maxBlob, params, frame>>

\* The first of the biggest, blobs before codes.
Bigger(entries, best, k) ==
  IF Area(entries[k]) > (IF best = NULL THEN 0 ELSE Area(best)) THEN entries[k] ELSE best
Biggest(entries) == Loop(Bigger, entries, NULL, 0, Len(entries))

\* getMaxBlob(0): what it found before, or else what it finds now.
getMaxBlob ==
  /\ ~m_mutex
  /\ \/ m_maxBlob # NULL /\ UNCHANGED m_maxBlob
     \/ /\ m_maxBlob = NULL
        /\ m_maxBlob' = Biggest(Front_n(m_blobs, m_numBlobs) \o Front_n(m_ccBlobs, m_numCCBlobs))
     \/ /\ m_maxBlob = NULL /\ m_numCCBlobs > Len(m_ccBlobs)
        /\ m_maxBlob' = Wild
  /\ UNCHANGED <<pc, finished, sig, m_mutex, memory, m_blobReadIndex, m_ccBlobReadIndex,
                 sent, params, frame>>

Next ==
  \/ \E p \in ParamSets : SetParams(p)
  \/ \E f \in Frames : NewFrame(f)
  \/ Overrun \/ OverrunEnds
  \/ CopySignature \/ Combine \/ MarkClumps \/ ProcessCodes \/ Publish
  \/ getBlock
  \/ getMaxBlob

Spec == Init /\ [][Next]_vars

-----------------------------------------------------------------------------
(* Properties.                                                             *)

CodeValues == 1..EightTo(MAX_COLOR_CODE_MODELS) - 1

BlobA == [sig : Signatures \cup {0}, clump : 0..MAX_BLOBS,
          left : Nat, right : Nat, top : Nat, bottom : Nat]
BlobB == [model : CodeValues, left : Nat, right : Nat, top : Nat, bottom : Nat]

\* Every variable has its type.
TypeOK ==
  /\ pc \in {"ready", "overrun", "copy", "combine", "mark", "codes", "publish"}
  /\ sig \in Signatures /\ m_mutex \in BOOLEAN
  /\ m_blobs \in Seq(BlobA) /\ m_ccBlobs \in Seq(BlobB)
  /\ m_numBlobs \in 0..MAX_BLOBS /\ m_numCCBlobs \in 0..MAX_BLOBS
  /\ m_blobReadIndex \in 0..MAX_BLOBS /\ m_ccBlobReadIndex \in 0..MAX_BLOBS
  /\ params.m_maxBlobs \in 0..MAX_BLOBS /\ params.m_ccMode \in Modes

Table == m_blobs \o m_ccBlobs

\* What is taken from a frame is its blobs and then its codes, from the first on and
\* each once, and the mark of a new frame is before the first block and no other,
\* wherever the interrupt comes and whatever was taken from the frame before.
ReadInOrder ==
  frame = "published" =>
    /\ Len(sent) <= Len(Table)
    /\ \A k \in DOMAIN sent : sent[k].entry = Table[k] /\ sent[k].begin = (k = 1)

\* The biggest blob that is remembered is one of this frame's, and none is bigger.
MaxBlobIsBiggest ==
  frame = "published" /\ m_maxBlob # NULL =>
    /\ m_maxBlob \in ToSet(Table)
    /\ \A e \in ToSet(Table) : Area(e) <= Area(m_maxBlob)

\* The blob that getMaxBlob(0) returns between two calls of blobify is one of the blobs
\* there are, also when the frame was discarded ("0 means return the biggest", "look
\* through all blobs looking for the blob with the biggest area", blobs.cpp:436, 445).
MaxBlobAmongBlobs ==
  pc = "ready" /\ m_maxBlob \notin {NULL, Wild} =>
    m_maxBlob \in ToSet(Front_n(m_blobs, m_numBlobs) \o Front_n(m_ccBlobs, m_numCCBlobs))

Built == pc \in {"combine", "mark", "codes", "publish"}

\* Blobs of an ordinary signature are combined until there are no two that the earlier
\* would extend to, although a pass compares a blob's box as it was before the pass.
Settled ==
  Built => \A i, j \in DOMAIN m_blobs :
    i < j /\ m_blobs[i].sig = m_blobs[j].sig /\ m_blobs[i].sig \notin CodeSigs \cup {0}
      => Side(m_blobs[i], m_blobs[j]) = "none"

\* Of the blobs inside others none is left, and each that goes is inside one that
\* stays, although one that was just removed goes on removing others.
SurvivorsCover ==
  [][pc = "combine" =>
       /\ \A i, j \in DOMAIN m_blobs :
            i # j /\ Valid(m_blobs'[i]) /\ Valid(m_blobs'[j]) => ~Encloses(m_blobs[i], m_blobs[j])
       /\ \A j \in DOMAIN m_blobs : Valid(m_blobs[j]) /\ ~Valid(m_blobs'[j]) =>
            \E i \in DOMAIN m_blobs : Valid(m_blobs'[i]) /\ Encloses(m_blobs[i], m_blobs[j])]_vars

Near(i, j) == distance(m_blobs[Min({i, j})], m_blobs[Max({i, j})]) <= m_maxCodedDist

\* Clumps are what is connected: colour code blobs of different signatures close to
\* each other are in a clump, and two blobs that are in clumps are in the same one just
\* when a chain of close ones, all in clumps, leads from one to the other: when no set of
\* them that has nothing close outside holds the one without the other.
ClumpsAreConnected ==
  pc = "codes" =>
    LET code == {k \in DOMAIN m_blobs : m_blobs[k].sig \in CodeSigs}
        marked == {k \in DOMAIN m_blobs : Marked(m_blobs[k])}
        apart == {X \in SUBSET marked : \A i \in X, j \in marked \ X : ~Near(i, j)}
    IN /\ marked \subseteq code
       /\ \A i, j \in code : m_blobs[i].sig # m_blobs[j].sig /\ Near(i, j) => {i, j} \subseteq marked
       /\ \A i, j \in marked :
            m_blobs[i].clump = m_blobs[j].clump <=> \A X \in apart : i \in X => j \in X

\* A colour code has two to five signatures, all of them of colour codes, no neighbours
\* alike, and is the smaller of its two readings, from the left and from the right.
\* (Which five of a longer clump are read depends on the side: that is not claimed.)
CodesCanonical ==
  pc = "publish" => \A c \in ToSet(m_ccBlobs) : LET digits == Digits(c.model) IN
    /\ Len(digits) >= 2 /\ ToSet(digits) \subseteq CodeSigs
    /\ \A k \in 1..Len(digits) - 1 : digits[k] # digits[k + 1]
    /\ c.model <= Code(Reverse(digits))

\* The codes are written behind the blobs in the memory of MAX_BLOBS blobs and end
\* before it does, although they are longer than blobs.
TableFits == pc = "publish" => 5 * Len(m_blobs) + 6 * Len(m_ccBlobs) <= 5 * MAX_BLOBS
=============================================================================
