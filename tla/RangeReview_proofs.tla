------------------------- MODULE RangeReview_proofs -------------------------
(***************************************************************************)
(* The range review, for every range, any drivers and requests, and        *)
(* whatever the environment does.                                          *)
(*                                                                         *)
(* The packing loop: the chunks it freezes are the whole diff, once and in *)
(* order, and as full as the limit allows.  The invariant is that of the   *)
(* loop: the closed chunks and the current one follow each other without a *)
(* gap from the first section to the one before next, and size is the      *)
(* bytes of the current one.                                               *)
(*                                                                         *)
(* The drivers: receipts come and are altered, but never go or say         *)
(* anything else (Grown), so what a driver knows of its own children stays *)
(* true (Doing) whatever the others do, and what it wrote does (Reported). *)
(* That is why an accepted verdict rests on reviews (Rested), and each     *)
(* step is one of RangePromise or none (PromiseStep).                      *)
(***************************************************************************)
EXTENDS RangeReview, WellFoundedInduction, TLAPS

-----------------------------------------------------------------------------
(* Packing.                                                                *)

\* Runs of sections that are not empty and follow each other from section 1 to to.
Contiguous(frozen, to) ==
    /\ \A i \in 1..Len(frozen) :
           /\ frozen[i].index = i - 1
           /\ frozen[i].payload.first \in 1..to
           /\ frozen[i].payload.last \in 1..to
           /\ frozen[i].payload.first <= frozen[i].payload.last
    /\ \A i \in 1..(Len(frozen) - 1) :
           frozen[i + 1].payload.first = frozen[i].payload.last + 1
    /\ \A i, j \in 1..Len(frozen) : i < j => frozen[i].payload.last < frozen[j].payload.first
    /\ frozen = << >> => to = 0
    /\ frozen # << >> => frozen[1].payload.first = 1 /\ frozen[Len(frozen)].payload.last = to

ChunkRecord == [index : Nat, payload : [first : Nat, last : Nat]]

Types ==
    /\ range \in Ranges
    /\ phase \in {"packing", "write", "written", "refused"}
    /\ chunks \in Seq(ChunkRecord)
    /\ first \in Nat /\ next \in Nat /\ size \in Nat

\* The loop is within the diff, and current and size agree.
Loop ==
    /\ 1 <= first /\ first <= next /\ next <= Len(range.starts)
    /\ phase = "packing" => size = range.starts[next] - range.starts[first]
    /\ phase = "packing" => size <= range.limit
    /\ phase = "packing" /\ first = next => chunks = << >>
    /\ phase \in {"write", "written"} => first = next /\ next = Len(range.starts)

\* The section that begins current did not fit into the chunk before it.
LastIsFull ==
    chunks # << >> /\ first < next =>
        Bytes(chunks[Len(chunks)].payload.first, first) > range.limit

Packing == Types /\ Loop /\ Contiguous(chunks, first - 1) /\ Packed /\ LastIsFull
-----------------------------------------------------------------------------
(* The current chunk and its closing.                                      *)

\* The offsets grow with the sections.
LEMMA Offsets ==
    ASSUME range \in Ranges
    PROVE  /\ Len(range.starts) \in Nat \ {0}
           /\ range.limit \in Nat
           /\ \A i \in 1..Len(range.starts) : range.starts[i] \in Nat
           /\ \A i, j \in 1..Len(range.starts) : i < j => range.starts[i] < range.starts[j]
  BY RangeAssumption DEF Range

\* Closing current, when there is one, extends the contiguous chunks to the section
\* before next.
LEMMA FlushedContiguous ==
    ASSUME Types, first \in Nat \ {0}, first <= next, Contiguous(chunks, first - 1)
    PROVE  /\ Flushed \in Seq(ChunkRecord)
           /\ Contiguous(Flushed, next - 1)
<1>1. CASE first = next
  BY <1>1 DEF Flushed, Types
<1>2. CASE first # next
  <2> DEFINE new == Chunk(Len(chunks), Run(first, next - 1))
             longer == Append(chunks, new)
  <2>1. /\ chunks \in Seq(ChunkRecord) /\ Len(chunks) \in Nat
        /\ first \in Nat \ {0} /\ next \in Nat /\ first < next
        /\ next - 1 \in Nat /\ first - 1 \in Nat
    BY <1>2 DEF Types
  <2>2. new \in ChunkRecord
    BY <2>1 DEF Chunk, Run, ChunkRecord, Types
  <2>3. /\ longer \in Seq(ChunkRecord) /\ Len(longer) = Len(chunks) + 1
        /\ longer[Len(chunks) + 1] = new
        /\ \A i \in 1..Len(chunks) : longer[i] = chunks[i]
        /\ longer # << >>
    BY <2>1, <2>2
  <2>4. new.index = Len(chunks) /\ new.payload.first = first /\ new.payload.last = next - 1
    BY DEF Chunk, Run
  <2> HIDE DEF new, longer
  <2>5. ASSUME NEW i \in 1..Len(longer)
        PROVE  /\ longer[i].index = i - 1
               /\ longer[i].payload.first \in 1..(next - 1)
               /\ longer[i].payload.last \in 1..(next - 1)
               /\ longer[i].payload.first <= longer[i].payload.last
    <3>1. CASE i = Len(chunks) + 1
      BY <3>1, <2>1, <2>3, <2>4
    <3>2. CASE i \in 1..Len(chunks)
      <4>1. /\ chunks[i].index = i - 1
            /\ chunks[i].payload.first \in 1..(first - 1)
            /\ chunks[i].payload.last \in 1..(first - 1)
            /\ chunks[i].payload.first <= chunks[i].payload.last
        BY <3>2 DEF Contiguous
      <4>2. 1..(first - 1) \subseteq 1..(next - 1) /\ longer[i] = chunks[i]
        BY <2>1, <2>3, <3>2
      <4> QED BY <4>1, <4>2
    <3> QED BY <3>1, <3>2, <2>1, <2>3
  <2>6. ASSUME NEW i \in 1..(Len(longer) - 1)
        PROVE  longer[i + 1].payload.first = longer[i].payload.last + 1
    <3>1. i \in 1..Len(chunks) /\ longer[i] = chunks[i]
      BY <2>1, <2>3
    <3>2. CASE i = Len(chunks)
      <4>1. chunks # << >>
        BY <3>1, <3>2
      <4>2. chunks[i].payload.last = first - 1
        BY <3>2, <4>1 DEF Contiguous
      <4> QED BY <2>1, <2>3, <2>4, <3>1, <3>2, <4>2
    <3>3. CASE i # Len(chunks)
      <4>1. i \in 1..(Len(chunks) - 1) /\ i + 1 \in 1..Len(chunks)
        BY <2>1, <3>1, <3>3
      <4> QED BY <2>3, <3>1, <4>1 DEF Contiguous
    <3> QED BY <3>2, <3>3
  <2>7. longer[1].payload.first = 1 /\ longer[Len(longer)].payload.last = next - 1
    <3>1. CASE chunks = << >>
      BY <3>1, <2>1, <2>3, <2>4 DEF Contiguous
    <3>2. CASE chunks # << >>
      <4>1. 1 \in 1..Len(chunks)
        BY <3>2, <2>1
      <4> QED BY <3>2, <4>1, <2>3, <2>4 DEF Contiguous
    <3> QED BY <3>1, <3>2
  <2>8. ASSUME NEW i \in 1..Len(longer), NEW j \in 1..Len(longer), i < j
        PROVE  longer[i].payload.last < longer[j].payload.first
    <3>1. i \in 1..Len(chunks) /\ longer[i] = chunks[i]
      BY <2>1, <2>3, <2>8
    <3>2. CASE j = Len(chunks) + 1
      <4>1. chunks[i].payload.last \in 1..(first - 1)
        BY <3>1 DEF Contiguous
      <4> QED BY <2>1, <2>3, <2>4, <3>1, <3>2, <4>1
    <3>3. CASE j # Len(chunks) + 1
      <4>1. j \in 1..Len(chunks) /\ longer[j] = chunks[j]
        BY <2>1, <2>3, <3>3
      <4> QED BY <2>8, <3>1, <4>1 DEF Contiguous
    <3> QED BY <3>2, <3>3
  <2>9. Contiguous(longer, next - 1)
    BY <2>3, <2>5, <2>6, <2>7, <2>8 DEF Contiguous
  <2> QED BY <1>2, <2>3, <2>9 DEF Flushed, longer, new
<1> QED BY <1>1, <1>2

\* Contiguous chunks up to the last section pass the validation of the manifest.
LEMMA ContiguousIsValid ==
    ASSUME NEW frozen \in Seq(ChunkRecord), NEW to \in Nat, Contiguous(frozen, to)
    PROVE  ValidManifest(Manifest(frozen, Run(1, to)))
<1> DEFINE m == Manifest(frozen, Run(1, to))
<1>1. m.chunks = frozen /\ m.diff.first = 1 /\ m.diff.last = to
  BY DEF Manifest, Run
<1>2. Reassembles(m.chunks, m.diff)
  BY <1>1 DEF Reassembles, Contiguous
<1>3. /\ \A i \in 1..Len(m.chunks) : m.chunks[i].index = i - 1
      /\ \A i, j \in 1..Len(m.chunks) : i < j =>
             m.chunks[i].payload.last < m.chunks[j].payload.first
  BY <1>1 DEF Contiguous
<1> QED BY <1>2, <1>3 DEF ValidManifest

-----------------------------------------------------------------------------
(* The invariant.                                                          *)

LEMMA InitInvariant == ManifestInit => Packing
<1> SUFFICES ASSUME ManifestInit PROVE Packing
  OBVIOUS
<1>1. Types
  BY DEF ManifestInit, Types
<1>2. Loop
  BY <1>1, Offsets DEF ManifestInit, Loop, Types
<1>3. Contiguous(chunks, first - 1) /\ Packed /\ LastIsFull
  BY DEF ManifestInit, Contiguous, Packed, LastIsFull
<1> QED BY <1>1, <1>2, <1>3 DEF Packing

\* What the loop knows at a section it reads.
LEMMA AtSection ==
    ASSUME Packing, Reading
    PROVE  /\ next \in 1..Len(range.starts) /\ next + 1 \in 1..Len(range.starts)
           /\ first \in 1..Len(range.starts)
           /\ range.starts[first] \in Nat /\ range.starts[next] \in Nat
           /\ range.starts[next + 1] \in Nat
           /\ range.starts[next] < range.starts[next + 1]
           /\ Length = range.starts[next + 1] - range.starts[next]
           /\ Length \in Nat
           /\ size = range.starts[next] - range.starts[first]
           /\ range.limit \in Nat
<1>1. range \in Ranges /\ next \in Nat /\ first \in Nat
  BY DEF Packing, Types
<1>2. Len(range.starts) \in Nat \ {0}
  BY <1>1, Offsets
<1>3. /\ next \in 1..Len(range.starts) /\ next + 1 \in 1..Len(range.starts)
      /\ first \in 1..Len(range.starts) /\ next < next + 1
  BY <1>1, <1>2 DEF Packing, Loop, Reading, Sections
<1>4. /\ range.starts[first] \in Nat /\ range.starts[next] \in Nat
      /\ range.starts[next + 1] \in Nat /\ range.limit \in Nat
      /\ range.starts[next] < range.starts[next + 1]
  BY <1>1, <1>3, Offsets
<1>5. size = range.starts[next] - range.starts[first]
  BY DEF Packing, Loop, Reading
<1> QED BY <1>3, <1>4, <1>5 DEF Length, Bytes

\* The bytes of current and of the section after it are those of both.
LEMMA Together ==
    ASSUME NEW a \in Nat, NEW b \in Nat, NEW c \in Nat, NEW s, NEW l, s = b - a, l = c - b
    PROVE  s + l = c - a
  OBVIOUS

LEMMA AddInvariant == ASSUME Packing, Add PROVE Packing'
<1>1. /\ Reading /\ Length <= range.limit
      /\ first = next \/ size + Length <= range.limit
      /\ range' = range /\ phase' = phase /\ chunks' = chunks /\ first' = first
      /\ next' = next + 1 /\ size' = size + Length
  BY DEF Add
<1>2. /\ next \in 1..Len(range.starts) /\ next + 1 \in 1..Len(range.starts)
      /\ first \in Nat /\ 1 <= first /\ first <= next /\ next \in Nat
      /\ range.starts[first] \in Nat /\ range.starts[next] \in Nat
      /\ range.starts[next + 1] \in Nat /\ range.limit \in Nat
      /\ Length = range.starts[next + 1] - range.starts[next] /\ Length \in Nat
      /\ size = range.starts[next] - range.starts[first] /\ size \in Nat
      /\ phase = "packing"
  BY <1>1, AtSection DEF Packing, Types, Loop, Reading
<1>3. size + Length \in Nat /\ size + Length <= range.limit
  <2>1. CASE first = next
    BY <1>1, <1>2, <2>1
  <2>2. CASE size + Length <= range.limit
    BY SMTT(60), <1>2, <2>2
  <2> QED BY <1>1, <2>1, <2>2
<1>4. Types'
  BY <1>1, <1>2, <1>3 DEF Packing, Types
<1>5. Loop'
  <2>1. 1 <= first /\ first <= next + 1 /\ first # next + 1 /\ next + 1 <= Len(range.starts)
    BY <1>2
  <2>2. size + Length = range.starts[next + 1] - range.starts[first]
    <3> DEFINE a == range.starts[first]
               b == range.starts[next]
               c == range.starts[next + 1]
    <3>1. a \in Nat /\ b \in Nat /\ c \in Nat /\ size = b - a /\ Length = c - b
      BY <1>2
    <3> HIDE DEF a, b, c
    <3>2. size + Length = c - a
      BY <3>1, Together
    <3> QED BY <3>2 DEF a, b, c
  <2> QED BY <1>1, <1>2, <1>3, <2>1, <2>2 DEF Loop
<1>6. Contiguous(chunks, first - 1)' /\ Packed'
  BY <1>1 DEF Packing, Contiguous, Packed, Bytes
<1>7. LastIsFull'
  <2>1. CASE first < next
    BY <1>1, <2>1 DEF Packing, LastIsFull, Bytes
  <2>2. CASE first = next
    BY <1>1, <1>2, <2>2 DEF Packing, Loop, LastIsFull
  <2> QED BY <1>2, <2>1, <2>2
<1> QED BY <1>4, <1>5, <1>6, <1>7 DEF Packing

\* Closing current keeps every chunk as full as the limit allows, and what follows it
\* did not fit when the section after it does not.
LEMMA FlushedPacked ==
    ASSUME Packing, phase = "packing"
    PROVE  /\ \A i \in 1..Len(Flushed) :
                  Bytes(Flushed[i].payload.first, Flushed[i].payload.last) <= range.limit
           /\ \A i \in 1..(Len(Flushed) - 1) :
                  Bytes(Flushed[i].payload.first, Flushed[i].payload.last + 1) > range.limit
<1>1. CASE first = next
  BY <1>1 DEF Flushed, Packing, Packed
<1>2. CASE first # next
  <2> DEFINE new == Chunk(Len(chunks), Run(first, next - 1))
             longer == Append(chunks, new)
  <2>1. /\ chunks \in Seq(ChunkRecord) /\ Len(chunks) \in Nat
        /\ first \in Nat \ {0} /\ next \in Nat /\ first < next /\ next - 1 + 1 = next
        /\ Bytes(first, next - 1) <= range.limit
    BY <1>2 DEF Packing, Types, Loop, Bytes
  <2>2. new \in ChunkRecord /\ new.payload.first = first /\ new.payload.last = next - 1
    BY <2>1 DEF Chunk, Run, ChunkRecord
  <2>3. /\ Len(longer) = Len(chunks) + 1
        /\ longer[Len(chunks) + 1] = new
        /\ \A i \in 1..Len(chunks) : longer[i] = chunks[i]
    BY <2>1, <2>2
  <2>4. Flushed = longer
    BY <1>2 DEF Flushed
  <2> HIDE DEF new, longer
  <2>5. ASSUME NEW i \in 1..Len(longer)
        PROVE  Bytes(longer[i].payload.first, longer[i].payload.last) <= range.limit
    <3>1. CASE i = Len(chunks) + 1
      BY <2>1, <2>2, <2>3, <3>1
    <3>2. CASE i \in 1..Len(chunks)
      BY <2>3, <3>2 DEF Packing, Packed
    <3> QED BY <2>1, <2>3, <3>1, <3>2
  <2>6. ASSUME NEW i \in 1..(Len(longer) - 1)
        PROVE  Bytes(longer[i].payload.first, longer[i].payload.last + 1) > range.limit
    <3>1. i \in 1..Len(chunks) /\ longer[i] = chunks[i]
      BY <2>1, <2>3
    <3>2. CASE i = Len(chunks)
      <4>1. chunks # << >>
        BY <3>1, <3>2
      <4>2. chunks[i].payload.last + 1 = first
        BY <2>1, <3>2, <4>1 DEF Packing, Contiguous
      <4> QED BY <2>1, <3>1, <3>2, <4>1, <4>2 DEF Packing, LastIsFull
    <3>3. CASE i # Len(chunks)
      <4>1. i \in 1..(Len(chunks) - 1)
        BY <2>1, <3>1, <3>3
      <4> QED BY <3>1, <4>1 DEF Packing, Packed
    <3> QED BY <3>2, <3>3
  <2> QED BY <2>4, <2>5, <2>6
<1> QED BY <1>1, <1>2

LEMMA FlushAndAddInvariant == ASSUME Packing, FlushAndAdd PROVE Packing'
<1>1. /\ Reading /\ Length <= range.limit /\ first < next /\ size + Length > range.limit
      /\ range' = range /\ phase' = phase /\ chunks' = Flushed /\ first' = next
      /\ next' = next + 1 /\ size' = Length
  BY DEF FlushAndAdd
<1>2. /\ next + 1 \in 1..Len(range.starts)
      /\ first \in Nat \ {0} /\ first <= next /\ next \in Nat
      /\ range.starts[first] \in Nat /\ range.starts[next] \in Nat
      /\ range.starts[next + 1] \in Nat /\ range.limit \in Nat
      /\ first # next
      /\ Length = range.starts[next + 1] - range.starts[next] /\ Length \in Nat
      /\ size = range.starts[next] - range.starts[first]
      /\ phase = "packing"
  BY <1>1, AtSection DEF Packing, Types, Loop, Reading
<1>3. Flushed \in Seq(ChunkRecord) /\ Contiguous(Flushed, next - 1)
  BY <1>2, FlushedContiguous DEF Packing
<1>4. Types'
  BY <1>1, <1>2, <1>3 DEF Packing, Types
<1>5. Loop'
  BY <1>1, <1>2 DEF Loop
<1>6. Contiguous(chunks, first - 1)'
  BY <1>1, <1>3 DEF Contiguous
<1>7. Packed'
  BY <1>1, <1>2, FlushedPacked DEF Packed, Bytes
<1>8. LastIsFull'
  <2>1. Flushed = Append(chunks, Chunk(Len(chunks), Run(first, next - 1)))
    BY <1>2 DEF Flushed
  <2>2. chunks \in Seq(ChunkRecord) /\ Chunk(Len(chunks), Run(first, next - 1)) \in ChunkRecord
    BY <1>1, <1>2 DEF Packing, Types, Chunk, Run, ChunkRecord
  <2>3. Flushed[Len(Flushed)].payload.first = first
    BY <2>1, <2>2 DEF Chunk, Run
  <2>4. Bytes(first, next) > range.limit
    <3> DEFINE a == range.starts[first]
               b == range.starts[next]
               c == range.starts[next + 1]
    <3>1. /\ a \in Nat /\ b \in Nat /\ c \in Nat /\ size = b - a /\ Length = c - b
          /\ size + Length > range.limit
      BY <1>1, <1>2
    <3> HIDE DEF a, b, c
    <3>2. c - a > range.limit
      BY <3>1, Together
    <3> QED BY <3>2 DEF a, b, c, Bytes
  <2>5. LastIsFull' <=> (chunks' # << >> /\ first' < next' =>
            range'.starts[first' + 1] - range'.starts[chunks'[Len(chunks')].payload.first]
                > range'.limit)
    BY DEF LastIsFull, Bytes
  <2> QED BY <1>1, <2>3, <2>4, <2>5 DEF Bytes
<1> QED BY <1>4, <1>5, <1>6, <1>7, <1>8 DEF Packing

LEMMA FlushLastInvariant == ASSUME Packing, FlushLast PROVE Packing'
<1>1. /\ phase = "packing" /\ next \notin Sections
      /\ chunks' = Flushed /\ first' = next /\ size' = 0 /\ phase' = "write"
      /\ range' = range /\ next' = next
  BY DEF FlushLast
<1>2. /\ first \in Nat \ {0} /\ first <= next /\ next \in Nat
      /\ Len(range.starts) \in Nat \ {0} /\ next = Len(range.starts)
  BY <1>1, Offsets DEF Packing, Types, Loop, Sections
<1>3. Flushed \in Seq(ChunkRecord) /\ Contiguous(Flushed, next - 1)
  BY <1>2, FlushedContiguous DEF Packing
<1>4. Types' /\ Loop'
  BY <1>1, <1>2, <1>3 DEF Packing, Types, Loop
<1>5. Contiguous(chunks, first - 1)'
  BY <1>1, <1>3 DEF Contiguous
<1>6. Packed'
  BY <1>1, FlushedPacked DEF Packed, Bytes
<1>7. LastIsFull'
  BY <1>1, <1>2 DEF LastIsFull
<1> QED BY <1>4, <1>5, <1>6, <1>7 DEF Packing

\* The steps that leave the loop where it is.
LEMMA RestInvariant ==
    ASSUME Packing, Refuse \/ WriteManifest \/ UNCHANGED builder
    PROVE  Packing'
<1>1. /\ range' = range /\ chunks' = chunks /\ first' = first /\ next' = next /\ size' = size
      /\ phase' \in {phase, "refused", "written"}
      /\ phase' = "written" => phase \in {"write", "written"}
  BY DEF Refuse, WriteManifest, manifestVars, builder, Packing, Types
<1>2. Types'
  BY <1>1 DEF Packing, Types
<1>3. Loop'
  BY <1>1 DEF Packing, Loop
<1>4. Contiguous(chunks, first - 1)' /\ Packed' /\ LastIsFull'
  BY <1>1 DEF Packing, Contiguous, Packed, LastIsFull, Bytes
<1> QED BY <1>2, <1>3, <1>4 DEF Packing

\* The packing loop keeps its invariant.
THEOREM ManifestInvariant == ManifestSpec => []Packing
<1>1. ManifestInit => Packing
  BY InitInvariant
<1>2. Packing /\ [Freeze]_manifestVars => Packing'
  BY AddInvariant, FlushAndAddInvariant, FlushLastInvariant, RestInvariant
     DEF Freeze, manifestVars
<1> QED BY <1>1, <1>2, PTL DEF ManifestSpec

LEMMA PackingIsTheDiff == Packing => FrozenIsTheDiff
  <1> SUFFICES ASSUME Packing, phase \in {"write", "written"}
               PROVE  ValidManifest(Manifest(chunks, TheDiff)) /\ Packed
    BY DEF FrozenIsTheDiff
  <1>1. /\ first - 1 = Len(range.starts) - 1 /\ first - 1 \in Nat
        /\ chunks \in Seq(ChunkRecord) /\ Contiguous(chunks, first - 1)
    BY DEF Packing, Types, Loop
  <1>2. ValidManifest(Manifest(chunks, Run(1, first - 1)))
    BY <1>1, ContiguousIsValid
  <1> QED BY <1>1, <1>2 DEF TheDiff, Packing

\* What is frozen is the whole diff, once and in order, in chunks as full as the limit
\* allows, whatever the sizes of its sections (_chunks, validate_range_manifest).
THEOREM FrozenIsTheDiffAlways == ManifestSpec => []FrozenIsTheDiff
  BY PackingIsTheDiff, ManifestInvariant, PTL


-----------------------------------------------------------------------------
(* Types of the range review.                                              *)

RunRecord == [first : Nat, last : Nat]
ManifestRecord == [chunks : Seq(ChunkRecord), diff : RunRecord]

Ids == {request.id : request \in Requests} \cup {"stranger"}
ChunkIds == [id : Ids, index : Nat]
Authors == (Drivers \X Nat) \cup {<<"other", 0>>}

ReceiptRecord ==
    [by : Authors, id : ChunkIds, manifest : ManifestRecord, index : Nat, payload : RunRecord,
     result : {"accepted", "unavailable"}, findings : SUBSET STRING,
     unconfirmed : SUBSET STRING, altered : BOOLEAN]

\* What a driver notes of a chunk.
ReviewRecord ==
    [index : Nat, payload : RunRecord, id : ChunkIds, receipt : Nat,
     digest : SUBSET ReceiptRecord, result : {"accepted", "unavailable", "missing"},
     findings : SUBSET STRING]

AggregateRecord ==
    [manifest : ManifestRecord, id : Ids, records : Seq(ReviewRecord),
     result : {"accepted", "incomplete"}, findings : SUBSET (Nat \X STRING), approved : BOOLEAN]

\* What is at a path where an aggregate belongs.
WholeFiles == [file : {"whole"}, by : Drivers, aggregate : AggregateRecord]
Files == {Absent, Half} \cup WholeFiles

Child ==
    [status : {"running", "reported", "exited"}, code : Nat, id : Ids,
     manifest : ManifestRecord, index : Nat, payload : RunRecord]

Job ==
    [id : Ids, out : Outputs, manifest : ManifestRecord, records : Seq(ReviewRecord),
     before : Seq(ReceiptRecord), draft : SUBSET AggregateRecord, began : Nat,
     failed : BOOLEAN]

PcStates == {"idle", "next", "waiting", "write", "print", "done", "killed"}

\* A driver that has written its aggregate is here, and from here it goes nowhere else.
Decided == {"print", "done", "killed"}

TypeInv ==
    /\ Packing
    /\ file \in ManifestRecord
    /\ setting \in Settings
    /\ receipts \in Seq(ReceiptRecord)
    /\ aggregates \in [Outputs -> Files]
    /\ child \in [Drivers -> {NoChild} \cup Child]
    /\ pc \in [Drivers -> PcStates]
    /\ job \in [Drivers -> {NoJob} \cup Job]
    /\ exit \in [Drivers -> {"none", "accepted", "incomplete", "error"}]
    /\ edits \in 0..setting.edits

-----------------------------------------------------------------------------
(* Receipts come, and are altered; nothing else happens to them.           *)

\* b is the receipt a, or its bytes are no longer those a run wrote.
Same(a, b) ==
    /\ b.by = a.by /\ b.id = a.id /\ b.manifest = a.manifest /\ b.index = a.index
    /\ b.payload = a.payload /\ b.result = a.result /\ b.findings = a.findings
    /\ a.altered => b.altered
    /\ ~b.altered => b = a

Grown(old, new) ==
    /\ Len(old) <= Len(new)
    /\ \A p \in 1..Len(old) : Same(old[p], new[p])

-----------------------------------------------------------------------------
(* What a driver d is doing: at is its place, j its local variables and c  *)
(* its child, under these receipts.                                        *)

\* The receipts that are not d's own, or not as they were written.
Disturbed(log, d, began) ==
    \/ \E p \in 1..Len(log) : p > began /\ log[p].by[1] # d
    \/ \E p \in 1..Len(log) : log[p].altered

\* record is that of chunk index, and receipt r of it is in order.
Holds(m, id, record, index, r) ==
    LET chunk == m.chunks[index + 1]
    IN  /\ record.index = index
        /\ record.payload = chunk.payload
        /\ record.id = ChunkId(id, index)
        /\ record.digest = {r}
        /\ r.id = record.id
        /\ r.manifest = m /\ r.index = index
        /\ r.payload = chunk.payload
        /\ r.result = "accepted" /\ record.result = "accepted"
        /\ record.findings = r.findings

\* What the child of d has left since d launched it.
Left(log, before, d) ==
    {p \in 1..Len(log) : p > Len(before) /\ log[p].by[1] = d}

\* While d waits, its child reviews the next chunk, and has left no receipt or one.
Waiting(log, j, c, d) ==
    LET index == Len(j.records)
    IN  /\ index < Len(j.manifest.chunks)
        /\ c \in Child
        /\ c.id = j.id /\ c.manifest = j.manifest /\ c.index = index
        /\ c.payload = j.manifest.chunks[index + 1].payload
        /\ j.began <= Len(j.before) /\ Grown(j.before, log)
        /\ c.status = "running" => c.code = 0 /\ Left(log, j.before, d) = {}
        /\ c.status # "running" /\ c.code = 0 => Left(log, j.before, d) # {}
        /\ \A p, q \in Left(log, j.before, d) : p = q
        /\ \A p \in Left(log, j.before, d) :
               LET r == log[p]
               IN  /\ r.by = <<d, index>> /\ r.id = ChunkId(j.id, index)
                   /\ r.manifest = j.manifest /\ r.index = index /\ r.payload = c.payload
                   /\ c.code = 0 => r.result = "accepted"

\* An accepted chunk has a receipt of d's own child, and a chunk that is not has a cause.
Noted(log, j, d) ==
    \A k \in 1..Len(j.records) :
        LET record == j.records[k]
        IN  /\ record.index = k - 1
            /\ record.result = "accepted" =>
                   record.receipt \in 1..Len(log) /\ log[record.receipt].by = <<d, k - 1>>
            /\ ~j.failed /\ ~Disturbed(log, d, j.began) =>
                   /\ record.receipt \in 1..Len(log)
                   /\ Holds(j.manifest, j.id, record, k - 1, log[record.receipt])

\* An accepted aggregate is what the receipts of d's own children say, as they were.
Reviewed(log, a, d) ==
    /\ ValidManifest(a.manifest) /\ a.manifest.chunks # << >>
    /\ Len(a.records) = Len(a.manifest.chunks)
    /\ Sums(a)
    /\ \A k \in 1..Len(a.records) :
           LET record == a.records[k]
           IN  /\ record.receipt \in 1..Len(log)
               /\ log[record.receipt].by = <<d, k - 1>>
               /\ \E r \in record.digest :
                      /\ Same(r, log[record.receipt])
                      /\ Holds(a.manifest, a.id, record, k - 1, r)

\* What d says in its aggregate is true.
Justified(log, j, a, d) ==
    /\ a.result = "accepted" => Reviewed(log, a, d)
    /\ a.result = "incomplete" => j.failed \/ Disturbed(log, d, j.began)
    /\ a.approved => a.result = "accepted"

Doing(log, at, j, c, d) ==
    /\ at = "idle" => c = NoChild
    /\ at \in {"next", "waiting", "write"} =>
           /\ j \in Job
           /\ ValidManifest(j.manifest) /\ j.manifest.chunks # << >>
           /\ j.began <= Len(log)
    /\ at \in {"next", "waiting"} =>
           Len(j.records) <= Len(j.manifest.chunks) /\ Noted(log, j, d)
    /\ at = "waiting" => Waiting(log, j, c, d)
    /\ at = "write" => \A a \in j.draft : Justified(log, j, a, d)
    /\ at = "write" => \A a, b \in j.draft : a = b
    /\ at \in {"next", "write", "print", "done"} => c = NoChild

\* What is on disk of d's aggregate.
Reported(out) ==
    Whole(aggregates[out]) =>
        LET d == aggregates[out].by
            a == aggregates[out].aggregate
        IN  /\ pc[d] \in Decided /\ job[d] \in Job /\ job[d].out = out
            /\ Justified(receipts, job[d], a, d)

\* f is d's aggregate.
Own(d, f) == Whole(f) /\ f.by = d

\* An exit code says what d's own aggregate on disk says.
Exited(d) ==
    /\ pc[d] # "done" => exit[d] = "none"
    /\ pc[d] = "print" =>
           /\ job[d] \in Job /\ Own(d, aggregates[job[d].out])
           /\ \A a \in job[d].draft : a = aggregates[job[d].out].aggregate
    /\ exit[d] \in {"accepted", "incomplete"} =>
           /\ job[d] \in Job /\ Own(d, aggregates[job[d].out])
           /\ aggregates[job[d].out].aggregate.result = exit[d]

IInv ==
    /\ TypeInv
    /\ \A d \in Drivers : Doing(receipts, pc[d], job[d], child[d], d) /\ Exited(d)
    /\ \A out \in Outputs : Reported(out)

-----------------------------------------------------------------------------
(* What is known of receipts stays true.                                   *)

LEMMA GrownTyped ==
    ASSUME NEW old \in Seq(ReceiptRecord), NEW new \in Seq(ReceiptRecord), Grown(old, new)
    PROVE  /\ Len(old) \in Nat /\ Len(new) \in Nat /\ Len(old) <= Len(new)
           /\ \A p \in 1..Len(old) : /\ p \in 1..Len(new) /\ Same(old[p], new[p])
                                     /\ old[p] \in ReceiptRecord /\ new[p] \in ReceiptRecord
  BY DEF Grown

LEMMA GrownReflexive ==
    ASSUME NEW log \in Seq(ReceiptRecord)
    PROVE  Grown(log, log)
  BY DEF Grown, Same

LEMMA SameTransitive ==
    ASSUME NEW a, NEW b, NEW c, Same(a, b), Same(b, c)
    PROVE  Same(a, c)
  BY DEF Same

LEMMA GrownTransitive ==
    ASSUME NEW a \in Seq(ReceiptRecord), NEW b \in Seq(ReceiptRecord),
           NEW c \in Seq(ReceiptRecord), Grown(a, b), Grown(b, c)
    PROVE  Grown(a, c)
  <1>1. /\ Len(a) \in Nat /\ Len(b) \in Nat /\ Len(c) \in Nat
        /\ Len(a) <= Len(b) /\ Len(b) <= Len(c)
    BY DEF Grown
  <1>2. ASSUME NEW p \in 1..Len(a)
        PROVE  Same(a[p], c[p])
    <2>1. p \in 1..Len(b)
      BY <1>1
    <2> QED BY <2>1, SameTransitive DEF Grown
  <1> QED BY <1>1, <1>2 DEF Grown

\* A receipt more.
LEMMA Arrives ==
    ASSUME NEW log \in Seq(ReceiptRecord), NEW r \in ReceiptRecord
    PROVE  /\ Append(log, r) \in Seq(ReceiptRecord)
           /\ Grown(log, Append(log, r))
           /\ Len(log) \in Nat /\ Len(Append(log, r)) = Len(log) + 1
           /\ Append(log, r)[Len(log) + 1] = r
           /\ \A p \in 1..Len(log) : Append(log, r)[p] = log[p]
  BY DEF Grown, Same

\* A receipt is altered.
LEMMA Alters ==
    ASSUME NEW log \in Seq(ReceiptRecord), NEW p \in 1..Len(log)
    PROVE  /\ [log EXCEPT ![p].altered = TRUE] \in Seq(ReceiptRecord)
           /\ Grown(log, [log EXCEPT ![p].altered = TRUE])
           /\ Len([log EXCEPT ![p].altered = TRUE]) = Len(log)
  <1> DEFINE r == [log[p] EXCEPT !.altered = TRUE]
             new == [log EXCEPT ![p] = r]
  <1>1. log[p] \in ReceiptRecord
    OBVIOUS
  <1>2. r \in ReceiptRecord /\ Same(log[p], r)
    BY <1>1 DEF ReceiptRecord, Same
  <1> HIDE DEF r
  <1>3. /\ new \in Seq(ReceiptRecord) /\ Len(new) = Len(log)
        /\ new[p] = r /\ \A q \in 1..Len(log) : q # p => new[q] = log[q]
    BY <1>2
  <1>4. Grown(log, new)
    <2>1. \A q \in 1..Len(log) : Same(log[q], new[q])
      BY <1>2, <1>3 DEF Same
    <2> QED BY <1>3, <2>1 DEF Grown
  <1> QED BY <1>3, <1>4 DEF r

LEMMA DisturbedStays ==
    ASSUME NEW old \in Seq(ReceiptRecord), NEW new \in Seq(ReceiptRecord), Grown(old, new),
           NEW d, NEW n, Disturbed(old, d, n)
    PROVE  Disturbed(new, d, n)
  BY GrownTyped DEF Disturbed, Same

LEMMA HoldsUnaltered ==
    ASSUME NEW old \in Seq(ReceiptRecord), NEW new \in Seq(ReceiptRecord), Grown(old, new),
           NEW p \in 1..Len(old), NEW d, NEW n, ~Disturbed(new, d, n)
    PROVE  new[p] = old[p]
  <1>1. p \in 1..Len(new) /\ Same(old[p], new[p])
    BY GrownTyped
  <1>2. ~new[p].altered
    BY <1>1 DEF Disturbed
  <1> QED BY <1>1, <1>2 DEF Same

LEMMA NotedStays ==
    ASSUME NEW old \in Seq(ReceiptRecord), NEW new \in Seq(ReceiptRecord), Grown(old, new),
           NEW j, NEW d, Noted(old, j, d)
    PROVE  Noted(new, j, d)
  <1> SUFFICES ASSUME NEW k \in 1..Len(j.records)
               PROVE  LET record == j.records[k]
                      IN  /\ record.index = k - 1
                          /\ record.result = "accepted" =>
                                 /\ record.receipt \in 1..Len(new)
                                 /\ new[record.receipt].by = <<d, k - 1>>
                          /\ ~j.failed /\ ~Disturbed(new, d, j.began) =>
                                 /\ record.receipt \in 1..Len(new)
                                 /\ Holds(j.manifest, j.id, record, k - 1, new[record.receipt])
    BY DEF Noted
  <1> DEFINE record == j.records[k]
  <1>1. /\ record.index = k - 1
        /\ record.result = "accepted" =>
               record.receipt \in 1..Len(old) /\ old[record.receipt].by = <<d, k - 1>>
        /\ ~j.failed /\ ~Disturbed(old, d, j.began) =>
               /\ record.receipt \in 1..Len(old)
               /\ Holds(j.manifest, j.id, record, k - 1, old[record.receipt])
    BY DEF Noted
  <1> HIDE DEF record
  <1>2. record.result = "accepted" =>
            record.receipt \in 1..Len(new) /\ new[record.receipt].by = <<d, k - 1>>
    BY <1>1, GrownTyped DEF Same
  <1>3. ASSUME ~j.failed, ~Disturbed(new, d, j.began)
        PROVE  /\ record.receipt \in 1..Len(new)
               /\ Holds(j.manifest, j.id, record, k - 1, new[record.receipt])
    <2>1. /\ record.receipt \in 1..Len(old)
          /\ Holds(j.manifest, j.id, record, k - 1, old[record.receipt])
      BY <1>1, <1>3, DisturbedStays
    <2>2. new[record.receipt] = old[record.receipt]
      BY <1>3, <2>1, HoldsUnaltered
    <2> QED BY <2>1, <2>2, GrownTyped
  <1> QED BY <1>1, <1>2, <1>3 DEF record

LEMMA ReviewedStays ==
    ASSUME NEW old \in Seq(ReceiptRecord), NEW new \in Seq(ReceiptRecord), Grown(old, new),
           NEW a, NEW d, Reviewed(old, a, d)
    PROVE  Reviewed(new, a, d)
  <1>1. ASSUME NEW k \in 1..Len(a.records)
        PROVE  LET record == a.records[k]
               IN  /\ record.receipt \in 1..Len(new)
                   /\ new[record.receipt].by = <<d, k - 1>>
                   /\ \E r \in record.digest :
                          /\ Same(r, new[record.receipt])
                          /\ Holds(a.manifest, a.id, record, k - 1, r)
    <2> DEFINE record == a.records[k]
    <2>1. /\ record.receipt \in 1..Len(old) /\ old[record.receipt].by = <<d, k - 1>>
      BY DEF Reviewed
    <2>2. PICK r \in record.digest :
              Same(r, old[record.receipt]) /\ Holds(a.manifest, a.id, record, k - 1, r)
      BY DEF Reviewed
    <2> HIDE DEF record
    <2>3. /\ record.receipt \in 1..Len(new)
          /\ Same(old[record.receipt], new[record.receipt])
      BY <2>1, GrownTyped
    <2>4. Same(r, new[record.receipt])
      BY <2>2, <2>3, SameTransitive
    <2>5. new[record.receipt].by = <<d, k - 1>>
      BY <2>1, <2>3 DEF Same
    <2> QED BY <2>2, <2>3, <2>4, <2>5 DEF record
  <1> QED BY <1>1 DEF Reviewed

LEMMA JustifiedStays ==
    ASSUME NEW old \in Seq(ReceiptRecord), NEW new \in Seq(ReceiptRecord), Grown(old, new),
           NEW j, NEW a, NEW d, Justified(old, j, a, d)
    PROVE  Justified(new, j, a, d)
  BY ReviewedStays, DisturbedStays DEF Justified

-----------------------------------------------------------------------------
(* What a driver is doing stays true while others leave receipts.          *)

\* The receipts that come are not of d's children.
Foreign(old, new, d) ==
    /\ Grown(old, new)
    /\ \A p \in 1..Len(new) : p > Len(old) => new[p].by[1] # d

LEMMA LeftStays ==
    ASSUME NEW old \in Seq(ReceiptRecord), NEW new \in Seq(ReceiptRecord), NEW d,
           Foreign(old, new, d), NEW before \in Seq(ReceiptRecord)
    PROVE  Left(new, before, d) = Left(old, before, d)
  <1>1. /\ Len(old) \in Nat /\ Len(new) \in Nat /\ Len(before) \in Nat
        /\ \A p \in 1..Len(old) : p \in 1..Len(new) /\ new[p].by = old[p].by
        /\ \A p \in 1..Len(new) : p \in 1..Len(old) \/ p > Len(old)
    BY GrownTyped DEF Foreign, Same
  <1> QED BY <1>1 DEF Left, Foreign

LEMMA WaitingStays ==
    ASSUME NEW old \in Seq(ReceiptRecord), NEW new \in Seq(ReceiptRecord), NEW d,
           Foreign(old, new, d), NEW j \in Job, NEW c, Waiting(old, j, c, d)
    PROVE  Waiting(new, j, c, d)
  <1>1. j.before \in Seq(ReceiptRecord)
    BY DEF Job
  <1>2. Left(new, j.before, d) = Left(old, j.before, d)
    BY <1>1, LeftStays
  <1>3. Grown(j.before, new)
    BY <1>1, GrownTransitive DEF Foreign, Waiting
  <1>4. \A p \in Left(old, j.before, d) :
            /\ new[p].by = old[p].by /\ new[p].id = old[p].id
            /\ new[p].manifest = old[p].manifest /\ new[p].index = old[p].index
            /\ new[p].payload = old[p].payload /\ new[p].result = old[p].result
    BY GrownTyped DEF Left, Foreign, Same
  <1> QED BY SMTT(60), <1>2, <1>3, <1>4 DEF Waiting

LEMMA DoingStays ==
    ASSUME NEW old \in Seq(ReceiptRecord), NEW new \in Seq(ReceiptRecord), NEW d,
           Foreign(old, new, d), NEW at, NEW j, NEW c, Doing(old, at, j, c, d)
    PROVE  Doing(new, at, j, c, d)
  <1>1. Grown(old, new)
    BY DEF Foreign
  <1>2. ASSUME at \in {"next", "waiting", "write"}
        PROVE  j \in Job /\ j.began <= Len(new)
    <2>1. j \in Job /\ j.began <= Len(old) /\ j.began \in Nat
      BY <1>2 DEF Doing, Job
    <2> QED BY <1>1, <2>1, GrownTyped
  <1>3. at \in {"next", "waiting"} => Noted(new, j, d)
    BY <1>1, NotedStays DEF Doing
  <1>4. at = "waiting" => Waiting(new, j, c, d)
    BY <1>2, WaitingStays DEF Doing
  <1>5. at = "write" => \A a \in j.draft : Justified(new, j, a, d)
    BY <1>1, JustifiedStays DEF Doing
  <1>6. at = "write" => \A a, b \in j.draft : a = b
    BY DEF Doing
  <1> QED BY <1>2, <1>3, <1>4, <1>5, <1>6 DEF Doing

-----------------------------------------------------------------------------
(* The steps, sorted by whose they are and what they leave alone.          *)

\* Nothing of driver d but the receipts of others.
Around(d) ==
    /\ pc'[d] = pc[d] /\ job'[d] = job[d] /\ child'[d] = child[d] /\ exit'[d] = exit[d]
    /\ Foreign(receipts, receipts', d)

\* Driver d goes on, or its child; nobody else does.
Only(d) == \A e \in Drivers : e # d => Around(e)

LEMMA OthersGoOn ==
    ASSUME TypeInv, receipts' \in Seq(ReceiptRecord), NEW d \in Drivers, Around(d),
           Doing(receipts, pc[d], job[d], child[d], d)
    PROVE  Doing(receipts', pc'[d], job'[d], child'[d], d)
  BY DoingStays DEF Around, TypeInv

\* An aggregate that is there is still reported: its driver is done.
LEMMA ReportedStays ==
    ASSUME TypeInv, receipts' \in Seq(ReceiptRecord), Grown(receipts, receipts'),
           NEW out \in Outputs, Reported(out), aggregates'[out] = aggregates[out],
           \A d \in Drivers : pc[d] \in Decided => pc'[d] \in Decided /\ job'[d] = job[d]
    PROVE  Reported(out)'
  <1> SUFFICES ASSUME Whole(aggregates[out])
               PROVE  LET d == aggregates[out].by
                          a == aggregates[out].aggregate
                      IN  /\ pc'[d] \in Decided /\ job'[d] \in Job /\ job'[d].out = out
                          /\ Justified(receipts', job'[d], a, d)
    BY ZenonT(60) DEF Reported, Justified, Reviewed, Disturbed, Sums
  <1> DEFINE d == aggregates[out].by
             a == aggregates[out].aggregate
  <1>1. aggregates[out].by \in Drivers
    BY DEF TypeInv, Files, WholeFiles, Whole, Absent, Half
  <1>2. /\ pc[d] \in Decided /\ job[d] \in Job /\ job[d].out = out
        /\ Justified(receipts, job[d], a, d)
    BY DEF Reported
  <1>3. pc'[d] \in Decided /\ job'[d] = job[d]
    BY <1>1, <1>2
  <1> HIDE DEF d, a
  <1>4. Justified(receipts', job[d], a, d)
    BY <1>2, JustifiedStays DEF TypeInv
  <1> QED BY <1>2, <1>3, <1>4 DEF d, a

-----------------------------------------------------------------------------
(* What the operators yield is of its type.                                *)

LEMMA SettingTyped ==
    ASSUME setting \in Settings
    PROVE  /\ setting.drivers \subseteq Drivers /\ setting.outcomes \subseteq Outcome
           /\ setting.edits \in Nat
  BY RangeReviewAssumption DEF Setting

LEMMA ManifestTyped ==
    ASSUME NEW frozen \in Seq(ChunkRecord), NEW from \in Nat, NEW to \in Nat
    PROVE  Manifest(frozen, Run(from, to)) \in ManifestRecord
  BY DEF Manifest, Run, ManifestRecord, RunRecord

LEMMA TamperedTyped ==
    ASSUME NEW m \in ManifestRecord
    PROVE  Tampered(m) \subseteq ManifestRecord
  <1> DEFINE n == Len(m.chunks)
             less == SubSeq(m.chunks, 1, n - 1)
             turned == [k \in 1..n |-> m.chunks[n + 1 - k]]
             again == [k \in 1..n |-> Chunk(k - 1, turned[k].payload)]
  <1>1. /\ m.chunks \in Seq(ChunkRecord) /\ n \in Nat /\ m.diff \in RunRecord
        /\ m.diff.first \in Nat
        /\ \A k \in 1..n : m.chunks[k] \in ChunkRecord
    BY DEF ManifestRecord, RunRecord
  <1>2. CASE n < 2
    BY <1>2 DEF Tampered
  <1>3. CASE ~(n < 2)
    <2>1. less \in Seq(ChunkRecord) /\ Len(less) = n - 1 /\ n - 1 \in 1..Len(less)
      BY <1>1, <1>3
    <2>2. less[n - 1] \in ChunkRecord
      BY <2>1
    <2>3. less[n - 1].payload.last \in Nat
      BY <2>2 DEF ChunkRecord
    <2>4. \A k \in 1..n : turned[k] \in ChunkRecord
      BY <1>1
    <2>5. turned \in Seq(ChunkRecord)
      BY <1>1, <2>4
    <2> HIDE DEF turned
    <2>6. \A k \in 1..n : Chunk(k - 1, turned[k].payload) \in ChunkRecord
      <3>1. ASSUME NEW k \in 1..n
            PROVE  Chunk(k - 1, turned[k].payload) \in ChunkRecord
        <4>1. turned[k].payload \in [first : Nat, last : Nat] /\ k - 1 \in Nat
          BY <1>1, <2>4 DEF ChunkRecord
        <4> QED BY <4>1 DEF Chunk, ChunkRecord
      <3> QED BY <3>1
    <2> DEFINE part(k) == Chunk(k - 1, turned[k].payload)
    <2>7. again \in Seq(ChunkRecord)
      <3>1. again = [k \in 1..n |-> part(k)] /\ \A k \in 1..n : part(k) \in ChunkRecord
        BY <2>6
      <3> HIDE DEF part, again
      <3> QED BY <1>1, <3>1
    <2>8. Tampered(m) = {Manifest(less, m.diff),
                         Manifest(less, Run(m.diff.first, less[n - 1].payload.last)),
                         Manifest(turned, m.diff), Manifest(again, m.diff)}
      BY <1>3 DEF Tampered, turned
    <2> HIDE DEF n, less, turned, again
    <2>9. /\ Manifest(less, m.diff) \in ManifestRecord
          /\ Manifest(turned, m.diff) \in ManifestRecord
          /\ Manifest(again, m.diff) \in ManifestRecord
      BY <1>1, <2>1, <2>5, <2>7 DEF Manifest, ManifestRecord
    <2>10. Manifest(less, Run(m.diff.first, less[n - 1].payload.last)) \in ManifestRecord
      BY <1>1, <2>1, <2>3, ManifestTyped
    <2> QED BY <2>8, <2>9, <2>10
  <1> QED BY <1>2, <1>3

\* The chunk a driver is at.
LEMMA PayloadTyped ==
    ASSUME NEW m \in ManifestRecord, NEW index \in Nat, index < Len(m.chunks)
    PROVE  m.chunks[index + 1].payload \in RunRecord
  <1>1. m.chunks \in Seq(ChunkRecord) /\ index + 1 \in 1..Len(m.chunks)
    BY DEF ManifestRecord
  <1>2. m.chunks[index + 1] \in ChunkRecord
    BY <1>1
  <1> QED BY <1>2 DEF ChunkRecord, RunRecord

LEMMA ReceiptTyped ==
    ASSUME NEW by \in Authors, NEW task, NEW outcome \in Outcome,
           task.id \in Ids, task.index \in Nat, task.manifest \in ManifestRecord,
           task.payload \in RunRecord
    PROVE  /\ Receipt(by, task, outcome) \in ReceiptRecord
           /\ Receipt(by, task, outcome).by = by
           /\ Receipt(by, task, outcome).id = ChunkId(task.id, task.index)
           /\ Receipt(by, task, outcome).manifest = task.manifest
           /\ Receipt(by, task, outcome).index = task.index
           /\ Receipt(by, task, outcome).payload = task.payload
           /\ Receipt(by, task, outcome).result = outcome.result
  BY DEF Receipt, ReceiptRecord, ChunkId, ChunkIds, Outcome

LEMMA RecordTyped ==
    ASSUME receipts \in Seq(ReceiptRecord), NEW m \in ManifestRecord, NEW id \in Ids,
           NEW index \in Nat, index < Len(m.chunks), NEW path \in 0..Len(receipts)
    PROVE  /\ RecordOf(m, id, index, path) \in ReviewRecord
           /\ Unavailable(RecordOf(m, id, index, path)) \in ReviewRecord
           /\ RecordOf(m, id, index, path).index = index
           /\ Unavailable(RecordOf(m, id, index, path)).index = index
           /\ Unavailable(RecordOf(m, id, index, path)).result = "unavailable"
           /\ RecordOf(m, id, index, path).receipt = path
           /\ path = 0 => RecordOf(m, id, index, path).result = "missing"
           /\ path # 0 =>
                  LET record == RecordOf(m, id, index, path)
                  IN  /\ record.payload = m.chunks[index + 1].payload
                      /\ record.id = ChunkId(id, index)
                      /\ record.digest = {receipts[path]}
                      /\ record.result = receipts[path].result
                      /\ record.findings = receipts[path].findings
  <1> DEFINE payload == m.chunks[index + 1].payload
  <1>1. payload \in RunRecord
    BY PayloadTyped
  <1>2. ChunkId(id, index) \in ChunkIds
    BY DEF ChunkId, ChunkIds
  <1> HIDE DEF payload
  <1>3. CASE path = 0
    BY <1>1, <1>2, <1>3 DEF RecordOf, NoReceipt, Unavailable, ReviewRecord, payload
  <1>4. CASE path # 0
    <2>1. path \in 1..Len(receipts)
      BY <1>4
    <2>2. receipts[path] \in ReceiptRecord
      BY <2>1
    <2>3. /\ receipts[path].result \in {"accepted", "unavailable"}
          /\ receipts[path].findings \in SUBSET STRING
          /\ {receipts[path]} \in SUBSET ReceiptRecord
      BY <2>2 DEF ReceiptRecord
    <2>4. RecordOf(m, id, index, path) =
              [index |-> index, payload |-> payload, id |-> ChunkId(id, index),
               receipt |-> path, digest |-> {receipts[path]},
               result |-> receipts[path].result, findings |-> receipts[path].findings]
      BY <1>4 DEF RecordOf, NoReceipt, payload
    <2>5. RecordOf(m, id, index, path) \in ReviewRecord
      BY <1>1, <1>2, <2>1, <2>3, <2>4 DEF ReviewRecord
    <2>6. /\ Unavailable(RecordOf(m, id, index, path)) \in ReviewRecord
          /\ Unavailable(RecordOf(m, id, index, path)).index
                 = RecordOf(m, id, index, path).index
          /\ Unavailable(RecordOf(m, id, index, path)).result = "unavailable"
      BY <2>5 DEF Unavailable, ReviewRecord
    <2> QED BY <1>4, <2>4, <2>5, <2>6 DEF payload
  <1> QED BY <1>3, <1>4

LEMMA SelectedTyped ==
    ASSUME receipts \in Seq(ReceiptRecord), NEW before, NEW id
    PROVE  Selected(before, id) \in 0..Len(receipts)
  <1> DEFINE changed == {p \in 1..Len(receipts) : p > Len(before) \/ receipts[p] # before[p]}
  <1>1. CASE \E p \in changed : changed = {p} /\ receipts[p].id = id
    <2>1. Selected(before, id) = CHOOSE p \in changed : TRUE
      BY <1>1 DEF Selected
    <2>2. (CHOOSE p \in changed : TRUE) \in changed
      BY <1>1
    <2> QED BY <2>1, <2>2
  <1>2. CASE ~\E p \in changed : changed = {p} /\ receipts[p].id = id
    BY <1>2 DEF Selected, NoReceipt
  <1> QED BY <1>1, <1>2

LEMMA AggregateTyped ==
    ASSUME NEW m \in ManifestRecord, NEW id \in Ids, NEW records \in Seq(ReviewRecord),
           NEW result \in {"accepted", "incomplete"}
    PROVE  /\ Aggregate(m, id, records, result) \in AggregateRecord
           /\ Aggregate(m, id, records, result).result = result
           /\ Aggregate(m, id, records, result).records = records
           /\ Aggregate(m, id, records, result).manifest = m
           /\ Aggregate(m, id, records, result).id = id
  <1>1. FindingsOf(records) \in SUBSET (Nat \X STRING)
    <2>1. ASSUME NEW k \in 1..Len(records), NEW f \in records[k].findings
          PROVE  <<records[k].index, f>> \in Nat \X STRING
      <3>1. records[k] \in ReviewRecord
        OBVIOUS
      <3> QED BY <2>1, <3>1 DEF ReviewRecord
    <2> QED BY <2>1 DEF FindingsOf
  <1> QED BY <1>1 DEF Aggregate, AggregateRecord

LEMMA BuildTyped ==
    ASSUME NEW m \in ManifestRecord, NEW id \in Ids, NEW records \in Seq(ReviewRecord)
    PROVE  Build(m, id, records) \in AggregateRecord
  BY AggregateTyped DEF Build

-----------------------------------------------------------------------------
(* The steps of a driver and of its child.                                 *)

\* What a step of d or its child may do.
StepOf(d) ==
    /\ TypeInv' /\ Only(d) /\ Grown(receipts, receipts')
    /\ pc[d] \in Decided => pc'[d] \in Decided /\ job'[d] = job[d]
    /\ Doing(receipts', pc'[d], job'[d], child'[d], d)
    /\ Exited(d)'
    /\ \A out \in Outputs :
           \/ aggregates'[out] = aggregates[out]
           \/ ~Whole(aggregates[out]) /\ (Whole(aggregates'[out]) => Reported(out)')

\* Manifest and aggregates are as they were, and receipts too.
LEMMA QuietFrame ==
    ASSUME TypeInv, UNCHANGED <<setting, manifestVars, shared, edits>>
    PROVE  /\ Packing' /\ file' \in ManifestRecord /\ setting' \in Settings
           /\ receipts' \in Seq(ReceiptRecord) /\ receipts' = receipts
           /\ aggregates' = aggregates
           /\ aggregates' \in [Outputs -> Files]
           /\ edits' \in 0..setting'.edits
           /\ Grown(receipts, receipts')
           /\ \A d \in Drivers : Foreign(receipts, receipts', d)
  <1>1. Packing'
    BY RestInvariant DEF TypeInv, manifestVars
  <1>2. receipts' = receipts /\ aggregates' = aggregates /\ file' = file
    BY DEF shared, manifestVars
  <1>3. Grown(receipts, receipts')
    BY <1>2, GrownReflexive DEF TypeInv
  <1>4. \A d \in Drivers : Foreign(receipts, receipts', d)
    <2>1. Len(receipts) \in Nat
      BY DEF TypeInv
    <2> QED BY <1>2, <1>3, <2>1 DEF Foreign
  <1> QED BY <1>1, <1>2, <1>3, <1>4 DEF TypeInv

LEMMA StartStep ==
    ASSUME IInv, NEW d \in Drivers, Start(d), setting' = setting
    PROVE  StepOf(d)
  <1>0. TypeInv /\ Doing(receipts, pc[d], job[d], child[d], d) /\ Exited(d)
    BY DEF IInv
  <1>1. /\ UNCHANGED <<setting, manifestVars, shared, edits>> /\ child' = child
        /\ pc[d] = "idle"
    BY DEF Start, Goto, Exits
  <1>2. child[d] = NoChild /\ exit[d] = "none"
    BY <1>0, <1>1 DEF Doing, Exited
  <1>3. PICK request \in Requests :
           IF ValidManifest(file) /\ file.chunks # << >>
           THEN /\ Goto(d, "idle", "next")
                /\ job' = [job EXCEPT ![d] =
                             [id |-> request.id, out |-> request.out, manifest |-> file,
                              records |-> << >>, before |-> << >>, draft |-> {},
                              began |-> Len(receipts), failed |-> FALSE]]
                /\ UNCHANGED exit
           ELSE Exits(d, "idle", "error") /\ UNCHANGED job
    BY DEF Start
  <1>4. CASE ValidManifest(file) /\ file.chunks # << >>
    <2> DEFINE j == [id |-> request.id, out |-> request.out, manifest |-> file,
                     records |-> << >>, before |-> << >>, draft |-> {},
                     began |-> Len(receipts), failed |-> FALSE]
    <2>1. pc' = [pc EXCEPT ![d] = "next"] /\ job' = [job EXCEPT ![d] = j] /\ exit' = exit
      BY <1>3, <1>4 DEF Goto
    <2>2. j \in Job
      <3>1. request.id \in Ids /\ request.out \in Outputs
        BY DEF Ids, Outputs
      <3>2. file \in ManifestRecord /\ Len(receipts) \in Nat
        BY <1>0 DEF TypeInv
      <3> QED BY <3>1, <3>2 DEF Job
    <2>3. Noted(receipts, j, d) /\ Len(j.records) <= Len(j.manifest.chunks)
      <3>1. Len(file.chunks) \in Nat
        BY <1>0 DEF TypeInv, ManifestRecord
      <3> QED BY <3>1 DEF Noted
    <2>4. /\ j.began = Len(receipts) /\ j.manifest = file
          /\ Len(receipts) \in Nat
      BY <1>0 DEF TypeInv
    <2> HIDE DEF j
    <2>5. Doing(receipts, "next", j, NoChild, d)
      BY <1>4, <2>2, <2>3, <2>4 DEF Doing
    <2>6. pc'[d] = "next" /\ job'[d] = j /\ child'[d] = NoChild /\ receipts' = receipts
      BY <1>0, <1>1, <1>2, <2>1 DEF TypeInv, shared
    <2>7. TypeInv'
      BY <1>0, <1>1, <2>1, <2>2, QuietFrame DEF TypeInv, PcStates
    <2>8. Only(d)
      BY <1>0, <1>1, <2>1, QuietFrame DEF Only, Around, TypeInv
    <2>9. Exited(d)'
      BY <1>2, <2>1, <2>6 DEF Exited
    <2> QED BY <1>0, <1>1, <2>5, <2>6, <2>7, <2>8, <2>9, QuietFrame DEF StepOf, Decided
  <1>5. CASE ~(ValidManifest(file) /\ file.chunks # << >>)
    <2>1. pc' = [pc EXCEPT ![d] = "done"] /\ job' = job /\ exit' = [exit EXCEPT ![d] = "error"]
      BY <1>3, <1>5 DEF Exits, Goto
    <2>2. /\ pc'[d] = "done" /\ job'[d] = job[d] /\ child'[d] = NoChild /\ exit'[d] = "error"
          /\ receipts' = receipts
      BY <1>0, <1>1, <1>2, <2>1 DEF TypeInv, shared
    <2>3. TypeInv'
      BY <1>0, <1>1, <2>1, QuietFrame DEF TypeInv, PcStates
    <2>4. Only(d)
      BY <1>0, <1>1, <2>1, QuietFrame DEF Only, Around, TypeInv
    <2>5. Doing(receipts, "done", job[d], NoChild, d) /\ Exited(d)'
      BY <2>2 DEF Doing, Exited
    <2> QED BY <1>0, <1>1, <2>2, <2>3, <2>4, <2>5, QuietFrame DEF StepOf, Decided
  <1> QED BY <1>4, <1>5

\* A step that touches nothing but where d is, its variables and its child.
LEMMA QuietStep ==
    ASSUME IInv, NEW d \in Drivers, UNCHANGED <<setting, manifestVars, shared, edits, exit>>,
           pc[d] # "done", NEW at \in PcStates \ {"print", "done"},
           NEW j \in {NoJob} \cup Job, NEW c \in {NoChild} \cup Child,
           pc[d] \in Decided => at = pc[d] /\ j = job[d],
           pc' = [pc EXCEPT ![d] = at], job' = [job EXCEPT ![d] = j],
           child' = [child EXCEPT ![d] = c], Doing(receipts, at, j, c, d)
    PROVE  StepOf(d)
  <1>0. TypeInv /\ Exited(d) /\ UNCHANGED <<setting, manifestVars, shared, edits>>
    BY DEF IInv
  <1>1. /\ pc'[d] = at /\ job'[d] = j /\ child'[d] = c /\ receipts' = receipts
        /\ exit' = exit /\ exit[d] = "none"
    BY <1>0 DEF TypeInv, shared, Exited
  <1>2. TypeInv'
    BY <1>0, <1>1, QuietFrame DEF TypeInv
  <1>3. Only(d)
    BY <1>0, <1>1, QuietFrame DEF Only, Around, TypeInv
  <1>4. Exited(d)'
    BY <1>1 DEF Exited
  <1> QED BY <1>0, <1>1, <1>2, <1>3, <1>4, QuietFrame DEF StepOf

\* What is known of a driver that is at its loop.
LEMMA AtLoop ==
    ASSUME IInv, NEW d \in Drivers, pc[d] \in {"next", "waiting", "write"}
    PROVE  /\ TypeInv /\ Doing(receipts, pc[d], job[d], child[d], d)
           /\ job[d] \in Job /\ job[d].manifest \in ManifestRecord /\ job[d].id \in Ids
           /\ job[d].records \in Seq(ReviewRecord) /\ Len(job[d].records) \in Nat
           /\ Len(job[d].manifest.chunks) \in Nat
           /\ job[d].began \in Nat /\ Len(receipts) \in Nat /\ receipts \in Seq(ReceiptRecord)
           /\ job[d].began <= Len(receipts)
           /\ ValidManifest(job[d].manifest) /\ job[d].manifest.chunks # << >>
  <1>1. TypeInv /\ Doing(receipts, pc[d], job[d], child[d], d)
    BY DEF IInv
  <1>2. job[d] \in Job
    BY <1>1 DEF Doing
  <1>3. job[d].manifest \in ManifestRecord /\ Len(job[d].manifest.chunks) \in Nat
    BY <1>2 DEF Job, ManifestRecord
  <1> QED BY <1>1, <1>2, <1>3 DEF Doing, Job, TypeInv

LEMMA LaunchStep ==
    ASSUME IInv, NEW d \in Drivers, Launch(d), setting' = setting
    PROVE  StepOf(d)
  <1> DEFINE index == Len(job[d].records)
             j == [job[d] EXCEPT !.before = receipts]
             c == [status |-> "running", code |-> 0, id |-> job[d].id,
                   manifest |-> job[d].manifest, index |-> index,
                   payload |-> job[d].manifest.chunks[index + 1].payload]
  <1>1. /\ pc[d] = "next" /\ index < Len(job[d].manifest.chunks)
        /\ pc' = [pc EXCEPT ![d] = "waiting"]
        /\ job' = [job EXCEPT ![d] = j] /\ child' = [child EXCEPT ![d] = c]
        /\ UNCHANGED <<setting, manifestVars, shared, edits, exit>>
    BY DEF Launch, Goto, ChunksOf
  <1>2. /\ TypeInv /\ Doing(receipts, "next", job[d], child[d], d)
        /\ job[d] \in Job /\ job[d].manifest \in ManifestRecord /\ job[d].id \in Ids
        /\ index \in Nat /\ Len(receipts) \in Nat /\ receipts \in Seq(ReceiptRecord)
    BY <1>1, AtLoop
  <1>3. c \in Child
    <2>1. job[d].manifest.chunks[index + 1].payload \in RunRecord
      BY <1>1, <1>2, PayloadTyped
    <2> QED BY <1>2, <2>1 DEF Child
  <1>4. /\ j \in Job /\ j.before = receipts /\ j.records = job[d].records
        /\ j.manifest = job[d].manifest /\ j.id = job[d].id /\ j.began = job[d].began
        /\ j.failed = job[d].failed
    BY <1>2 DEF Job
  <1>5. /\ c.status = "running" /\ c.code = 0 /\ c.id = job[d].id
        /\ c.manifest = job[d].manifest /\ c.index = index
        /\ c.payload = job[d].manifest.chunks[index + 1].payload
    OBVIOUS
  <1> HIDE DEF c, j
  <1>6. Left(receipts, receipts, d) = {}
    BY <1>2 DEF Left
  <1>7. Waiting(receipts, j, c, d)
    <2>1. j.began <= Len(j.before) /\ Grown(j.before, receipts)
      BY <1>2, <1>4, GrownReflexive DEF Doing
    <2> QED BY <1>1, <1>3, <1>4, <1>5, <1>6, <2>1 DEF Waiting
  <1>8. Noted(receipts, j, d)
    BY <1>2, <1>4 DEF Doing, Noted
  <1>9. Doing(receipts, "waiting", j, c, d)
    BY <1>2, <1>4, <1>7, <1>8 DEF Doing
  <1> QED BY <1>1, <1>3, <1>4, <1>9, QuietStep DEF PcStates, Decided

LEMMA ChildGoesOn ==
    ASSUME NEW log, NEW j, NEW old, NEW new, NEW d,
           Doing(log, "waiting", j, old, d), Waiting(log, j, new, d)
    PROVE  Doing(log, "waiting", j, new, d)
  BY DEF Doing

\* The child of a driver that waits ends, or is ended, with a code of its own.
LEMMA EndsStep ==
    ASSUME IInv, NEW d \in Drivers, ChildExits(d) \/ ChildFails(d) \/ Timeout(d),
           setting' = setting
    PROVE  StepOf(d)
  <1> DEFINE Ending(code) == [child[d] EXCEPT !.status = "exited", !.code = code]
  <1>1. PICK code \in Nat :
            /\ child' = [child EXCEPT ![d] = Ending(code)]
            /\ (code = child[d].code /\ child[d].status = "reported") \/ code # 0
    <2>1. CASE ChildExits(d)
      <3>1. child[d] \in Child /\ child[d].status = "reported"
        BY <2>1 DEF ChildExits, IInv, TypeInv, NoChild
      <3>2. child' = [child EXCEPT ![d] = [child[d] EXCEPT !.status = "exited"]]
        BY <2>1 DEF ChildExits
      <3>3. child[d].code \in Nat
        BY <3>1 DEF Child
      <3>4. [child[d] EXCEPT !.status = "exited"] = Ending(child[d].code)
        BY <3>1 DEF Child
      <3> HIDE DEF Ending
      <3> QED BY <3>1, <3>2, <3>3, <3>4
    <2>2. CASE ChildFails(d)
      <3>1. child' = [child EXCEPT ![d] = Ending(2)]
        BY <2>2 DEF ChildFails, IInv, TypeInv
      <3> HIDE DEF Ending
      <3> WITNESS 2 \in Nat
      <3> QED BY <3>1
    <2>3. CASE Timeout(d)
      <3>1. child' = [child EXCEPT ![d] = Ending(124)]
        BY <2>3 DEF Timeout, IInv, TypeInv
      <3> HIDE DEF Ending
      <3> WITNESS 124 \in Nat
      <3> QED BY <3>1
    <2> QED BY <2>1, <2>2, <2>3
  <1> DEFINE c == Ending(code)
             j == job[d]
  <1>2. /\ UNCHANGED <<setting, manifestVars, shared, edits, exit>> /\ pc' = pc /\ job' = job
        /\ child[d].status \in {"running", "reported"}
    BY DEF ChildExits, ChildFails, Timeout
  <1>3. /\ TypeInv /\ Doing(receipts, pc[d], j, child[d], d)
        /\ child[d] \in Child /\ pc[d] \in {"waiting", "killed"}
        /\ j \in {NoJob} \cup Job
    <2>1. TypeInv /\ Doing(receipts, pc[d], j, child[d], d)
      BY DEF IInv
    <2>2. child[d] \in Child /\ child[d] # NoChild
      BY <1>2, <2>1 DEF TypeInv, NoChild
    <2> QED BY <2>1, <2>2 DEF Doing, TypeInv, PcStates
  <1>4. /\ c \in Child /\ c.status = "exited" /\ c.code = code /\ c.id = child[d].id
        /\ c.manifest = child[d].manifest /\ c.index = child[d].index
        /\ c.payload = child[d].payload
    BY <1>3 DEF Child
  <1> HIDE DEF c
  <1>5. pc[d] = "waiting" => Doing(receipts, pc[d], j, c, d)
    <2>0. SUFFICES ASSUME pc[d] = "waiting" PROVE Doing(receipts, pc[d], j, c, d)
      OBVIOUS
    <2>1. Waiting(receipts, j, child[d], d)
      BY <1>3, <2>0 DEF Doing
    <2>2. Waiting(receipts, j, c, d)
      BY <1>1, <1>4, <2>1 DEF Waiting
    <2> QED BY <1>3, <2>0, <2>2, ChildGoesOn
  <1>6. Doing(receipts, pc[d], j, c, d)
    <2>1. Doing(receipts, "killed", j, c, d)
      BY DEF Doing
    <2> QED BY <1>3, <1>5, <2>1
  <1>7. /\ pc' = [pc EXCEPT ![d] = pc[d]] /\ job' = [job EXCEPT ![d] = j]
        /\ child' = [child EXCEPT ![d] = c]
    BY <1>1, <1>2, <1>3 DEF TypeInv, c
  <1> QED BY <1>2, <1>3, <1>4, <1>6, <1>7, QuietStep DEF PcStates, Decided

\* The child of d leaves its receipt, the first since it was launched.
LEMMA ChildReportsStep ==
    ASSUME IInv, NEW d \in Drivers, ChildReports(d), setting' = setting
    PROVE  StepOf(d)
  <1>1. PICK outcome \in setting.outcomes :
            /\ receipts' = Append(receipts, Receipt(<<d, child[d].index>>, child[d], outcome))
            /\ child' = [child EXCEPT ![d].status = "reported",
                                      ![d].code = IF outcome.result = "accepted" THEN 0 ELSE 1]
    BY DEF ChildReports
  <1> DEFINE r == Receipt(<<d, child[d].index>>, child[d], outcome)
             c == [child[d] EXCEPT !.status = "reported",
                                   !.code = IF outcome.result = "accepted" THEN 0 ELSE 1]
             j == job[d]
             new == Len(receipts) + 1
  <1>2. /\ UNCHANGED <<setting, manifestVars, aggregates, edits>> /\ exit' = exit
        /\ pc' = pc /\ job' = job /\ child[d].status = "running"
    BY DEF ChildReports
  <1>3. /\ TypeInv /\ Doing(receipts, pc[d], j, child[d], d) /\ Exited(d)
        /\ child[d] \in Child /\ pc[d] \in {"waiting", "killed"}
    <2>1. TypeInv /\ Doing(receipts, pc[d], j, child[d], d) /\ Exited(d)
      BY DEF IInv
    <2>2. child[d] \in Child /\ child[d] # NoChild
      BY <1>2, <2>1 DEF TypeInv, NoChild
    <2> QED BY <2>1, <2>2 DEF Doing, TypeInv, PcStates
  <1>4. /\ r \in ReceiptRecord /\ r.by = <<d, child[d].index>>
        /\ r.id = ChunkId(child[d].id, child[d].index) /\ r.manifest = child[d].manifest
        /\ r.index = child[d].index /\ r.payload = child[d].payload
        /\ r.result = outcome.result
    <2>1. /\ child[d].id \in Ids /\ child[d].index \in Nat
          /\ child[d].manifest \in ManifestRecord /\ child[d].payload \in RunRecord
      BY <1>3 DEF Child
    <2>2. <<d, child[d].index>> \in Authors
      BY <2>1 DEF Authors
    <2>3. outcome \in Outcome
      BY <1>3, SettingTyped DEF TypeInv
    <2> QED BY <2>1, <2>2, <2>3, ReceiptTyped
  <1>5. /\ c \in Child /\ c.status = "reported" /\ c.id = child[d].id
        /\ c.manifest = child[d].manifest /\ c.index = child[d].index
        /\ c.payload = child[d].payload /\ (c.code = 0 => outcome.result = "accepted")
    <2> DEFINE code == IF outcome.result = "accepted" THEN 0 ELSE 1
    <2>1. code \in Nat /\ (code = 0 => outcome.result = "accepted")
      OBVIOUS
    <2>2. c = [child[d] EXCEPT !.status = "reported", !.code = code]
      OBVIOUS
    <2> HIDE DEF code, c
    <2> QED BY <1>3, <2>1, <2>2 DEF Child
  <1>6. child' = [child EXCEPT ![d] = c]
    BY <1>1, <1>3 DEF TypeInv
  <1> HIDE DEF c, r
  <1>7. /\ receipts' \in Seq(ReceiptRecord) /\ Grown(receipts, receipts')
        /\ receipts \in Seq(ReceiptRecord)
        /\ Len(receipts) \in Nat /\ Len(receipts') = new /\ receipts'[new] = r
        /\ \A p \in 1..Len(receipts) : receipts'[p] = receipts[p]
    BY <1>1, <1>3, <1>4, Arrives DEF TypeInv, r
  <1>8. TypeInv'
    <2>1. Packing'
      BY <1>2, <1>3, RestInvariant DEF TypeInv, manifestVars
    <2> QED BY <1>2, <1>3, <1>5, <1>6, <1>7, <2>1 DEF TypeInv, manifestVars
  <1>9. Only(d)
    <2>1. ASSUME NEW e \in Drivers, e # d
          PROVE  Foreign(receipts, receipts', e)
      <3>1. \A p \in 1..Len(receipts') : p > Len(receipts) => p = new
        BY <1>7
      <3>2. r.by[1] = d
        BY <1>4
      <3> QED BY <1>7, <2>1, <3>1, <3>2 DEF Foreign
    <2> QED BY <1>2, <1>3, <1>6, <2>1 DEF Only, Around, TypeInv
  <1>10. ASSUME pc[d] = "waiting"
         PROVE  Doing(receipts', "waiting", j, c, d)
    <2>1. /\ Waiting(receipts, j, child[d], d) /\ Noted(receipts, j, d)
          /\ j \in Job /\ j.began \in Nat /\ j.began <= Len(receipts)
          /\ ValidManifest(j.manifest) /\ j.manifest.chunks # << >>
          /\ Len(j.records) <= Len(j.manifest.chunks)
      BY <1>3, <1>10 DEF Doing, Job
    <2>2. Noted(receipts', j, d)
      BY <1>7, <2>1, NotedStays
    <2>3. j.before \in Seq(ReceiptRecord) /\ Grown(j.before, receipts')
      BY <1>7, <2>1, GrownTransitive DEF Waiting, Job
    <2>4. Left(receipts', j.before, d) = {new}
      <3>1. Left(receipts, j.before, d) = {}
        BY <1>2, <2>1 DEF Waiting
      <3>2. Len(j.before) \in Nat /\ Len(j.before) <= Len(receipts)
        BY <2>1, <2>3 DEF Waiting, Grown
      <3>3. receipts'[new].by[1] = d
        BY <1>4, <1>7
      <3>4. \A p \in 1..Len(receipts') : p \in 1..Len(receipts) \/ p = new
        BY <1>7
      <3>5. new \in 1..Len(receipts') /\ new > Len(j.before)
        BY <1>7, <3>2
      <3> HIDE DEF new
      <3> QED BY <1>7, <3>1, <3>2, <3>3, <3>4, <3>5 DEF Left
    <2>5. /\ r.by = <<d, Len(j.records)>> /\ r.id = ChunkId(j.id, Len(j.records))
          /\ r.manifest = j.manifest /\ r.index = Len(j.records) /\ r.payload = c.payload
          /\ c.code = 0 => r.result = "accepted"
      BY <1>4, <1>5, <2>1 DEF Waiting
    <2>6. Waiting(receipts', j, c, d)
      BY <1>5, <1>7, <2>1, <2>3, <2>4, <2>5 DEF Waiting
    <2>7. j.began <= Len(receipts')
      BY <1>7, <2>1
    <2> QED BY <2>1, <2>2, <2>6, <2>7 DEF Doing
  <1>11. Doing(receipts', "killed", j, c, d)
    BY DEF Doing
  <1>12. pc'[d] = pc[d] /\ job'[d] = j /\ child'[d] = c /\ exit'[d] = "none"
    BY <1>2, <1>3, <1>6 DEF TypeInv, Exited
  <1>13. Doing(receipts', pc'[d], job'[d], child'[d], d) /\ Exited(d)'
    BY <1>3, <1>10, <1>11, <1>12 DEF Exited
  <1> QED BY <1>2, <1>3, <1>7, <1>8, <1>9, <1>12, <1>13 DEF StepOf

-----------------------------------------------------------------------------
(* The receipt of a chunk is that of its child.                            *)

\* A receipt that is selected although the child left one is the child's.
LEMMA SelectedIsOwn ==
    ASSUME receipts \in Seq(ReceiptRecord), NEW before, NEW id, NEW d,
           Left(receipts, before, d) # {}, Selected(before, id) # NoReceipt
    PROVE  Selected(before, id) \in Left(receipts, before, d)
  <1> DEFINE changed == {p \in 1..Len(receipts) : p > Len(before) \/ receipts[p] # before[p]}
  <1>1. PICK p \in changed : changed = {p} /\ receipts[p].id = id
    BY DEF Selected
  <1>2. Selected(before, id) = CHOOSE q \in changed : TRUE
    BY <1>1 DEF Selected
  <1>3. Selected(before, id) = p
    BY <1>1, <1>2
  <1>4. Left(receipts, before, d) \subseteq changed
    BY DEF Left
  <1> QED BY <1>1, <1>3, <1>4

\* The one receipt the child left is selected, unless others came or changed.
LEMMA OwnIsSelected ==
    ASSUME receipts \in Seq(ReceiptRecord), NEW before \in Seq(ReceiptRecord),
           Grown(before, receipts), NEW d, NEW began \in Nat, began <= Len(before),
           ~Disturbed(receipts, d, began),
           NEW p \in Left(receipts, before, d),
           \A q \in Left(receipts, before, d) : q = p
    PROVE  Selected(before, receipts[p].id) = p
  <1> DEFINE changed == {q \in 1..Len(receipts) : q > Len(before) \/ receipts[q] # before[q]}
  <1>1. Len(before) \in Nat /\ Len(receipts) \in Nat
    OBVIOUS
  <1>2. p \in 1..Len(receipts) /\ p \in changed
    BY DEF Left
  <1>3. ASSUME NEW q \in changed PROVE q = p
    <2>1. CASE q > Len(before)
      <3>1. receipts[q].by[1] = d
        BY <1>1, <2>1 DEF Disturbed
      <3> QED BY <2>1, <3>1 DEF Left
    <2>2. CASE ~(q > Len(before))
      <3>1. q \in 1..Len(before)
        BY <1>1, <2>2
      <3>2. receipts[q] = before[q]
        BY <3>1, HoldsUnaltered
      <3> QED BY <2>2, <3>2
    <2> QED BY <2>1, <2>2
  <1>4. changed = {p}
    BY <1>2, <1>3
  <1>5. Selected(before, receipts[p].id) = CHOOSE q \in changed : TRUE
    BY <1>2, <1>4 DEF Selected
  <1> HIDE DEF changed
  <1> QED BY <1>4, <1>5

\* The child has ended, and its chunk gets a record.
LEMMA CollectStep ==
    ASSUME IInv, NEW d \in Drivers, Collect(d), setting' = setting
    PROVE  StepOf(d)
  <1> DEFINE old    == job[d]
             c      == child[d]
             index  == Len(old.records)
             id     == ChunkId(old.id, index)
             path   == Selected(old.before, id)
             record == RecordOf(old.manifest, old.id, index, path)
             note   == IF c.code = 0 THEN record ELSE Unavailable(record)
             failed == (old.failed \/ c.code # 0)
             j      == [old EXCEPT !.records = Append(@, note), !.failed = failed,
                                   !.before = << >>]
  <1>1. /\ pc[d] = "waiting" /\ c.status = "exited"
        /\ pc' = [pc EXCEPT ![d] = "next"]
        /\ child' = [child EXCEPT ![d] = NoChild]
        /\ UNCHANGED <<setting, manifestVars, shared, edits, exit>>
    BY DEF Collect, Goto
  <1>2. /\ TypeInv /\ Doing(receipts, "waiting", old, c, d)
        /\ old \in Job /\ old.manifest \in ManifestRecord /\ old.id \in Ids
        /\ old.records \in Seq(ReviewRecord) /\ index \in Nat
        /\ Len(receipts) \in Nat /\ receipts \in Seq(ReceiptRecord)
        /\ Len(old.manifest.chunks) \in Nat
        /\ ValidManifest(old.manifest) /\ old.manifest.chunks # << >>
        /\ old.began \in Nat /\ old.began <= Len(receipts)
    BY <1>1, AtLoop
  <1>3. job' = [job EXCEPT ![d] = j]
    <2>1. job' = [job EXCEPT ![d].records = Append(@, note), ![d].failed = (@ \/ c.code # 0),
                             ![d].before = << >>]
      BY DEF Collect
    <2> HIDE DEF note
    <2> QED BY <1>2, <2>1 DEF TypeInv
  <1>4. /\ Waiting(receipts, old, c, d) /\ Noted(receipts, old, d) /\ index < Len(old.manifest.chunks)
    BY <1>2 DEF Doing, Waiting
  <1>5. path \in 0..Len(receipts)
    BY <1>2, SelectedTyped
  <1>6. /\ record \in ReviewRecord /\ Unavailable(record) \in ReviewRecord
        /\ record.index = index /\ Unavailable(record).index = index
        /\ Unavailable(record).result = "unavailable"
        /\ record.receipt = path
        /\ path = 0 => record.result = "missing"
        /\ path # 0 => /\ record.payload = old.manifest.chunks[index + 1].payload
                       /\ record.id = id
                       /\ record.digest = {receipts[path]}
                       /\ record.result = receipts[path].result
                       /\ record.findings = receipts[path].findings
    <2> HIDE DEF path
    <2>1. old.manifest \in ManifestRecord /\ old.id \in Ids /\ index \in Nat
          /\ index < Len(old.manifest.chunks) /\ receipts \in Seq(ReceiptRecord)
      BY <1>2, <1>4
    <2> HIDE DEF old, index
    <2> QED BY SMTT(60), <1>5, <2>1, RecordTyped
  <1>7. /\ note \in ReviewRecord /\ note.index = index
        /\ note.result = "accepted" =>
               c.code = 0 /\ note = record /\ path # 0 /\ receipts[path].result = "accepted"
    <2> HIDE DEF record, path, c
    <2> QED BY <1>6
  <1>8. /\ j \in Job /\ j.records = Append(old.records, note) /\ j.failed = failed
        /\ j.manifest = old.manifest /\ j.id = old.id /\ j.began = old.began
    <2>1. failed \in BOOLEAN
      BY <1>2 DEF Job
    <2>2. Append(old.records, note) \in Seq(ReviewRecord) /\ << >> \in Seq(ReceiptRecord)
      BY <1>2, <1>7
    <2> HIDE DEF failed, note
    <2> DEFINE longer == Append(old.records, note)
    <2>3. j = [old EXCEPT !.records = longer, !.failed = failed, !.before = << >>]
      OBVIOUS
    <2>4. longer \in Seq(ReviewRecord)
      BY <2>2
    <2> HIDE DEF longer, j
    <2>5. /\ j \in Job /\ j.records = longer /\ j.failed = failed
          /\ j.manifest = old.manifest /\ j.id = old.id /\ j.began = old.began
      BY <1>2, <2>1, <2>2, <2>3, <2>4 DEF Job
    <2> QED BY <2>5 DEF longer
  <1>9. /\ Len(j.records) = index + 1 /\ j.records[index + 1] = note
        /\ \A k \in 1..index : j.records[k] = old.records[k]
    <2> HIDE DEF note, j
    <2> QED BY <1>2, <1>7, <1>8
  <1>10. note.result = "accepted" =>
             note.receipt \in 1..Len(receipts) /\ receipts[note.receipt].by = <<d, index>>
    <2> SUFFICES ASSUME note.result = "accepted"
                 PROVE  note.receipt \in 1..Len(receipts)
                        /\ receipts[note.receipt].by = <<d, index>>
      OBVIOUS
    <2>1. c.code = 0 /\ note = record /\ path # NoReceipt /\ note.receipt = path
      BY <1>6, <1>7 DEF NoReceipt
    <2>2. Left(receipts, old.before, d) # {}
      BY <1>1, <1>4, <2>1 DEF Waiting
    <2>3. path \in Left(receipts, old.before, d)
      BY <1>2, <2>1, <2>2, SelectedIsOwn
    <2> HIDE DEF path, note, record
    <2> QED BY <1>4, <2>1, <2>3 DEF Waiting, Left
  <1>11. ASSUME ~failed, ~Disturbed(receipts, d, old.began)
         PROVE  /\ note.receipt \in 1..Len(receipts)
                /\ Holds(old.manifest, old.id, note, index, receipts[note.receipt])
    <2>1. c.code = 0 /\ note = record
      BY <1>11
    <2>2. PICK p \in Left(receipts, old.before, d) : TRUE
      BY <1>1, <1>4, <2>1 DEF Waiting
    <2>3. /\ \A q \in Left(receipts, old.before, d) : q = p
          /\ receipts[p].id = id /\ receipts[p].manifest = old.manifest
          /\ receipts[p].index = index /\ receipts[p].payload = c.payload
          /\ receipts[p].result = "accepted"
          /\ c.payload = old.manifest.chunks[index + 1].payload
          /\ old.began <= Len(old.before) /\ Grown(old.before, receipts)
          /\ p \in 1..Len(receipts)
      BY <1>4, <2>1, <2>2 DEF Waiting, Left
    <2>4. old.before \in Seq(ReceiptRecord)
      BY <1>2 DEF Job
    <2>5. Selected(old.before, receipts[p].id) = p
      BY <1>2, <1>11, <2>2, <2>3, <2>4, OwnIsSelected
    <2>6. path = p
      BY <2>3, <2>5
    <2>7. /\ record.receipt = p /\ record.payload = old.manifest.chunks[index + 1].payload
          /\ record.id = id /\ record.digest = {receipts[p]} /\ record.index = index
          /\ record.result = receipts[p].result /\ record.findings = receipts[p].findings
      BY <1>6, <2>3, <2>6
    <2> HIDE DEF path, note, record, index
    <2> QED BY <2>1, <2>3, <2>7 DEF Holds
  <1> HIDE DEF j, note, failed, record, path
  <1>12. Noted(receipts, j, d)
    <2> SUFFICES ASSUME NEW k \in 1..Len(j.records)
                 PROVE  LET noted == j.records[k]
                        IN  /\ noted.index = k - 1
                            /\ noted.result = "accepted" =>
                                   /\ noted.receipt \in 1..Len(receipts)
                                   /\ receipts[noted.receipt].by = <<d, k - 1>>
                            /\ ~j.failed /\ ~Disturbed(receipts, d, j.began) =>
                                   /\ noted.receipt \in 1..Len(receipts)
                                   /\ Holds(j.manifest, j.id, noted, k - 1,
                                            receipts[noted.receipt])
      BY DEF Noted
    <2>1. CASE k \in 1..index
      <3>1. j.records[k] = old.records[k] /\ (~j.failed => ~old.failed)
        BY <1>8, <1>9, <2>1 DEF failed
      <3> QED BY <1>4, <1>8, <1>9, <2>1, <3>1 DEF Noted, failed
    <2>2. CASE k = index + 1
      <3>1. k - 1 = index /\ j.records[k] = note
        BY <1>2, <1>9, <2>2
      <3> QED BY <1>7, <1>8, <1>10, <1>11, <3>1
    <2> QED BY SMTT(60), <1>2, <1>9, <2>1, <2>2
  <1>13. Len(j.records) <= Len(j.manifest.chunks)
    BY <1>2, <1>4, <1>8, <1>9
  <1>14. Doing(receipts, "next", j, NoChild, d)
    BY <1>2, <1>8, <1>12, <1>13 DEF Doing
  <1> QED BY <1>1, <1>3, <1>8, <1>14, QuietStep DEF PcStates, Decided

-----------------------------------------------------------------------------
(* The aggregate of a driver that has a record of every chunk.             *)

LEMMA AggregateSums ==
    ASSUME NEW m, NEW id, NEW records
    PROVE  Sums(Aggregate(m, id, records, "accepted"))
  BY DEF Sums, Aggregate

\* Records that verify are of d's own children.
LEMMA VerifiedIsReviewed ==
    ASSUME receipts \in Seq(ReceiptRecord), NEW j \in Job, NEW d, Noted(receipts, j, d),
           NEW a, a.records = j.records, Verified(a.manifest, a)
    PROVE  Reviewed(receipts, a, d)
  <1>1. ASSUME NEW k \in 1..Len(a.records)
        PROVE  LET record == a.records[k]
               IN  /\ record.receipt \in 1..Len(receipts)
                   /\ receipts[record.receipt].by = <<d, k - 1>>
                   /\ \E r \in record.digest :
                          /\ Same(r, receipts[record.receipt])
                          /\ Holds(a.manifest, a.id, record, k - 1, r)
    <2> DEFINE record == a.records[k]
               r == receipts[record.receipt]
    <2>1. RecordHolds(a.manifest, a.id, record, k - 1)
      BY DEF Verified
    <2>2. /\ record.receipt \in 1..Len(receipts) /\ record.result = "accepted"
          /\ record.digest = {r} /\ Holds(a.manifest, a.id, record, k - 1, r)
      BY <2>1 DEF RecordHolds, Holds
    <2>3. r.by = <<d, k - 1>>
      BY <2>2 DEF Noted
    <2>4. Same(r, r)
      BY DEF Same
    <2> HIDE DEF r
    <2> QED BY <2>2, <2>3, <2>4 DEF r
  <1> QED BY <1>1 DEF Reviewed, Verified

\* Unless there is a cause, every record is accepted and all of them verify.
LEMMA CauselessVerifies ==
    ASSUME receipts \in Seq(ReceiptRecord), NEW j \in Job, NEW d, Noted(receipts, j, d),
           ValidManifest(j.manifest), j.manifest.chunks # << >>,
           Len(j.records) = Len(j.manifest.chunks),
           ~j.failed, ~Disturbed(receipts, d, j.began)
    PROVE  /\ \A k \in 1..Len(j.records) : j.records[k].result = "accepted"
           /\ Verified(j.manifest, Aggregate(j.manifest, j.id, j.records, "accepted"))
  <1> DEFINE a == Aggregate(j.manifest, j.id, j.records, "accepted")
  <1>1. a.records = j.records /\ a.manifest = j.manifest /\ a.id = j.id
    BY DEF Aggregate
  <1>2. ASSUME NEW k \in 1..Len(j.records)
        PROVE  /\ j.records[k].result = "accepted"
               /\ RecordHolds(j.manifest, j.id, j.records[k], k - 1)
    <2> DEFINE record == j.records[k]
    <2>1. /\ record.receipt \in 1..Len(receipts)
          /\ Holds(j.manifest, j.id, record, k - 1, receipts[record.receipt])
      BY DEF Noted
    <2> HIDE DEF record
    <2>2. record.result = "accepted" /\ RecordHolds(j.manifest, j.id, record, k - 1)
      BY <2>1 DEF Holds, RecordHolds
    <2> QED BY <2>2 DEF record
  <1>3. Sums(a)
    BY AggregateSums
  <1> HIDE DEF a
  <1>4. Verified(j.manifest, a)
    BY <1>1, <1>2, <1>3 DEF Verified
  <1> QED BY <1>2, <1>4 DEF a

LEMMA ConcludeStep ==
    ASSUME IInv, NEW d \in Drivers, Conclude(d), setting' = setting
    PROVE  StepOf(d)
  <1> DEFINE old == job[d]
             a == Build(old.manifest, old.id, old.records)
             j == [old EXCEPT !.draft = {a}, !.records = << >>]
  <1>1. /\ pc[d] = "next" /\ Len(old.records) = Len(old.manifest.chunks)
        /\ pc' = [pc EXCEPT ![d] = "write"]
        /\ UNCHANGED <<setting, manifestVars, shared, edits, exit>> /\ child' = child
    BY DEF Conclude, Goto, ChunksOf
  <1>2. /\ TypeInv /\ Doing(receipts, "next", old, child[d], d)
        /\ old \in Job /\ old.manifest \in ManifestRecord /\ old.id \in Ids
        /\ old.records \in Seq(ReviewRecord)
        /\ Len(receipts) \in Nat /\ receipts \in Seq(ReceiptRecord)
        /\ ValidManifest(old.manifest) /\ old.manifest.chunks # << >>
        /\ old.began <= Len(receipts)
    BY <1>1, AtLoop
  <1>3. job' = [job EXCEPT ![d] = j]
    BY <1>2 DEF Conclude, TypeInv
  <1>4. a \in AggregateRecord
    BY <1>2, BuildTyped
  <1>5. /\ j \in Job /\ j.draft = {a} /\ j.manifest = old.manifest
        /\ j.began = old.began /\ j.failed = old.failed
    <2>1. {a} \in SUBSET AggregateRecord /\ << >> \in Seq(ReviewRecord)
      BY <1>4
    <2> HIDE DEF a
    <2> QED BY <1>2, <2>1 DEF Job
  <1>6. Noted(receipts, old, d) /\ child[d] = NoChild
    BY <1>2 DEF Doing
  <1>7. a.result = "accepted" => Reviewed(receipts, a, d)
    <2> SUFFICES ASSUME a.result = "accepted" PROVE Reviewed(receipts, a, d)
      OBVIOUS
    <2> DEFINE complete == Aggregate(old.manifest, old.id, old.records, "accepted")
    <2>1. a = complete /\ Verified(old.manifest, complete)
      BY <1>2, AggregateTyped DEF Build
    <2>2. complete.records = old.records /\ complete.manifest = old.manifest
      BY DEF Aggregate
    <2> HIDE DEF a, complete
    <2> QED BY <1>2, <1>6, <2>1, <2>2, VerifiedIsReviewed
  <1>8. a.result = "incomplete" => old.failed \/ Disturbed(receipts, d, old.began)
    <2> SUFFICES ASSUME ~old.failed, ~Disturbed(receipts, d, old.began)
                 PROVE  a.result = "accepted"
      OBVIOUS
    <2>1. /\ \A k \in 1..Len(old.records) : old.records[k].result = "accepted"
          /\ Verified(old.manifest, Aggregate(old.manifest, old.id, old.records, "accepted"))
      BY <1>1, <1>2, <1>6, CauselessVerifies
    <2> QED BY <1>2, <2>1, AggregateTyped DEF Build
  <1>12. a.approved => a.result = "accepted"
    BY DEF Build, Aggregate
  <1> HIDE DEF a, j
  <1>9. \A b \in j.draft : Justified(receipts, j, b, d)
    BY <1>5, <1>7, <1>8, <1>12 DEF Justified
  <1>10. Doing(receipts, "write", j, NoChild, d)
    <2>1. \A b, e \in j.draft : b = e
      BY <1>5
    <2> QED BY <1>2, <1>5, <1>9, <2>1 DEF Doing
  <1>11. child' = [child EXCEPT ![d] = NoChild]
    BY <1>1, <1>2, <1>6 DEF TypeInv
  <1> QED BY <1>1, <1>3, <1>5, <1>10, <1>11, QuietStep DEF PcStates, Decided

-----------------------------------------------------------------------------
(* The end of a driver.                                                    *)

\* Manifest and receipts are as they were, and at most one aggregate is not.
LEMMA ReceiptFrame ==
    ASSUME TypeInv, UNCHANGED <<setting, manifestVars, receipts, edits>>
    PROVE  /\ Packing' /\ file' \in ManifestRecord /\ setting' \in Settings
           /\ receipts' \in Seq(ReceiptRecord) /\ receipts' = receipts
           /\ aggregates \in [Outputs -> Files]
           /\ edits' \in 0..setting'.edits
           /\ Grown(receipts, receipts')
           /\ \A d \in Drivers : Foreign(receipts, receipts', d)
  <1>1. Packing'
    BY RestInvariant DEF TypeInv, manifestVars
  <1>2. receipts' = receipts /\ file' = file
    BY DEF manifestVars
  <1>3. Grown(receipts, receipts')
    BY <1>2, GrownReflexive DEF TypeInv
  <1>4. \A d \in Drivers : Foreign(receipts, receipts', d)
    <2>1. Len(receipts) \in Nat
      BY DEF TypeInv
    <2> QED BY <1>2, <1>3, <2>1 DEF Foreign
  <1> QED BY <1>1, <1>2, <1>3, <1>4 DEF TypeInv

\* d ends, or is about to, with an exit code, and leaves the file f where its aggregate
\* belongs; a whole file only if none was there and it is the draft d has.
LEMMA EndStep ==
    ASSUME IInv, NEW d \in Drivers, UNCHANGED <<setting, manifestVars, receipts, edits>>,
           NEW at \in Decided, NEW j \in {NoJob} \cup Job,
           pc[d] \in Decided => j = job[d],
           pc' = [pc EXCEPT ![d] = at], job' = [job EXCEPT ![d] = j], child' = child,
           NEW code \in {"none", "accepted", "incomplete", "error"},
           exit' = [exit EXCEPT ![d] = code],
           at # "killed" => child[d] = NoChild, at # "done" => code = "none",
           NEW out \in Outputs, NEW f \in Files,
           aggregates' = [aggregates EXCEPT ![out] = f],
           f = aggregates[out] \/ ~Whole(aggregates[out]),
           code \in {"accepted", "incomplete"} =>
               j \in Job /\ j.out = out /\ Own(d, f) /\ f.aggregate.result = code,
           at = "print" =>
               j \in Job /\ j.out = out /\ Own(d, f) /\ \A a \in j.draft : a = f.aggregate,
           Whole(f) /\ f # aggregates[out] =>
               at = "print" /\ Justified(receipts, j, f.aggregate, d)
    PROVE  StepOf(d)
  <1>0. TypeInv /\ Exited(d) /\ Doing(receipts, pc[d], job[d], child[d], d)
    BY DEF IInv
  <1>1. /\ pc'[d] = at /\ job'[d] = j /\ child'[d] = child[d] /\ receipts' = receipts
        /\ exit'[d] = code /\ aggregates'[out] = f
        /\ \A o \in Outputs : o # out => aggregates'[o] = aggregates[o]
        /\ aggregates \in [Outputs -> Files]
    BY <1>0, ReceiptFrame DEF TypeInv
  <1>2. TypeInv'
    <2>1. aggregates' \in [Outputs -> Files]
      BY <1>1
    <2>2. pc' \in [Drivers -> PcStates] /\ job' \in [Drivers -> {NoJob} \cup Job]
      BY <1>0 DEF TypeInv, PcStates, Decided
    <2> QED BY <1>0, <2>1, <2>2, ReceiptFrame DEF TypeInv
  <1>3. Only(d)
    BY <1>0, ReceiptFrame DEF Only, Around, TypeInv
  <1>4. Doing(receipts', pc'[d], job'[d], child'[d], d)
    BY <1>1 DEF Doing, Decided
  <1>5. Exited(d)'
    BY <1>1 DEF Exited
  <1>6. ASSUME NEW o \in Outputs
        PROVE  \/ aggregates'[o] = aggregates[o]
               \/ ~Whole(aggregates[o]) /\ (Whole(aggregates'[o]) => Reported(o)')
    <2>1. CASE o # out \/ f = aggregates[out]
      BY <1>1, <2>1
    <2>2. CASE o = out /\ f # aggregates[out]
      <3>1. ASSUME Whole(f)
            PROVE  Reported(o)'
        <4>1. /\ f.by = d /\ at = "print" /\ j \in Job /\ j.out = out
              /\ Justified(receipts, j, f.aggregate, d)
          BY <2>2, <3>1 DEF Own
        <4>2. /\ pc'[d] = "print" /\ job'[d] = j /\ receipts' = receipts
              /\ aggregates'[o] = f
          BY <1>1, <2>2, <4>1
        <4> QED BY <2>2, <4>1, <4>2
                DEF Reported, Decided, Justified, Reviewed, Disturbed, Sums
      <3> QED BY <1>1, <2>2, <3>1
    <2> QED BY <2>1, <2>2
  <1>7. pc[d] \in Decided => pc'[d] \in Decided /\ job'[d] = job[d]
    BY <1>1
  <1> QED BY <1>0, <1>2, <1>3, <1>4, <1>5, <1>6, <1>7, ReceiptFrame DEF StepOf

LEMMA GiveUpStep ==
    ASSUME IInv, NEW d \in Drivers, GiveUp(d), setting' = setting
    PROVE  StepOf(d)
  <1> DEFINE out == job[d].out
  <1>0. aggregates' = aggregates
    BY DEF GiveUp, shared
  <1>1. /\ pc[d] = "next" /\ child' = child
        /\ UNCHANGED <<setting, manifestVars, receipts, edits>>
        /\ pc' = [pc EXCEPT ![d] = "done"] /\ job' = [job EXCEPT ![d] = NoJob]
        /\ exit' = [exit EXCEPT ![d] = "error"]
    BY DEF GiveUp, Exits, Goto, shared
  <1>2. /\ job[d] \in Job /\ aggregates \in [Outputs -> Files] /\ child[d] = NoChild
    BY <1>1, AtLoop, ReceiptFrame DEF Doing
  <1>3. out \in Outputs
    BY <1>2 DEF Job
  <1> HIDE DEF out
  <1>4. aggregates[out] \in Files /\ aggregates' = [aggregates EXCEPT ![out] = aggregates[out]]
    BY <1>0, <1>2, <1>3
  <1> QED BY <1>1, <1>2, <1>3, <1>4, EndStep DEF Decided

LEMMA WriteAggregateStep ==
    ASSUME IInv, NEW d \in Drivers, WriteAggregate(d), setting' = setting
    PROVE  StepOf(d)
  <1> DEFINE out == job[d].out
  <1>1. /\ pc[d] = "write" /\ child' = child
        /\ UNCHANGED <<setting, manifestVars, receipts, edits>>
    BY DEF WriteAggregate
  <1>2. /\ TypeInv /\ Doing(receipts, "write", job[d], child[d], d) /\ Exited(d)
        /\ job[d] \in Job /\ aggregates \in [Outputs -> Files]
    BY <1>1, AtLoop, ReceiptFrame DEF IInv
  <1>3. out \in Outputs /\ child[d] = NoChild /\ exit[d] = "none"
    BY <1>1, <1>2 DEF Job, Doing, Exited
  <1>4. CASE /\ aggregates[out] = Absent
             /\ \E draft \in job[d].draft :
                    aggregates' = [aggregates EXCEPT ![out] = Written(d, draft)]
             /\ Goto(d, "write", "print") /\ UNCHANGED <<exit, job>>
    <2>1. PICK draft \in job[d].draft :
              aggregates' = [aggregates EXCEPT ![out] = Written(d, draft)]
      BY <1>4
    <2>2. /\ draft \in AggregateRecord /\ Justified(receipts, job[d], draft, d)
          /\ \A a \in job[d].draft : a = draft
      BY <1>2 DEF Doing, Job
    <2> DEFINE f == Written(d, draft)
    <2>3. f \in Files /\ Own(d, f) /\ f.aggregate = draft
      BY <2>2 DEF Files, WholeFiles, Written, Whole, Own
    <2>4. ~Whole(aggregates[out])
      BY <1>4 DEF Whole, Absent
    <2> HIDE DEF f
    <2>5. /\ pc' = [pc EXCEPT ![d] = "print"] /\ job' = [job EXCEPT ![d] = job[d]]
          /\ exit' = [exit EXCEPT ![d] = "none"]
      BY <1>2, <1>3, <1>4 DEF Goto, TypeInv
    <2>6. aggregates' = [aggregates EXCEPT ![out] = f] /\ job[d].out = out
      BY <2>1 DEF f
    <2> HIDE DEF out
    <2> QED BY <1>1, <1>2, <1>3, <2>2, <2>3, <2>4, <2>5, <2>6, EndStep DEF Decided
  <1>5. CASE /\ IF aggregates[out] = Absent
                THEN aggregates' = [aggregates EXCEPT ![out] = Half]
                ELSE UNCHANGED aggregates
             /\ Exits(d, "write", "error")
             /\ job' = [job EXCEPT ![d] = NoJob]
    <2> HIDE DEF out
    <2>1. PICK f \in Files :
              /\ aggregates' = [aggregates EXCEPT ![out] = f]
              /\ f = aggregates[out] \/ ~Whole(aggregates[out])
              /\ Whole(f) => f = aggregates[out]
      <3>1. CASE aggregates[out] = Absent
        <4>1. /\ Half \in Files /\ ~Whole(Half) /\ ~Whole(aggregates[out])
              /\ aggregates' = [aggregates EXCEPT ![out] = Half]
          BY <1>5, <3>1 DEF Files, Whole, Half, Absent
        <4> QED BY <4>1
      <3>2. CASE aggregates[out] # Absent
        <4>1. /\ aggregates[out] \in Files
              /\ aggregates' = [aggregates EXCEPT ![out] = aggregates[out]]
          BY <1>2, <1>3, <1>5, <3>2
        <4> QED BY <4>1
      <3> QED BY <3>1, <3>2
    <2>2. pc' = [pc EXCEPT ![d] = "done"] /\ exit' = [exit EXCEPT ![d] = "error"]
      BY <1>5 DEF Exits, Goto
    <2> QED BY <1>1, <1>3, <1>5, <2>1, <2>2, EndStep DEF Decided
  <1> QED BY <1>4, <1>5 DEF WriteAggregate

LEMMA PrintStep ==
    ASSUME IInv, NEW d \in Drivers, PrintSummary(d), setting' = setting
    PROVE  StepOf(d)
  <1> DEFINE out == job[d].out
             f   == aggregates[out]
  <1>0. job' = job /\ aggregates' = aggregates
    BY DEF PrintSummary, shared
  <1>1. /\ pc[d] = "print" /\ child' = child
        /\ UNCHANGED <<setting, manifestVars, receipts, edits>>
        /\ pc' = [pc EXCEPT ![d] = "done"]
    BY DEF PrintSummary, Exits, Goto, shared
  <1>2. /\ TypeInv /\ Exited(d) /\ child[d] = NoChild /\ aggregates \in [Outputs -> Files]
    BY <1>1, ReceiptFrame DEF IInv, Doing
  <1>3. /\ job[d] \in Job /\ Own(d, f) /\ \A a \in job[d].draft : a = f.aggregate
    BY <1>1, <1>2 DEF Exited
  <1>4. PICK draft \in job[d].draft : \E code \in {draft.result, "error"} :
            exit' = [exit EXCEPT ![d] = code]
    BY DEF PrintSummary, Exits
  <1>5. PICK code \in {draft.result, "error"} : exit' = [exit EXCEPT ![d] = code]
    BY <1>4
  <1>6. out \in Outputs /\ draft \in AggregateRecord /\ f.aggregate = draft
    BY <1>3 DEF Job
  <1>7. /\ draft.result \in {"accepted", "incomplete"}
        /\ code \in {"none", "accepted", "incomplete", "error"}
        /\ code \in {"accepted", "incomplete"} => code = f.aggregate.result
    BY <1>5, <1>6 DEF AggregateRecord
  <1>8. /\ f \in Files /\ aggregates' = [aggregates EXCEPT ![out] = f]
        /\ job' = [job EXCEPT ![d] = job[d]]
    BY <1>0, <1>2, <1>6 DEF TypeInv
  <1>9. /\ f = aggregates[out] \/ ~Whole(aggregates[out])
        /\ code \in {"accepted", "incomplete"} =>
               /\ job[d] \in Job /\ job[d].out = out
               /\ Own(d, f) /\ f.aggregate.result = code
        /\ Whole(f) => f = aggregates[out]
    BY <1>3, <1>7
  <1> HIDE DEF out, f
  <1> QED BY ONLY IInv, d \in Drivers, <1>1, <1>2, <1>3, <1>5, <1>6, <1>7, <1>8, <1>9,
                  setting' = setting, EndStep DEF Decided

LEMMA KillStep ==
    ASSUME IInv, NEW d \in Drivers, Kill(d), setting' = setting
    PROVE  StepOf(d)
  <1> DEFINE out == job[d].out
             j   == IF pc[d] = "print" THEN job[d] ELSE NoJob
  <1>1. /\ pc[d] \in {"next", "waiting", "write", "print"} /\ child' = child /\ exit' = exit
        /\ UNCHANGED <<setting, manifestVars, receipts, edits>>
        /\ pc' = [pc EXCEPT ![d] = "killed"]
        /\ \/ aggregates' = aggregates
           \/ aggregates[out] = Absent /\ aggregates' = [aggregates EXCEPT ![out] = Half]
    BY DEF Kill, Goto
  <1>2. /\ TypeInv /\ job[d] \in Job /\ aggregates \in [Outputs -> Files] /\ Exited(d)
    BY <1>1, AtLoop, ReceiptFrame DEF IInv, Exited
  <1>3. out \in Outputs
    BY <1>2 DEF Job
  <1>4. exit[d] = "none" /\ exit' = [exit EXCEPT ![d] = "none"]
    BY <1>1, <1>2 DEF Exited, TypeInv
  <1>5. /\ j \in {NoJob} \cup Job /\ job' = [job EXCEPT ![d] = j]
        /\ pc[d] \in Decided => j = job[d]
    BY <1>1, <1>2 DEF Kill, TypeInv, Decided
  <1> HIDE DEF out, j
  <1>6. CASE aggregates' = aggregates
    <2>1. aggregates[out] \in Files /\ aggregates' = [aggregates EXCEPT ![out] = aggregates[out]]
      BY <1>2, <1>3, <1>6
    <2> QED BY <1>1, <1>3, <1>4, <1>5, <2>1, EndStep DEF Decided
  <1>7. CASE aggregates[out] = Absent /\ aggregates' = [aggregates EXCEPT ![out] = Half]
    <2>1. Half \in Files /\ ~Whole(Half) /\ ~Whole(aggregates[out])
      BY <1>7 DEF Files, Whole, Half, Absent
    <2> QED BY <1>1, <1>3, <1>4, <1>5, <1>7, <2>1, EndStep DEF Decided
  <1> QED BY <1>1, <1>6, <1>7

-----------------------------------------------------------------------------
(* The steps of everybody else.                                            *)

\* The drivers are left alone, and receipts only come from others or are altered.
Elsewhere ==
    /\ TypeInv' /\ Grown(receipts, receipts') /\ UNCHANGED <<own, aggregates>>
    /\ \A d \in Drivers : Foreign(receipts, receipts', d)

LEMMA FreezeStep ==
    ASSUME TypeInv, Freeze, UNCHANGED <<setting, shared, own, edits>>
    PROVE  Elsewhere
  <1>1. Packing'
    BY AddInvariant, FlushAndAddInvariant, FlushLastInvariant, RestInvariant
       DEF Freeze, TypeInv
  <1>2. file' \in ManifestRecord
    <2>1. CASE file' = Manifest(chunks, TheDiff)
      <3>1. file' = Manifest(chunks, Run(1, Len(range.starts) - 1))
        BY <2>1 DEF TheDiff
      <3>2. /\ chunks \in Seq(ChunkRecord) /\ Len(range.starts) - 1 \in Nat /\ 1 \in Nat
        <4>1. Types /\ Loop
          BY DEF TypeInv, Packing
        <4>2. chunks \in Seq(ChunkRecord) /\ range.starts \in Seq(Nat)
          BY <4>1, RangeAssumption DEF Types, Range
        <4>3. Len(range.starts) \in Nat /\ 1 <= Len(range.starts)
          BY <4>1, <4>2 DEF Types, Loop
        <4> QED BY <4>2, <4>3
      <3> QED BY <3>1, <3>2, ManifestTyped
    <2>2. CASE file' = file
      BY <2>2 DEF TypeInv
    <2> QED BY <2>1, <2>2 DEF Freeze, Add, FlushAndAdd, FlushLast, Refuse, WriteManifest
  <1>3. receipts' = receipts /\ Grown(receipts, receipts') /\ Len(receipts) \in Nat
    BY GrownReflexive DEF TypeInv, shared
  <1>4. TypeInv'
    BY <1>1, <1>2 DEF TypeInv, shared, own
  <1> QED BY <1>3, <1>4 DEF Elsewhere, Foreign, shared

LEMMA OtherReviewStep ==
    ASSUME TypeInv, OtherReview, setting' = setting
    PROVE  Elsewhere
  <1> DEFINE task == [id |-> "stranger", index |-> 0, manifest |-> NoManifest,
                      payload |-> Run(0, 0)]
  <1>1. PICK outcome \in setting.outcomes :
            receipts' = Append(receipts, Receipt(<<"other", 0>>, task, outcome))
    BY DEF OtherReview
  <1>2. UNCHANGED <<setting, manifestVars, aggregates, own, edits>>
    BY DEF OtherReview
  <1> DEFINE r == Receipt(<<"other", 0>>, task, outcome)
             new == Len(receipts) + 1
  <1>3. r \in ReceiptRecord /\ r.by = <<"other", 0>>
    <2>1. /\ task.id \in Ids /\ task.index \in Nat /\ task.payload \in RunRecord
          /\ task.manifest \in ManifestRecord
      <3>1. << >> \in Seq(ChunkRecord) /\ 0 \in Nat
        OBVIOUS
      <3>2. NoManifest \in ManifestRecord
        BY <3>1 DEF NoManifest, Manifest, Run, ManifestRecord, RunRecord
      <3> QED BY <3>2 DEF Ids, Run, RunRecord
    <2>2. outcome \in Outcome /\ <<"other", 0>> \in Authors
      BY SettingTyped DEF TypeInv, Authors
    <2> HIDE DEF task
    <2> QED BY <2>1, <2>2, ReceiptTyped
  <1> HIDE DEF r
  <1>4. /\ receipts' \in Seq(ReceiptRecord) /\ Grown(receipts, receipts')
        /\ Len(receipts) \in Nat /\ Len(receipts') = new /\ receipts'[new] = r
    BY <1>1, <1>3, Arrives DEF TypeInv, r
  <1>5. ASSUME NEW d \in Drivers
        PROVE  Foreign(receipts, receipts', d)
    <2>1. \A p \in 1..Len(receipts') : p > Len(receipts) => p = new
      BY <1>4
    <2>2. r.by[1] # d
      BY <1>3, RangeReviewAssumption
    <2> QED BY <1>4, <2>1, <2>2 DEF Foreign
  <1>6. Packing'
    BY <1>2, RestInvariant DEF TypeInv, manifestVars
  <1>7. TypeInv'
    BY <1>2, <1>4, <1>6 DEF TypeInv, manifestVars, own
  <1> QED BY <1>2, <1>4, <1>5, <1>7 DEF Elsewhere

LEMMA EditStep ==
    ASSUME TypeInv, Edit, setting' = setting
    PROVE  Elsewhere
  <1>1. UNCHANGED <<setting, builder, aggregates, own>> /\ edits' = edits + 1
        /\ edits < setting.edits
    BY DEF Edit
  <1>2. Packing'
    BY <1>1, RestInvariant DEF TypeInv
  <1>3. /\ file' \in ManifestRecord
        /\ receipts' \in Seq(ReceiptRecord) /\ Grown(receipts, receipts')
        /\ Len(receipts') = Len(receipts)
    <2>1. CASE file' \in Tampered(file) /\ receipts' = receipts
      BY <2>1, TamperedTyped, GrownReflexive DEF TypeInv
    <2>2. CASE file' = file /\ \E p \in 1..Len(receipts) :
                  receipts' = [receipts EXCEPT ![p].altered = TRUE]
      <3>1. receipts \in Seq(ReceiptRecord) /\ file \in ManifestRecord
        BY DEF TypeInv
      <3>2. PICK p \in 1..Len(receipts) : receipts' = [receipts EXCEPT ![p].altered = TRUE]
        BY <2>2
      <3> DEFINE new == [receipts EXCEPT ![p].altered = TRUE]
      <3>3. new \in Seq(ReceiptRecord) /\ Grown(receipts, new) /\ Len(new) = Len(receipts)
        BY <3>1, Alters
      <3>4. receipts' = new
        BY <3>2
      <3> HIDE DEF new
      <3> QED BY <2>2, <3>1, <3>3, <3>4
    <2> QED BY <2>1, <2>2 DEF Edit
  <1>4. edits' \in 0..setting'.edits
    BY <1>1, SettingTyped DEF TypeInv
  <1>5. TypeInv'
    BY <1>1, <1>2, <1>3, <1>4 DEF TypeInv, own
  <1>6. \A d \in Drivers : Foreign(receipts, receipts', d)
    BY <1>3 DEF Foreign, TypeInv
  <1> QED BY <1>1, <1>3, <1>5, <1>6 DEF Elsewhere

-----------------------------------------------------------------------------
(* The invariant.                                                          *)

LEMMA RangeInit == Init => IInv
<1> SUFFICES ASSUME Init PROVE IInv
  OBVIOUS
<1>1. Packing
  BY InitInvariant DEF Init
<1>2. file \in ManifestRecord
  <2>1. << >> \in Seq(ChunkRecord)
    OBVIOUS
  <2> QED BY <2>1 DEF Init, ManifestInit, NoManifest, Manifest, Run, ManifestRecord, RunRecord
<1>3. setting \in Settings /\ edits \in 0..setting.edits
  BY SettingTyped DEF Init
<1>4. TypeInv
  BY <1>1, <1>2, <1>3 DEF Init, TypeInv, PcStates, Files
<1>5. ASSUME NEW d \in Drivers
      PROVE  Doing(receipts, pc[d], job[d], child[d], d) /\ Exited(d)
  <2>1. pc[d] = "idle" /\ child[d] = NoChild /\ exit[d] = "none"
    BY DEF Init
  <2> QED BY <2>1 DEF Doing, Exited
<1>6. ASSUME NEW out \in Outputs PROVE Reported(out)
  BY DEF Init, Reported, Whole, Absent
<1> QED BY <1>4, <1>5, <1>6 DEF IInv

\* Nobody's exit is lost: the aggregate it speaks of stays.
LEMMA ExitedStays ==
    ASSUME NEW d \in Drivers, TypeInv, Exited(d),
           pc'[d] = pc[d], job'[d] = job[d], exit'[d] = exit[d],
           \A out \in Outputs : Whole(aggregates[out]) => aggregates'[out] = aggregates[out]
    PROVE  Exited(d)'
  <1>1. ASSUME pc[d] = "print" \/ exit[d] \in {"accepted", "incomplete"}
        PROVE  job'[d] = job[d] /\ aggregates'[job[d].out] = aggregates[job[d].out]
    BY <1>1 DEF Exited, Own, Job
  <1> QED BY <1>1 DEF Exited

LEMMA OwnStep ==
    ASSUME IInv, NEW d \in Drivers, StepOf(d)
    PROVE  IInv'
  <1>1. TypeInv /\ TypeInv' /\ receipts' \in Seq(ReceiptRecord) /\ Grown(receipts, receipts')
    BY DEF IInv, StepOf, TypeInv
  <1>2. \A out \in Outputs : Whole(aggregates[out]) => aggregates'[out] = aggregates[out]
    BY DEF StepOf
  <1>3. ASSUME NEW e \in Drivers
        PROVE  Doing(receipts', pc'[e], job'[e], child'[e], e) /\ Exited(e)'
    <2>1. CASE e = d
      BY <2>1 DEF StepOf
    <2>2. CASE e # d
      <3>1. Around(e) /\ Doing(receipts, pc[e], job[e], child[e], e) /\ Exited(e)
        BY <2>2 DEF StepOf, Only, IInv
      <3> QED BY <1>1, <1>2, <3>1, OthersGoOn, ExitedStays DEF Around
    <2> QED BY <2>1, <2>2
  <1>4. \A e \in Drivers : pc[e] \in Decided => pc'[e] \in Decided /\ job'[e] = job[e]
    BY DEF StepOf, Only, Around
  <1>5. ASSUME NEW out \in Outputs
        PROVE  Reported(out)'
    <2>1. CASE aggregates'[out] = aggregates[out]
      BY <1>1, <1>4, <2>1, ReportedStays DEF IInv
    <2>2. CASE Whole(aggregates'[out]) => Reported(out)'
      BY <2>2 DEF Reported
    <2> QED BY <2>1, <2>2 DEF StepOf
  <1> QED BY <1>1, <1>3, <1>5 DEF IInv

LEMMA ElsewhereStep ==
    ASSUME IInv, Elsewhere
    PROVE  IInv'
  <1>1. TypeInv /\ TypeInv' /\ receipts' \in Seq(ReceiptRecord) /\ Grown(receipts, receipts')
        /\ UNCHANGED <<child, pc, job, exit, aggregates>>
    BY DEF IInv, Elsewhere, TypeInv, own
  <1>2. ASSUME NEW d \in Drivers
        PROVE  Doing(receipts', pc'[d], job'[d], child'[d], d) /\ Exited(d)'
    <2>1. Around(d) /\ Doing(receipts, pc[d], job[d], child[d], d) /\ Exited(d)
      BY <1>1 DEF Elsewhere, Around, IInv
    <2> QED BY <1>1, <2>1, OthersGoOn, ExitedStays
  <1>3. ASSUME NEW out \in Outputs
        PROVE  Reported(out)'
    <2>1. Reported(out)
      BY DEF IInv
    <2> QED BY <1>1, <2>1, ReportedStays
  <1> QED BY <1>1, <1>2, <1>3 DEF IInv

LEMMA RangeStep ==
    ASSUME IInv, [Next]_vars
    PROVE  IInv'
  <1>1. TypeInv
    BY DEF IInv
  <1>2. ASSUME NEW d \in setting.drivers, setting' = setting,
               \/ Start(d) \/ Step(d) \/ Kill(d)
               \/ ChildReports(d) \/ ChildExits(d) \/ ChildFails(d)
        PROVE  IInv'
    <2>1. d \in Drivers
      BY <1>1, SettingTyped DEF TypeInv
    <2>2. StepOf(d)
      BY <1>2, <2>1, StartStep, LaunchStep, EndsStep, CollectStep, ConcludeStep,
         GiveUpStep, WriteAggregateStep, PrintStep, KillStep, ChildReportsStep DEF Step
    <2> QED BY <2>1, <2>2, OwnStep
  <1>3. CASE UNCHANGED vars
    <2>1. Elsewhere
      <3>1. Packing'
        BY <1>1, <1>3, RestInvariant DEF TypeInv, vars, manifestVars
      <3>2. TypeInv'
        BY <1>1, <1>3, <3>1 DEF TypeInv, vars, manifestVars, shared, own
      <3>3. receipts' = receipts /\ Grown(receipts, receipts') /\ Len(receipts) \in Nat
        BY <1>1, <1>3, GrownReflexive DEF TypeInv, vars, shared
      <3> QED BY <1>3, <3>2, <3>3 DEF Elsewhere, Foreign, vars, shared
    <2> QED BY <2>1, ElsewhereStep
  <1>4. CASE Freeze /\ UNCHANGED <<setting, shared, own, edits>>
    BY <1>1, <1>4, FreezeStep, ElsewhereStep
  <1>5. CASE (OtherReview \/ Edit) /\ setting' = setting
    BY <1>1, <1>5, OtherReviewStep, EditStep, ElsewhereStep
  <1>6. CASE Next
    BY <1>2, <1>3, <1>4, <1>5, <1>6 DEF Next, Finished
  <1> QED BY <1>3, <1>6

THEOREM Invariance == Spec => []IInv
<1>1. Init => IInv
  BY RangeInit
<1>2. IInv /\ [Next]_vars => IInv'
  BY RangeStep
<1> QED BY <1>1, <1>2, PTL DEF Spec

-----------------------------------------------------------------------------
(* What follows.                                                           *)

\* Every variable has the type its comment says, for any drivers and settings.
THEOREM TypeCorrect == Spec => []TypeOK
<1>1. IInv => TypeOK
  <2> SUFFICES ASSUME IInv PROVE TypeOK
    OBVIOUS
  <2>1. TypeInv
    BY DEF IInv
  <2>2. /\ range \in Ranges /\ phase \in {"packing", "write", "written", "refused"}
        /\ first \in Nat /\ next \in Nat /\ size \in Nat
    BY <2>1 DEF TypeInv, Packing, Types
  <2>3. \A p \in 1..Len(receipts) :
           /\ receipts[p].result \in {"accepted", "unavailable"}
           /\ receipts[p].altered \in BOOLEAN
    <3>1. \A p \in 1..Len(receipts) : receipts[p] \in ReceiptRecord
      BY <2>1 DEF TypeInv
    <3> QED BY <3>1 DEF ReceiptRecord
  <2>4. ASSUME NEW out \in Outputs, Whole(aggregates[out])
        PROVE  /\ aggregates[out].by \in Drivers
               /\ aggregates[out].aggregate.result \in {"accepted", "incomplete"}
    <3>1. aggregates[out] \in WholeFiles
      BY <2>1, <2>4 DEF TypeInv, Files, Whole, Absent, Half
    <3> QED BY <3>1 DEF WholeFiles, AggregateRecord
  <2>5. ASSUME NEW d \in Drivers
        PROVE  /\ child[d].status \in {"none", "running", "reported", "exited"}
               /\ pc[d] \in {"idle", "next", "waiting", "write", "print", "done", "killed"}
               /\ pc[d] \in {"next", "waiting", "write", "print"} =>
                      \A k \in 1..Len(job[d].records) :
                          job[d].records[k].result \in {"accepted", "unavailable", "missing"}
               /\ exit[d] \in {"none", "accepted", "incomplete", "error"}
    <3>1. child[d].status \in {"none", "running", "reported", "exited"}
      <4>1. child[d] \in {NoChild} \cup Child
        BY <2>1 DEF TypeInv
      <4> QED BY <4>1 DEF NoChild, Child
    <3>2. ASSUME pc[d] \in {"next", "waiting", "write", "print"}
          PROVE  \A k \in 1..Len(job[d].records) :
                     job[d].records[k].result \in {"accepted", "unavailable", "missing"}
      <4>1. job[d].records \in Seq(ReviewRecord)
        BY <3>2, AtLoop DEF IInv, Exited, Job
      <4>2. \A k \in 1..Len(job[d].records) : job[d].records[k] \in ReviewRecord
        BY <4>1
      <4> QED BY <4>2 DEF ReviewRecord
    <3> QED BY <2>1, <3>1, <3>2 DEF TypeInv, PcStates
  <2>6. edits \in 0..setting.edits
    BY <2>1 DEF TypeInv
  <2> QED BY <2>2, <2>3, <2>4, <2>5, <2>6 DEF TypeOK
<1> QED BY <1>1, Invariance, PTL

\* Drivers, children and whoever changes the manifest file leave the chunks of the
\* range alone: they stay the whole diff (_chunks, run_range_review).
THEOREM FrozenForDrivers == Spec => []FrozenIsTheDiff
<1>1. IInv => FrozenIsTheDiff
  BY PackingIsTheDiff DEF IInv, TypeInv
<1> QED BY <1>1, Invariance, PTL

\* Findings of a record are findings of the aggregate.
LEMMA NoFindings ==
    ASSUME NEW records, FindingsOf(records) = {}, NEW k \in 1..Len(records),
           NEW findings \in SUBSET STRING, records[k].findings = findings
    PROVE  findings = {}
  <1>1. ASSUME NEW f \in findings PROVE FALSE
    <2>1. <<records[k].index, f>> \in {<<records[k].index, g>> : g \in records[k].findings}
      BY <1>1
    <2>2. <<records[k].index, f>> \in FindingsOf(records)
      BY <2>1 DEF FindingsOf
    <2> QED BY <2>2
  <1> QED BY <1>1

LEMMA AboutWhole ==
    ASSUME IInv, NEW out \in WholeAggregates
    PROVE  LET d == aggregates[out].by
               a == aggregates[out].aggregate
           IN  /\ d \in Drivers /\ a \in AggregateRecord
               /\ receipts \in Seq(ReceiptRecord)
               /\ job[d].out = out
               /\ Justified(receipts, job[d], a, d)
  <1>1. out \in Outputs /\ Whole(aggregates[out]) /\ Reported(out) /\ TypeInv
    BY DEF WholeAggregates, IInv
  <1>2. aggregates[out] \in WholeFiles
    BY <1>1 DEF TypeInv, Files, Whole, Absent, Half
  <1> QED BY <1>1, <1>2 DEF Reported, WholeFiles, TypeInv

\* An accepted aggregate has, for each chunk, the receipt of its own driver's child,
\* whoever else writes below the root (tournament_receipt_path, verify_range_aggregate).
THEOREM AcceptedIsReviewedAlways == Spec => []AcceptedIsReviewed
<1>1. IInv => AcceptedIsReviewed
  <2> SUFFICES ASSUME IInv, NEW out \in WholeAggregates,
                      aggregates[out].aggregate.result = "accepted"
               PROVE  LET a == aggregates[out].aggregate
                      IN  /\ Reassembles(a.manifest.chunks, a.manifest.diff)
                          /\ \A k \in 1..Len(a.manifest.chunks) :
                                 LET receipt == receipts[a.records[k].receipt]
                                 IN  /\ receipt.by = <<aggregates[out].by, k - 1>>
                                     /\ receipt.manifest = a.manifest
                                     /\ receipt.payload = a.manifest.chunks[k].payload
                                     /\ receipt.result = "accepted"
                                     /\ a.approved => receipt.findings = {}
    BY DEF AcceptedIsReviewed
  <2> DEFINE d == aggregates[out].by
             a == aggregates[out].aggregate
  <2>1. /\ Reviewed(receipts, a, d) /\ a \in AggregateRecord /\ receipts \in Seq(ReceiptRecord)
    BY AboutWhole DEF Justified
  <2> HIDE DEF a, d
  <2>2. Reassembles(a.manifest.chunks, a.manifest.diff)
    BY <2>1 DEF Reviewed, ValidManifest
  <2>3. ASSUME NEW k \in 1..Len(a.manifest.chunks)
        PROVE  LET receipt == receipts[a.records[k].receipt]
               IN  /\ receipt.by = <<d, k - 1>>
                   /\ receipt.manifest = a.manifest
                   /\ receipt.payload = a.manifest.chunks[k].payload
                   /\ receipt.result = "accepted"
                   /\ a.approved => receipt.findings = {}
    <3> DEFINE record == a.records[k]
               receipt == receipts[record.receipt]
    <3>1. k \in 1..Len(a.records) /\ (k - 1) + 1 = k
      BY <2>1 DEF Reviewed, AggregateRecord, ManifestRecord
    <3>2. record.receipt \in 1..Len(receipts) /\ receipt.by = <<d, k - 1>>
      BY <2>1, <3>1 DEF Reviewed
    <3>3. PICK r \in record.digest :
              Same(r, receipt) /\ Holds(a.manifest, a.id, record, k - 1, r)
      BY <2>1, <3>1 DEF Reviewed
    <3>4. receipt \in ReceiptRecord
      BY <2>1, <3>2
    <3>5. record.findings = receipt.findings /\ receipt.findings \in SUBSET STRING
      BY <3>3, <3>4 DEF Same, Holds, ReceiptRecord
    <3>6. a.approved => FindingsOf(a.records) = {}
      BY <2>1 DEF Reviewed, Sums
    <3>7. a.approved => receipt.findings = {}
      <4> HIDE DEF receipt
      <4> QED BY <3>1, <3>5, <3>6, NoFindings
    <3> HIDE DEF record, receipt
    <3>8. /\ receipt.manifest = a.manifest /\ receipt.result = "accepted"
          /\ receipt.payload = a.manifest.chunks[k].payload
      BY <3>1, <3>3 DEF Same, Holds
    <3> QED BY <3>2, <3>7, <3>8 DEF receipt, record
  <2> QED BY <2>2, <2>3 DEF a, d
<1> QED BY <1>1, Invariance, PTL

\* What is incomplete has a cause that is not the driver's own: a child that failed,
\* or receipts of others (_range_chunk_record, tournament_receipt_path).
THEOREM FailsForACauseAlways == Spec => []FailsForACause
<1>1. IInv => FailsForACause
  BY AboutWhole DEF Justified, Disturbed, FailsForACause
<1> QED BY <1>1, Invariance, PTL

-----------------------------------------------------------------------------
(* The verifier.                                                           *)

LEMMA WhatVerifies ==
    ASSUME IInv, NEW out \in WholeAggregates
    PROVE  LET a == aggregates[out].aggregate
           IN  Verified(file, a) <=>
                   /\ a.result = "accepted"
                   /\ file = a.manifest
                   /\ \A k \in 1..Len(a.records) :
                          a.records[k].digest = {receipts[a.records[k].receipt]}
  <1> DEFINE d == aggregates[out].by
             a == aggregates[out].aggregate
  <1>1. Justified(receipts, job[d], a, d)
    BY AboutWhole
  <1> HIDE DEF a, d
  <1>2. ASSUME Verified(file, a)
        PROVE  /\ a.result = "accepted" /\ file = a.manifest
               /\ \A k \in 1..Len(a.records) :
                      a.records[k].digest = {receipts[a.records[k].receipt]}
    BY <1>1, <1>2 DEF Verified, Sums, RecordHolds
  <1>3. ASSUME a.result = "accepted", file = a.manifest,
               \A k \in 1..Len(a.records) :
                   a.records[k].digest = {receipts[a.records[k].receipt]}
        PROVE  Verified(file, a)
    <2>1. Reviewed(receipts, a, d)
      BY <1>1, <1>3 DEF Justified
    <2>2. ASSUME NEW k \in 1..Len(a.records)
          PROVE  RecordHolds(file, a.id, a.records[k], k - 1)
      <3> DEFINE record == a.records[k]
      <3>1. PICK r \in record.digest : Holds(a.manifest, a.id, record, k - 1, r)
        BY <2>1 DEF Reviewed
      <3>2. r = receipts[record.receipt] /\ record.receipt \in 1..Len(receipts)
        BY <1>3, <2>1 DEF Reviewed
      <3> HIDE DEF record
      <3>3. RecordHolds(file, a.id, record, k - 1)
        BY <1>3, <3>1, <3>2 DEF RecordHolds, Holds
      <3> QED BY <3>3 DEF record
    <2> QED BY <1>3, <2>1, <2>2 DEF Verified, Reviewed
  <1> QED BY <1>2, <1>3 DEF a, d

\* Chunk k of the manifest m has an accepted receipt of the review that a names.
Vouched(m, a, k) ==
    \E p \in 1..Len(receipts) :
        /\ receipts[p].id = ChunkId(a.id, k - 1)
        /\ receipts[p].manifest = m
        /\ receipts[p].payload = m.chunks[k].payload
        /\ receipts[p].result = "accepted"
        /\ a.approved => receipts[p].findings = {}

\* Whatever verifies against a manifest has a receipt of each of its chunks.
LEMMA VerifiedHasReceipts ==
    ASSUME NEW m \in ManifestRecord, receipts \in Seq(ReceiptRecord), NEW a, Verified(m, a),
           NEW k \in 1..Len(m.chunks)
    PROVE  Vouched(m, a, k)
  <1> DEFINE record == a.records[k]
             receipt == receipts[record.receipt]
  <1>1. k \in 1..Len(a.records) /\ (k - 1) + 1 = k
    BY DEF Verified, ManifestRecord
  <1>2. RecordHolds(m, a.id, record, k - 1)
    BY <1>1 DEF Verified
  <1>3. record.receipt \in 1..Len(receipts) /\ receipt \in ReceiptRecord
    BY <1>2 DEF RecordHolds
  <1>4. /\ receipt.id = ChunkId(a.id, k - 1) /\ receipt.manifest = m
        /\ receipt.payload = m.chunks[k].payload /\ receipt.result = "accepted"
        /\ record.findings = receipt.findings
    BY <1>1, <1>2 DEF RecordHolds
  <1>5. a.approved => receipt.findings = {}
    <2>1. a.approved => FindingsOf(a.records) = {}
      BY DEF Verified, Sums
    <2>2. receipt.findings \in SUBSET STRING
      BY <1>3 DEF ReceiptRecord
    <2> QED BY ZenonT(60), <1>1, <1>4, <2>1, <2>2, NoFindings
  <1> HIDE DEF record
  <1> QED BY <1>3, <1>4, <1>5 DEF Vouched

\* The verifier is right about what a driver wrote, and about every edit of its records
\* that is signed again (verify_range_aggregate).
THEOREM VerifierIsRightAlways == Spec => []VerifierIsRight
<1>1. IInv => SuccessVerifies
  <2> SUFFICES ASSUME IInv PROVE SuccessVerifies
    OBVIOUS
  <2>1. ASSUME NEW d \in Drivers, exit[d] \in {"accepted", "incomplete"}
        PROVE  \E out \in WholeAggregates :
                   /\ out = job[d].out /\ aggregates[out].by = d
                   /\ aggregates[out].aggregate.result = exit[d]
    <3>1. /\ job[d] \in Job /\ Whole(aggregates[job[d].out])
          /\ aggregates[job[d].out].by = d
          /\ aggregates[job[d].out].aggregate.result = exit[d]
      BY <2>1 DEF IInv, Exited, Own
    <3>2. job[d].out \in WholeAggregates
      BY <3>1 DEF WholeAggregates, Job
    <3> QED BY <3>1, <3>2
  <2> QED BY <2>1, WhatVerifies DEF SuccessVerifies
<1>2. IInv => EditsAreFound
  <2> SUFFICES ASSUME IInv, NEW a, Verified(file, a), NEW k \in 1..Len(file.chunks)
               PROVE  Vouched(file, a, k)
    BY DEF EditsAreFound, Vouched
  <2>1. file \in ManifestRecord /\ receipts \in Seq(ReceiptRecord)
    BY DEF IInv, TypeInv
  <2> QED BY <2>1, VerifiedHasReceipts
<1> QED BY <1>1, <1>2, Invariance, PTL DEF VerifierIsRight

-----------------------------------------------------------------------------
(* The promise of a range review.                                          *)

\* Of some naturals one is the first.
LEMMA FirstOfSome ==
    ASSUME NEW S, S \subseteq Nat, S # {}
    PROVE  \E least \in S : \A other \in S : least <= other
  <1>1. IsWellFoundedOn(OpToRel(<, Nat), Nat)
    BY NatLessThanWellFounded
  <1>2. PICK n \in S : \A i \in S : ~(<<i, n>> \in OpToRel(<, Nat))
    BY <1>1, WFMin
  <1>3. \A i \in S : ~(i < n)
    BY <1>2 DEF OpToRel
  <1> QED BY <1>3, SMT

\* A section of the diff is shown in some chunk: the first that does not end before it.
LEMMA EverySectionIsShown ==
    ASSUME NEW m \in ManifestRecord, m.chunks # << >>, Reassembles(m.chunks, m.diff),
           NEW s \in m.diff.first..m.diff.last
    PROVE  \E k \in 1..Len(m.chunks) :
               s \in m.chunks[k].payload.first..m.chunks[k].payload.last
  <1> DEFINE n == Len(m.chunks)
             From(k) == m.chunks[k].payload.first
             To(k)   == m.chunks[k].payload.last
             Ahead   == {k \in 1..n : s <= To(k)}
  <1>1. n \in Nat /\ n # 0 /\ s \in Nat /\ m.diff.first <= s /\ s <= m.diff.last
    BY DEF ManifestRecord, RunRecord
  <1>2. \A k \in 1..n : From(k) \in Nat /\ To(k) \in Nat
    <2> SUFFICES ASSUME NEW k \in 1..n PROVE m.chunks[k].payload \in RunRecord
      BY DEF RunRecord
    <2>1. m.chunks[k] \in ChunkRecord
      BY DEF ManifestRecord
    <2> QED BY <2>1 DEF ChunkRecord, RunRecord
  <1>3. /\ From(1) = m.diff.first /\ To(n) = m.diff.last
        /\ \A k \in 1..(n - 1) : From(k + 1) = To(k) + 1
    BY DEF Reassembles
  <1> HIDE DEF n, From, To
  <1>4. n \in Ahead /\ Ahead \subseteq Nat
    BY <1>1, <1>3
  <1>5. PICK k \in Ahead : \A i \in Ahead : k <= i
    <2> HIDE DEF Ahead
    <2> QED BY <1>4, FirstOfSome
  <1>6. From(k) <= s
    <2>1. CASE k = 1
      BY <1>1, <1>3, <2>1
    <2>2. CASE k # 1
      <3>1. k - 1 \in 1..(n - 1) /\ k - 1 \in 1..n /\ (k - 1) + 1 = k
        BY <1>1, <2>2
      <3>2. k - 1 \notin Ahead
        BY <1>1, <1>4, <1>5, <3>1
      <3> QED BY <1>1, <1>2, <1>3, <3>1, <3>2
    <2> QED BY <2>1, <2>2
  <1>7. s \in From(k)..To(k)
    BY <1>1, <1>2, <1>6
  <1> QED BY <1>7 DEF n, From, To

\* What an accepted aggregate says of chunk k, its author's child reviewed.
LEMMA ChunkIsReviewed ==
    ASSUME NEW log \in Seq(ReceiptRecord), NEW a \in AggregateRecord, NEW d,
           Reviewed(log, a, d), NEW k \in 1..Len(a.manifest.chunks)
    PROVE  /\ k \in 1..Len(a.records) /\ a.records[k].receipt \in 1..Len(log)
           /\ LET receipt == log[a.records[k].receipt]
              IN  /\ receipt \in ReceiptRecord /\ receipt.by[1] = d
                  /\ receipt.payload = a.manifest.chunks[k].payload
                  /\ receipt.result = "accepted"
                  /\ receipt.findings = a.records[k].findings
  <1> DEFINE record == a.records[k]
             receipt == log[record.receipt]
  <1>1. k \in 1..Len(a.records) /\ (k - 1) + 1 = k
    BY DEF Reviewed, AggregateRecord, ManifestRecord
  <1>2. record.receipt \in 1..Len(log) /\ receipt.by = <<d, k - 1>>
    BY <1>1 DEF Reviewed
  <1>3. PICK r \in record.digest : Same(r, receipt) /\ Holds(a.manifest, a.id, record, k - 1, r)
    BY <1>1 DEF Reviewed
  <1>4. receipt \in ReceiptRecord
    BY <1>2
  <1> HIDE DEF record, receipt
  <1>5. /\ receipt.payload = a.manifest.chunks[k].payload /\ receipt.result = "accepted"
        /\ receipt.findings = record.findings
    BY <1>1, <1>3 DEF Same, Holds
  <1> QED BY <1>1, <1>2, <1>4, <1>5 DEF record, receipt

\* The verdict of an aggregate.
LEMMA VerdictOf ==
    ASSUME NEW f \in WholeFiles
    PROVE  LET a == f.aggregate
               v == VerdictIn(f)
           IN  /\ v.by = f.by
               /\ v.sections = a.manifest.diff.first..a.manifest.diff.last
               /\ v.findings = {finding[2] : finding \in a.findings}
               /\ v.result = IF a.approved THEN "approved" ELSE a.result
  BY DEF VerdictIn, WholeFiles, Absent, Half

\* The findings of all records, without their chunks.
LEMMA FindingsOfAll ==
    ASSUME NEW records \in Seq(ReviewRecord)
    PROVE  {finding[2] : finding \in FindingsOf(records)}
               = UNION {records[k].findings : k \in 1..Len(records)}
  <1>1. ASSUME NEW k \in 1..Len(records), NEW f \in records[k].findings
        PROVE  f \in {finding[2] : finding \in FindingsOf(records)}
    <2>1. <<records[k].index, f>> \in FindingsOf(records)
      BY <1>1 DEF FindingsOf
    <2>2. <<records[k].index, f>>[2] = f
      OBVIOUS
    <2> QED BY <2>1, <2>2
  <1>2. ASSUME NEW finding \in FindingsOf(records)
        PROVE  \E k \in 1..Len(records) : finding[2] \in records[k].findings
    <2>1. PICK k \in 1..Len(records) :
              finding \in {<<records[k].index, f>> : f \in records[k].findings}
      BY <1>2 DEF FindingsOf
    <2> QED BY <2>1
  <1> QED BY <1>1, <1>2

\* An accepted verdict rests on the reviews that its author's children made.
LEMMA VerdictRests ==
    ASSUME IInv, NEW out \in WholeAggregates, aggregates[out].aggregate.result = "accepted"
    PROVE  \E reviews \in SUBSET AcceptedReviews :
               Promise!RestsOn(VerdictIn(aggregates[out]), reviews)
  <1> DEFINE d == aggregates[out].by
             a == aggregates[out].aggregate
             v == VerdictIn(aggregates[out])
             n == Len(a.manifest.chunks)
             Review(k) == ReviewOf(receipts[a.records[k].receipt])
             reviews == {Review(k) : k \in 1..n}
  <1>1. /\ Reviewed(receipts, a, d) /\ a \in AggregateRecord /\ receipts \in Seq(ReceiptRecord)
        /\ a.result = "accepted"
    BY AboutWhole DEF Justified
  <1>2. /\ v.by = d
        /\ v.sections = a.manifest.diff.first..a.manifest.diff.last
        /\ v.findings = {finding[2] : finding \in a.findings}
        /\ v.result = IF a.approved THEN "approved" ELSE a.result
    <2>1. aggregates[out] \in WholeFiles
      BY DEF WholeAggregates, IInv, TypeInv, Files, Whole, Absent, Half
    <2> QED BY <2>1, VerdictOf
  <1> HIDE DEF a, d, v
  <1>3. /\ ValidManifest(a.manifest) /\ a.manifest.chunks # << >> /\ Len(a.records) = n
        /\ a.manifest \in ManifestRecord /\ a.records \in Seq(ReviewRecord) /\ n \in Nat
        /\ a.findings = FindingsOf(a.records) /\ a.approved = (a.findings = {})
    BY <1>1 DEF Reviewed, Sums, AggregateRecord, ManifestRecord
  <1>4. ASSUME NEW k \in 1..n
        PROVE  /\ Review(k) \in AcceptedReviews
               /\ Review(k).by = d
               /\ Review(k).sections
                      = a.manifest.chunks[k].payload.first..a.manifest.chunks[k].payload.last
               /\ Review(k).findings = a.records[k].findings
    <2> DEFINE p == a.records[k].receipt
    <2>1. /\ p \in 1..Len(receipts) /\ receipts[p].by[1] = d
          /\ receipts[p].payload = a.manifest.chunks[k].payload
          /\ receipts[p].result = "accepted"
          /\ receipts[p].findings = a.records[k].findings
      BY <1>1, ChunkIsReviewed
    <2> HIDE DEF p
    <2>2. ReviewOf(receipts[p]) \in AcceptedReviews
      BY <2>1 DEF AcceptedReviews
    <2> QED BY <2>1, <2>2 DEF ReviewOf, p
  <1> HIDE DEF Review
  <1>5. reviews \in SUBSET AcceptedReviews /\ \A review \in reviews : review.by = v.by
    BY <1>2, <1>4
  <1>6. v.sections \subseteq UNION {review.sections : review \in reviews}
    <2> SUFFICES ASSUME NEW s \in v.sections
                 PROVE  \E k \in 1..n : s \in Review(k).sections
      OBVIOUS
    <2>1. \E k \in 1..n :
              s \in a.manifest.chunks[k].payload.first..a.manifest.chunks[k].payload.last
      BY <1>2, <1>3, EverySectionIsShown DEF ValidManifest
    <2> QED BY <1>4, <2>1
  <1>7. ASSUME NEW i \in 1..n, NEW j \in 1..n, Review(i) # Review(j)
        PROVE  Review(i).sections \cap Review(j).sections = {}
    <2>1. /\ a.manifest.chunks[i].payload \in RunRecord
          /\ a.manifest.chunks[j].payload \in RunRecord
      <3>1. a.manifest.chunks[i] \in ChunkRecord /\ a.manifest.chunks[j] \in ChunkRecord
        BY <1>3 DEF ManifestRecord
      <3> QED BY <3>1 DEF ChunkRecord, RunRecord
    <2>2. \/ a.manifest.chunks[i].payload.last < a.manifest.chunks[j].payload.first
          \/ a.manifest.chunks[j].payload.last < a.manifest.chunks[i].payload.first
      <3>1. i < j \/ j < i
        BY <1>3, <1>7
      <3> HIDE DEF Review
      <3> QED BY ONLY <1>3, <1>7, <3>1 DEF ValidManifest
    <2> DEFINE p == a.manifest.chunks[i].payload
               q == a.manifest.chunks[j].payload
    <2> HIDE DEF p, q
    <2>3. (p.first..p.last) \cap (q.first..q.last) = {}
      BY ONLY SMTT(60), <2>1, <2>2 DEF RunRecord, p, q
    <2>4. Review(i).sections = p.first..p.last /\ Review(j).sections = q.first..q.last
      BY <1>4 DEF p, q
    <2> QED BY <2>3, <2>4
  <1>8. v.findings = UNION {review.findings : review \in reviews}
    <2>1. UNION {a.records[k].findings : k \in 1..Len(a.records)}
              = UNION {review.findings : review \in reviews}
      <3>1. ASSUME NEW k \in 1..Len(a.records)
            PROVE  Review(k) \in reviews /\ Review(k).findings = a.records[k].findings
        BY <1>3, <1>4
      <3>2. ASSUME NEW review \in reviews
            PROVE  \E k \in 1..Len(a.records) : review.findings = a.records[k].findings
        BY <1>3, <1>4
      <3> HIDE DEF reviews
      <3> QED BY ONLY <3>1, <3>2
    <2> QED BY <1>2, <1>3, <2>1, FindingsOfAll
  <1>9. v.result = "approved" <=> v.findings = {}
    <2>1. v.findings = {} <=> a.findings = {}
      BY <1>2
    <2> QED BY <1>1, <1>2, <1>3, <2>1
  <1>10. Promise!RestsOn(v, reviews)
    <2> HIDE DEF reviews
    <2>1. \A r, q \in reviews : r # q => r.sections \cap q.sections = {}
      BY <1>7 DEF reviews
    <2> QED BY <1>5, <1>6, <1>8, <1>9, <2>1 DEF Promise!RestsOn
  <1> QED BY <1>5, <1>10 DEF v

Rested ==
    \A out \in WholeAggregates :
        LET a == aggregates[out].aggregate
        IN  /\ a.approved => a.result = "accepted"
            /\ a.result = "accepted" =>
                   \E reviews \in SUBSET AcceptedReviews :
                       Promise!RestsOn(VerdictIn(aggregates[out]), reviews)

ReviewsIn(log) == {ReviewOf(log[p]) : p \in {q \in 1..Len(log) : log[q].result = "accepted"}}

LEMMA ReviewsArrive ==
    ASSUME NEW log \in Seq(ReceiptRecord), NEW r \in ReceiptRecord
    PROVE  \/ ReviewsIn(Append(log, r)) = ReviewsIn(log)
           \/ /\ ReviewsIn(Append(log, r)) = ReviewsIn(log) \cup {ReviewOf(r)}
              /\ ReviewOf(r) \in ReviewsIn(Append(log, r))
  <1> DEFINE new == Append(log, r)
             n == Len(log)
  <1>1. /\ n \in Nat /\ Len(new) = n + 1 /\ new[n + 1] = r
        /\ \A p \in 1..n : new[p] = log[p]
    BY Arrives
  <1> HIDE DEF new, n
  <1>2. 1..Len(new) = 1..n \cup {n + 1}
    BY <1>1
  <1>3. ReviewsIn(log) = {ReviewOf(log[p]) : p \in {q \in 1..n : log[q].result = "accepted"}}
    BY DEF ReviewsIn, n
  <1>4. CASE r.result = "accepted"
    <2>1. {q \in 1..Len(new) : new[q].result = "accepted"}
              = {q \in 1..n : log[q].result = "accepted"} \cup {n + 1}
      BY <1>1, <1>2, <1>4
    <2>2. ReviewsIn(new) = ReviewsIn(log) \cup {ReviewOf(r)}
      BY <1>1, <1>3, <2>1 DEF ReviewsIn
    <2> QED BY <2>2 DEF new
  <1>5. CASE r.result # "accepted"
    <2>1. {q \in 1..Len(new) : new[q].result = "accepted"}
              = {q \in 1..n : log[q].result = "accepted"}
      BY <1>1, <1>2, <1>5
    <2>2. ReviewsIn(new) = ReviewsIn(log)
      BY <1>1, <1>3, <2>1 DEF ReviewsIn
    <2> QED BY <2>2 DEF new
  <1> QED BY <1>4, <1>5

\* That somebody alters a receipt does not undo the review.
LEMMA ReviewsStay ==
    ASSUME NEW old \in Seq(ReceiptRecord), NEW new \in Seq(ReceiptRecord), Grown(old, new),
           Len(new) = Len(old)
    PROVE  ReviewsIn(new) = ReviewsIn(old)
  <1>1. \A p \in 1..Len(old) :
            new[p].result = old[p].result /\ ReviewOf(new[p]) = ReviewOf(old[p])
    BY DEF Grown, Same, ReviewOf
  <1>2. {q \in 1..Len(new) : new[q].result = "accepted"}
            = {q \in 1..Len(old) : old[q].result = "accepted"}
    BY <1>1
  <1> QED BY <1>1, <1>2 DEF ReviewsIn

\* What is written at a path where nothing is, is its verdict.
LEMMA WrittenDecides ==
    ASSUME IInv, IInv', Rested', receipts' = receipts, NEW out \in Outputs,
           aggregates[out] = Absent, NEW f, f # Absent,
           aggregates' = [aggregates EXCEPT ![out] = f]
    PROVE  Promise!Decide(out)
  <1>1. aggregates \in [Outputs -> Files] /\ aggregates' \in [Outputs -> Files]
    BY DEF IInv, TypeInv
  <1>2. f \in {Half} \cup WholeFiles /\ aggregates'[out] = f
    BY <1>1 DEF Files
  <1>3. Verdicts[out] = Promise!Undecided
    <2>1. VerdictIn(Absent) = Promise!Undecided
      BY DEF VerdictIn, Promise!Undecided, Absent, Half
    <2> QED BY <2>1 DEF Verdicts
  <1>4. Verdicts'[out] = VerdictIn(f) /\ Verdicts' = [Verdicts EXCEPT ![out] = Verdicts'[out]]
    BY <1>1, <1>2 DEF Verdicts
  <1>5. AcceptedReviews' = AcceptedReviews
    BY DEF AcceptedReviews
  <1>6. CASE f = Half
    <2>1. VerdictIn(f).result = "lost"
      BY <1>6 DEF VerdictIn, Absent, Half
    <2> QED BY <1>3, <1>4, <1>5, <2>1
            DEF Promise!Decide, Promise!Results, Promise!Accepted
  <1>7. CASE f \in WholeFiles
    <2>1. /\ VerdictIn(f).result = IF f.aggregate.approved THEN "approved" ELSE f.aggregate.result
          /\ f.aggregate.result \in {"accepted", "incomplete"} /\ f.file = "whole"
      BY <1>7, VerdictOf DEF WholeFiles, AggregateRecord
    <2>2. f.aggregate.approved => f.aggregate.result = "accepted"
      <3>1. out \in WholeAggregates'
        BY <1>2, <2>1 DEF WholeAggregates, Whole
      <3> QED BY <1>2, <3>1 DEF Rested
    <2>3. VerdictIn(f).result \in Promise!Results
      BY <2>1 DEF Promise!Results
    <2>4. ASSUME VerdictIn(f).result \in Promise!Accepted
          PROVE  \E reviews \in SUBSET AcceptedReviews : Promise!RestsOn(VerdictIn(f), reviews)
      <3>1. f.aggregate.result = "accepted"
        BY <2>1, <2>2, <2>4 DEF Promise!Accepted
      <3>2. out \in WholeAggregates'
        BY <1>2, <2>1 DEF WholeAggregates, Whole
      <3> QED BY <1>2, <1>5, <3>1, <3>2 DEF Rested
    <2> QED BY <1>3, <1>4, <1>5, <2>3, <2>4 DEF Promise!Decide
  <1> QED BY <1>2, <1>6, <1>7

\* What a step of the range review is to a reader of verdicts.
LEMMA PromiseStep ==
    ASSUME IInv, IInv', Rested', [Next]_vars
    PROVE  \/ UNCHANGED <<AcceptedReviews, Verdicts>>
           \/ Promise!Review
           \/ \E out \in Outputs : Promise!Decide(out)
  <1>0. /\ TypeInv /\ receipts \in Seq(ReceiptRecord) /\ receipts' \in Seq(ReceiptRecord)
        /\ aggregates \in [Outputs -> Files] /\ job \in [Drivers -> {NoJob} \cup Job]
        /\ setting.drivers \subseteq Drivers /\ setting.outcomes \subseteq Outcome
    BY SettingTyped DEF IInv, TypeInv
  <1>1. AcceptedReviews = ReviewsIn(receipts) /\ AcceptedReviews' = ReviewsIn(receipts')
    BY DEF AcceptedReviews, ReviewsIn
  <1>2. ASSUME UNCHANGED shared
        PROVE  UNCHANGED <<AcceptedReviews, Verdicts>>
    BY <1>2 DEF shared, AcceptedReviews, Verdicts
  <1>3. ASSUME NEW r, receipts' = Append(receipts, r), UNCHANGED aggregates
        PROVE  UNCHANGED <<AcceptedReviews, Verdicts>> \/ Promise!Review
    <2>1. Verdicts' = Verdicts
      BY <1>3 DEF Verdicts
    <2>2. r \in ReceiptRecord
      <3>1. Len(receipts') = Len(receipts) + 1 /\ receipts'[Len(receipts) + 1] = r
        BY <1>0, <1>3
      <3> QED BY <1>0, <3>1
    <2> QED BY <1>0, <1>1, <1>3, <2>1, <2>2, ReviewsArrive DEF Promise!Review
  <1>4. ASSUME NEW d \in Drivers, WriteAggregate(d)
        PROVE  \/ UNCHANGED <<AcceptedReviews, Verdicts>>
               \/ \E out \in Outputs : Promise!Decide(out)
    <2> DEFINE out == job[d].out
    <2>1. pc[d] = "write" /\ receipts' = receipts
      BY <1>4 DEF WriteAggregate, Goto, Exits
    <2>2. out \in Outputs
      BY <1>0, <2>1 DEF IInv, Doing, Job
    <2>3. \/ aggregates' = aggregates
          \/ aggregates[out] = Absent /\ aggregates' = [aggregates EXCEPT ![out] = Half]
          \/ /\ aggregates[out] = Absent
             /\ \E draft : aggregates' = [aggregates EXCEPT ![out] = Written(d, draft)]
      BY <1>4 DEF WriteAggregate
    <2>4. Half # Absent /\ \A draft : Written(d, draft) # Absent
      BY DEF Half, Absent, Written
    <2> HIDE DEF out
    <2> QED BY <1>2, <2>1, <2>2, <2>3, <2>4, WrittenDecides DEF shared
  <1>5. ASSUME NEW d \in Drivers, Kill(d)
        PROVE  \/ UNCHANGED <<AcceptedReviews, Verdicts>>
               \/ \E out \in Outputs : Promise!Decide(out)
    <2>1. CASE UNCHANGED aggregates
      BY <1>2, <1>5, <2>1 DEF Kill, shared
    <2>2. CASE /\ pc[d] = "write" /\ aggregates[job[d].out] = Absent
               /\ aggregates' = [aggregates EXCEPT ![job[d].out] = Half]
      <3>1. job[d].out \in Outputs /\ receipts' = receipts
        BY <1>0, <1>5, <2>2 DEF IInv, Doing, Job, Kill
      <3>2. Half # Absent
        BY DEF Half, Absent
      <3> QED BY <2>2, <3>1, <3>2, WrittenDecides
    <2> QED BY <1>5, <2>1, <2>2 DEF Kill
  <1>6. ASSUME Edit
        PROVE  UNCHANGED <<AcceptedReviews, Verdicts>>
    <2>1. CASE UNCHANGED receipts
      BY <1>2, <1>6, <2>1 DEF Edit, shared
    <2>2. ASSUME NEW p \in 1..Len(receipts), receipts' = [receipts EXCEPT ![p].altered = TRUE]
          PROVE  UNCHANGED <<AcceptedReviews, Verdicts>>
      <3>1. Grown(receipts, receipts') /\ Len(receipts') = Len(receipts)
        BY <1>0, <2>2, Alters
      <3>2. Verdicts' = Verdicts
        BY <1>6 DEF Edit, Verdicts
      <3> QED BY <1>0, <1>1, <3>1, <3>2, ReviewsStay
    <2> QED BY <1>6, <2>1, <2>2 DEF Edit
  <1>7. ASSUME NEW d \in Drivers, ChildReports(d)
        PROVE  UNCHANGED <<AcceptedReviews, Verdicts>> \/ Promise!Review
    BY <1>3, <1>7 DEF ChildReports
  <1>8. CASE OtherReview
    BY <1>3, <1>8 DEF OtherReview
  <1>9. ASSUME NEW d \in Drivers,
               \/ Start(d) \/ Launch(d) \/ GiveUp(d) \/ Timeout(d) \/ Collect(d)
               \/ Conclude(d) \/ PrintSummary(d) \/ ChildExits(d) \/ ChildFails(d)
        PROVE  UNCHANGED shared
    BY <1>9 DEF Start, Launch, GiveUp, Timeout, Collect, Conclude, PrintSummary, ChildExits, ChildFails
  <1>10. CASE UNCHANGED vars
    BY <1>2, <1>10 DEF vars
  <1> QED BY <1>0, <1>2, <1>4, <1>5, <1>6, <1>7, <1>8, <1>9, <1>10 DEF Next, Step, Finished

\* The range review keeps the promise of RangePromise: under each path one verdict, for
\* good, and an accepted one only when every section has been reviewed, none twice, by its
\* author's own children (RangeReview's RefinesPromise).
THEOREM KeepsThePromise == Spec => RefinesPromise
<1>1. Init => Promise!Init
  <2> SUFFICES ASSUME Init PROVE Promise!Init
    OBVIOUS
  <2>1. AcceptedReviews = {}
    BY DEF Init, AcceptedReviews
  <2>2. VerdictIn(Absent) = Promise!Undecided
    BY DEF VerdictIn, Promise!Undecided, Absent, Half
  <2>3. Verdicts = [out \in Outputs |-> Promise!Undecided]
    BY <2>2 DEF Init, Verdicts
  <2> QED BY <2>1, <2>3 DEF Promise!Init
<1>2. IInv => Rested
  <2> SUFFICES ASSUME IInv, NEW out \in WholeAggregates
               PROVE  LET a == aggregates[out].aggregate
                      IN  /\ a.approved => a.result = "accepted"
                          /\ a.result = "accepted" =>
                                 \E reviews \in SUBSET AcceptedReviews :
                                     Promise!RestsOn(VerdictIn(aggregates[out]), reviews)
    BY DEF Rested
  <2> QED BY AboutWhole, VerdictRests DEF Justified
<1>3. IInv /\ IInv' /\ Rested' /\ [Next]_vars => [Promise!Next]_(Promise!promiseVars)
  <2> SUFFICES ASSUME IInv, IInv', Rested', [Next]_vars
               PROVE  [Promise!Next]_(Promise!promiseVars)
    OBVIOUS
  <2> QED BY PromiseStep DEF Promise!Next, Promise!promiseVars
<1> QED BY <1>1, <1>2, <1>3, Invariance, PTL DEF Spec, RefinesPromise, Promise!Spec
=============================================================================
