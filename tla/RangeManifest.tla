--------------------------- MODULE RangeManifest ---------------------------
(***************************************************************************)
(* Freezing a Git range for review (src/src/reviewctl/range_review.py,     *)
(* build_range_manifest, and write_range_manifest of cli.py).              *)
(*                                                                         *)
(* The canonical diff is a sequence of file sections.  They are packed, in *)
(* order, into chunks of at most limit bytes, each of which one reviewer   *)
(* is shown; a manifest holds the chunks, and the digest of the diff they  *)
(* come from.  Whatever no reviewer is shown has not been reviewed, so the *)
(* loop may not lose, repeat or reorder a section.                         *)
(*                                                                         *)
(* A digest stands for what it is the digest of, and bytes for the numbers *)
(* of the sections they are: every section names its own file, so no two   *)
(* are alike.  What Git says of the range (commits, merge base, paths) is  *)
(* frozen by commit ids and left out, but for how many paths it names.     *)
(***************************************************************************)
EXTENDS Naturals, Sequences

CONSTANT Ranges     \* the ranges that may be frozen, see RangeAssumption

\* starts: where the sections start in the diff, and its length as the last element;
\* names: how many paths Git names; limit: --max-chunk-bytes; allowEmpty: --allow-empty.
Range == [starts : Seq(Nat), names : Nat, limit : Nat \ {0}, allowEmpty : BOOLEAN]

ASSUME RangeAssumption ==
    /\ Ranges \subseteq Range
    /\ \A r \in Ranges :
           /\ r.starts # << >>
           /\ \A i, j \in 1..Len(r.starts) : i < j => r.starts[i] < r.starts[j]

VARIABLES
    range,      \* the range that is frozen
    phase,      \* "packing", "write", "written" or "refused"
    chunks,     \* chunks: the chunks that are closed
    first,      \* current holds the sections from first
    next,       \*   to next - 1; next is the section the loop is at
    size,       \* current_size
    file        \* the manifest file

builder == <<range, phase, chunks, first, next, size>>
manifestVars == <<builder, file>>

-----------------------------------------------------------------------------
(* Manifests.                                                              *)

Sections == 1..(Len(range.starts) - 1)

\* The bytes of the sections from one to another.
Bytes(from, to) == range.starts[to + 1] - range.starts[from]

\* Consecutive sections; there are none in a run that ends before its start.
Run(from, to) == [first |-> from, last |-> to]

\* index, and payload: the sections whose bytes are the patch, whose digest is the
\* patch digest and whose paths are the paths of the chunk.
Chunk(index, payload) == [index |-> index, payload |-> payload]

\* chunkCount is the number of chunks.
Manifest(frozen, diff) == [chunks |-> frozen, diff |-> diff]

NoManifest == Manifest(<< >>, Run(0, 0))

\* The payloads one after the other are the bytes of the diff.
Reassembles(frozen, diff) ==
    IF frozen = << >> THEN diff.last < diff.first
    ELSE /\ frozen[1].payload.first = diff.first
         /\ frozen[Len(frozen)].payload.last = diff.last
         /\ \A i \in 1..(Len(frozen) - 1) :
                frozen[i + 1].payload.first = frozen[i].payload.last + 1

\* validate_range_manifest has no violation to report.
ValidManifest(m) ==
    /\ \A i \in 1..Len(m.chunks) : m.chunks[i].index = i - 1
    /\ \A i, j \in 1..Len(m.chunks) : i < j =>
           \/ m.chunks[i].payload.last < m.chunks[j].payload.first
           \/ m.chunks[j].payload.last < m.chunks[i].payload.first
    /\ Reassembles(m.chunks, m.diff)

-----------------------------------------------------------------------------
(* build_range_manifest and the loop of _chunks.                           *)

\* The range is known.  One without changes is refused unless that was asked for, and
\* so is one whose sections are not as many as the paths Git names.
ManifestInit ==
    /\ range \in Ranges
    /\ phase = IF \/ Sections = {} /\ ~range.allowEmpty
                  \/ range.names # Len(range.starts) - 1
               THEN "refused" ELSE "packing"
    /\ chunks = << >>
    /\ first = 1 /\ next = 1 /\ size = 0
    /\ file = NoManifest

\* Seeded fault: flush() does not begin a new chunk at the section that did not fit.
FlushedPast == IF first = next THEN chunks ELSE Append(chunks, Chunk(Len(chunks), Run(first, next)))

\* What flush() makes of chunks.
Flushed ==
    IF first = next THEN chunks
    ELSE Append(chunks, Chunk(Len(chunks), Run(first, next - 1)))

\* The loop has a section left; its bytes.
Reading == phase = "packing" /\ next \in Sections
Length  == Bytes(next, next)

Refuse ==
    /\ Reading
    /\ Length > range.limit
    /\ phase' = "refused"
    /\ UNCHANGED <<range, chunks, first, next, size, file>>

\* The section does not fit: current is closed and the section begins the next chunk.
FlushAndAdd ==
    /\ Reading
    /\ Length <= range.limit
    /\ first < next /\ size + Length > range.limit
    /\ chunks' = Flushed
    /\ first' = next /\ next' = next + 1
    /\ size' = Length
    /\ UNCHANGED <<range, phase, file>>

Add ==
    /\ Reading
    /\ Length <= range.limit
    /\ first = next \/ size + Length <= range.limit
    /\ next' = next + 1
    /\ size' = size + Length
    /\ UNCHANGED <<range, phase, chunks, first, file>>

FlushLast ==
    /\ phase = "packing"
    /\ next \notin Sections
    /\ chunks' = Flushed
    /\ first' = next /\ size' = 0
    /\ phase' = "write"
    /\ UNCHANGED <<range, next, file>>

TheDiff == Run(1, Len(range.starts) - 1)

\* The manifest is written, exclusively, or it cannot be.
WriteManifest ==
    /\ phase = "write"
    /\ \/ file' = Manifest(chunks, TheDiff) /\ phase' = "written"
       \/ UNCHANGED file /\ phase' = "refused"
    /\ UNCHANGED <<range, chunks, first, next, size>>

Freeze == Refuse \/ FlushAndAdd \/ Add \/ FlushLast \/ WriteManifest

ManifestSpec == ManifestInit /\ [][Freeze]_manifestVars
-----------------------------------------------------------------------------
(* Properties.                                                             *)

\* A chunk is never over the limit, and never so small that the section after it
\* would have fitted.
Packed ==
    /\ \A i \in 1..Len(chunks) :
           Bytes(chunks[i].payload.first, chunks[i].payload.last) <= range.limit
    /\ \A i \in 1..(Len(chunks) - 1) :
           Bytes(chunks[i].payload.first, chunks[i].payload.last + 1) > range.limit

\* The chunks that are frozen are the whole diff, once and in order: the manifest
\* passes its own validation (validate_range_manifest), and its chunks are as full as
\* the limit allows (_chunks).
FrozenIsTheDiff ==
    phase \in {"write", "written"} =>
        /\ ValidManifest(Manifest(chunks, TheDiff))
        /\ Packed
=============================================================================
