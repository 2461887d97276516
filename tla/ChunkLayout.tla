----------------------------- MODULE ChunkLayout -----------------------------
(***************************************************************************)
(* How a file is cut into chunks (server/transfer/src/session.rs).  All    *)
(* chunks have the chunk size but the last, which has what is left; a      *)
(* file without bytes has no chunks.  Sizes are u64, and the division that *)
(* rounds up adds before it divides.                                       *)
(***************************************************************************)
EXTENDS Naturals

CONSTANTS
    ChunkSize,  \* bytes of a chunk
    SizeLimit   \* 2^64, where the sizes of files wrap

ASSUME LayoutAssumption ==
    /\ ChunkSize \in Nat \ {0}
    /\ SizeLimit \in Nat
    /\ ChunkSize < SizeLimit

\* The sizes a u64 holds, and those for which the sum below does not wrap.
Sizes     == 0 .. SizeLimit - 1
SafeSizes == {size \in Sizes : size + ChunkSize <= SizeLimit}

\* Mutant: divides without rounding up.
TotalChunksRoundedDown(size) == size \div ChunkSize

\* compute_chunk_layout: the number of chunks and the size of the last one.
\* An overflow wraps in a release build; a debug build panics.
TotalChunks(size) ==
    IF size = 0 THEN 0 ELSE ((size + ChunkSize - 1) % SizeLimit) \div ChunkSize

LastChunkSize(size) ==
    IF size = 0 THEN 0
    ELSE IF size % ChunkSize = 0 THEN ChunkSize ELSE size % ChunkSize

ChunkOffset(index) == index * ChunkSize

ChunksOf(size) == {i \in 0 .. TotalChunks(size) : i < TotalChunks(size)}

\* The bytes read or sent for a chunk; an index that the file does not have
\* is taken for a full chunk.
ChunkLength(size, index) ==
    IF index + 1 = TotalChunks(size) THEN LastChunkSize(size) ELSE ChunkSize

\* The chunks lie in the file, and every byte of it is in exactly one.
Tiles(size) ==
    LET Within(byte, i) ==
            ChunkOffset(i) <= byte /\ byte < ChunkOffset(i) + ChunkLength(size, i)
    IN  /\ \A i \in ChunksOf(size) : ChunkOffset(i) + ChunkLength(size, i) <= size
        /\ \A byte \in Sizes :
             byte < size =>
               \E i \in ChunksOf(size) :
                 /\ Within(byte, i)
                 /\ \A j \in ChunksOf(size) : Within(byte, j) => j = i

\* The layout is right for every size whose sum does not wrap, which leaves
\* out the last ChunkSize - 1 sizes of a u64: those get no chunk at all.
LayoutTiles ==
    /\ \A size \in SafeSizes : Tiles(size)
    /\ \A size \in Sizes \ SafeSizes : size > SizeLimit - ChunkSize /\ ChunksOf(size) = {}
=============================================================================
