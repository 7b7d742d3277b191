--------------------------- MODULE PacketAllocator ---------------------------
(***************************************************************************)
(* The pools of Playground/PacketAllocator/main.cpp behind FlexiblePool:   *)
(* a SmallObjectPool, whose chunks keep their free blocks in a list that   *)
(* is threaded through the first byte of the free blocks themselves, and a *)
(* SimplePool, a stack of segments for sizes above 256.  One block size of *)
(* each kind is modelled: FlexiblePool keeps a separate pool per size in   *)
(* flat_maps, and a pool that a flat_map moves keeps its vector's buffer.  *)
(*                                                                         *)
(* Chunks are elements of a vector and are pointed to by mLastAlloc and    *)
(* mLastFree.  A pointer is a generation of the vector's buffer and an     *)
(* index; it dangles when the buffer has another generation.               *)
(***************************************************************************)
EXTENDS Naturals, Sequences, FiniteSets

CONSTANTS Blocks,           \* blocks of a chunk, 255 in the code
          MaxChunks,        \* bound: chunks
          MaxSegments,      \* bound: segments from malloc()
          Null,             \* the null pointer
          Data              \* what the user writes into a block

Addresses == [buffer : 0 .. MaxChunks, at : 1 .. MaxChunks]

\* A link is an index or one past the last; user data looks like neither here.
PacketAllocatorParameters ==
    /\ Blocks \in Nat \ {0}
    /\ MaxChunks \in Nat \ {0}
    /\ MaxSegments \in Nat
    /\ Null \notin Addresses
    /\ Data \notin 0 .. Blocks

VARIABLES mChunks,
          buffer,           \* generation of the buffer of mChunks
          mLastAlloc, mLastFree,
          blocks,           \* the blocks in use: chunk number and index
          mSegments,        \* free segments, numbered as they are malloc'ed
          segments,         \* the segments in use
          mallocs,          \* how many segments there are
          invalid           \* a dangling pointer was followed

small == <<mChunks, buffer, mLastAlloc, mLastFree, blocks>>
large == <<mSegments, segments, mallocs>>
vars == <<small, large, invalid>>

Index == 0 .. Blocks - 1
Chunk == [mFirstFreeBlock : 0 .. Blocks, mNumFreeBlocks : 0 .. Blocks,
          mData : [Index -> 0 .. Blocks \cup {Data}]]
ChunkPointers == Addresses \cup {Null}

TypeOK ==
    /\ mChunks \in Seq(Chunk) /\ Len(mChunks) <= MaxChunks
    /\ buffer \in 0 .. MaxChunks
    /\ mLastAlloc \in ChunkPointers
    /\ mLastFree \in ChunkPointers
    /\ blocks \subseteq (1 .. MaxChunks) \X Index
    /\ mallocs \in 0 .. MaxSegments
    /\ mSegments \in Seq(1 .. mallocs)
    /\ segments \subseteq 1 .. mallocs
    /\ invalid \in BOOLEAN

Init ==
    /\ mChunks = << >> /\ buffer = 0
    /\ mLastAlloc = Null /\ mLastFree = Null
    /\ blocks = {}
    /\ mSegments = << >> /\ segments = {} /\ mallocs = 0
    /\ invalid = FALSE
-----------------------------------------------------------------------------
(* Chunk *)

NewChunk == [mFirstFreeBlock |-> 0, mNumFreeBlocks |-> Blocks,
             mData |-> [i \in Index |-> i + 1]]

isFull(chunk) == chunk.mNumFreeBlocks = 0

\* Chunk::allocate(): the first block leaves the list; then the user writes.
WithoutFirst(chunk) ==
    [mFirstFreeBlock |-> chunk.mData[chunk.mFirstFreeBlock],
     mNumFreeBlocks  |-> chunk.mNumFreeBlocks - 1,
     mData           |-> [chunk.mData EXCEPT ![chunk.mFirstFreeBlock] = Data]]

\* Mutation: the block is linked to its neighbour, as in a new chunk.
WithNeighbour(chunk, i) ==
    [mFirstFreeBlock |-> i,
     mNumFreeBlocks  |-> chunk.mNumFreeBlocks + 1,
     mData           |-> [chunk.mData EXCEPT ![i] = i + 1]]

\* Chunk::deallocate()
WithFirst(chunk, i) ==
    [mFirstFreeBlock |-> i,
     mNumFreeBlocks  |-> chunk.mNumFreeBlocks + 1,
     mData           |-> [chunk.mData EXCEPT ![i] = chunk.mFirstFreeBlock]]
-----------------------------------------------------------------------------
(* SmallObjectPool *)

PointTo(k, generation) == [buffer |-> generation, at |-> k]
Dangles(p) == p # Null /\ p.buffer # buffer

\* findAvailableChunk(): mLastAlloc, or else the first chunk that is not full.
NotFull == {k \in DOMAIN mChunks : ~isFull(mChunks[k])}
findAvailableChunk ==
    IF mLastAlloc.at \in NotFull
      THEN mLastAlloc.at
      ELSE CHOOSE k \in NotFull : \A j \in NotFull : k <= j

\* A vector of capacity 1, 2, 4, ... gets a new buffer when it is full.
Reallocates == \E n \in 0 .. MaxChunks : Len(mChunks) = 2 ^ n

AllocateIn(chunks, k) ==
    /\ mChunks' = [chunks EXCEPT ![k] = WithoutFirst(@)]
    /\ blocks' = blocks \cup {<<k, chunks[k].mFirstFreeBlock>>}

\* allocate() on an empty pool: init().
AllocateFirst ==
    /\ mChunks = << >>
    /\ buffer' = 1
    /\ mLastAlloc' = PointTo(1, 1) /\ mLastFree' = PointTo(1, 1)
    /\ AllocateIn(<< NewChunk >>, 1)
    /\ UNCHANGED <<large, invalid>>

AllocateFromChunk ==
    /\ mChunks # << >>
    /\ NotFull # {}
    /\ AllocateIn(mChunks, findAvailableChunk)
    /\ mLastAlloc' = PointTo(findAvailableChunk, buffer)
    /\ invalid' = Dangles(mLastAlloc)
    /\ UNCHANGED <<buffer, mLastFree, large>>

AllocateFromNewChunk ==
    /\ mChunks # << >>
    /\ NotFull = {}
    /\ Len(mChunks) < MaxChunks
    /\ buffer' = IF Reallocates THEN buffer + 1 ELSE buffer
    /\ AllocateIn(Append(mChunks, NewChunk), Len(mChunks) + 1)
    /\ mLastFree' = Null
    /\ mLastAlloc' = PointTo(Len(mChunks) + 1, buffer')
    /\ invalid' = Dangles(mLastAlloc)
    /\ UNCHANGED large

\* deallocate(): mLastFree if it contains the block, or else the chunk that
\* does, which becomes mLastFree.
Deallocate(k, i) ==
    /\ mLastFree' = IF mLastFree # Null /\ mLastFree.at = k
                      THEN mLastFree ELSE PointTo(k, buffer)
    /\ mChunks' = [mChunks EXCEPT ![k] = WithFirst(@, i)]
    /\ blocks' = blocks \ {<<k, i>>}
    /\ invalid' = Dangles(mLastFree)
    /\ UNCHANGED <<buffer, mLastAlloc, large>>
-----------------------------------------------------------------------------
(* SimplePool *)

AllocateSegment ==
    /\ IF mSegments = << >>
         THEN /\ mallocs < MaxSegments
              /\ mallocs' = mallocs + 1
              /\ segments' = segments \cup {mallocs + 1}
              /\ UNCHANGED mSegments
         ELSE /\ segments' = segments \cup {mSegments[Len(mSegments)]}
              /\ mSegments' = SubSeq(mSegments, 1, Len(mSegments) - 1)
              /\ UNCHANGED mallocs
    /\ UNCHANGED <<small, invalid>>

DeallocateSegment(s) ==
    /\ mSegments' = Append(mSegments, s)
    /\ segments' = segments \ {s}
    /\ UNCHANGED <<small, mallocs, invalid>>
-----------------------------------------------------------------------------
\* FlexiblePool; callers give back only what they have been given.
Next == /\ ~invalid
        /\ \/ AllocateFirst \/ AllocateFromChunk \/ AllocateFromNewChunk
           \/ \E b \in blocks : Deallocate(b[1], b[2])
           \/ AllocateSegment
           \/ \E s \in segments : DeallocateSegment(s)

Spec == Init /\ [][Next]_vars
-----------------------------------------------------------------------------
(* Properties *)

\* The n-th block of the list that starts in mFirstFreeBlock.
FreeList(chunk) ==
    LET at[n \in 1 .. Blocks] ==
            IF n = 1 THEN chunk.mFirstFreeBlock ELSE chunk.mData[at[n - 1]]
    IN  [n \in 1 .. chunk.mNumFreeBlocks |-> at[n]]

\* The list inside the free blocks lists every block that is not in use once,
\* whatever users have written into blocks meanwhile; the segments that are
\* free and those in use are all there are, and none is both.
FreeListsExact ==
    /\ \A k \in DOMAIN mChunks :
         LET list == FreeList(mChunks[k])
             free == {i \in Index : <<k, i>> \notin blocks}
         IN  Len(list) = Cardinality(free) /\ {list[n] : n \in DOMAIN list} = free
    /\ Len(mSegments) + Cardinality(segments) = mallocs
    /\ {mSegments[n] : n \in DOMAIN mSegments} \cup segments = 1 .. mallocs

\* Neither mLastAlloc nor mLastFree outlives the buffer it points into, and
\* mLastAlloc is never null when it is followed.
PointersFollowTheVector ==
    /\ ~invalid
    /\ mChunks # << >> => mLastAlloc # Null /\ ~Dangles(mLastAlloc)
    /\ ~Dangles(mLastFree)
=============================================================================
