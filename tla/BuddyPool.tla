----------------------------- MODULE BuddyPool -----------------------------
(***************************************************************************)
(* The buddy allocator of Playground/BuddyPool/main.cpp.  The template     *)
(* BuddyPool<BlockSize, MaxBlockSize, BlockCount> derives from the one     *)
(* with blocks twice as large, down to a Pool of the largest blocks: one   *)
(* level per block size, level 0 the smallest.  A set bit of a level's     *)
(* mBitset is a free block of that level.  Below the top level a block is  *)
(* only ever listed while its buddy is in use or split.                    *)
(*                                                                         *)
(* Offsets and sizes are counted in units of the smallest block (16 bytes  *)
(* in the code).  do_allocate() and deallocate() recurse towards the top   *)
(* level; what the recursion does to the levels it passes is stated for    *)
(* all of them at once.                                                    *)
(***************************************************************************)
EXTENDS Integers, FiniteSets

CONSTANTS Levels,           \* number of block sizes
          TopBlocks,        \* blocks of the largest size, 64 in the code
          MaxSize,          \* largest n given to allocate()
          MaxHeap           \* bound: blocks from operator new at a time

\* What the definitions take for granted.
BuddyPoolParameters ==
    /\ Levels \in Nat \ {0}
    /\ TopBlocks \in Nat \ {0}
    /\ MaxSize \in Nat \ {0}
    /\ MaxHeap \in Nat

VARIABLES mBitset,          \* per level: the indices of the set bits
          live,             \* blocks handed out: offset and size asked for
          heap,             \* blocks of operator new: how many are live
          failed            \* the call in which an assertion has failed

vars == <<mBitset, live, heap, failed>>

Level == 0 .. Levels - 1
Top   == Levels - 1

\* BuddyPool derives from the one with blocks twice as large and half as many.
BlockSize[l \in Level] == IF l = 0 THEN 1 ELSE 2 * BlockSize[l - 1]
MaxBlockSize  == BlockSize[Top]
BlockCount(l) == TopBlocks * BlockSize[Top - l]
Offsets == 0 .. BlockCount(0) - 1

\* nextpow2(n), and 16 for what is smaller: the level whose blocks fit n.
LevelOf(n) == CHOOSE l \in Level :
                  /\ n <= BlockSize[l]
                  /\ \A k \in Level : k < l => BlockSize[k] < n

TypeOK ==
    /\ mBitset \in [Level -> SUBSET Offsets]
    /\ \A l \in Level : mBitset[l] \subseteq 0 .. BlockCount(l) - 1
    /\ live \subseteq [offset : Offsets, size : 1 .. MaxBlockSize]
    /\ heap \in 0 .. MaxHeap
    /\ failed \in {"no", "allocate", "deallocate"}

\* Mutation: the constructor sets one bit too many.
InitOneTooMany ==
    /\ mBitset = [l \in Level |-> IF l = Top THEN 0 .. TopBlocks ELSE {}]
    /\ live = {}
    /\ heap = 0
    /\ failed = "no"

\* Bitset<N> zero-initialises its blocks; Pool's constructor sets all bits.
Init ==
    /\ mBitset = [l \in Level |-> IF l = Top THEN 0 .. TopBlocks - 1 ELSE {}]
    /\ live = {}
    /\ heap = 0
    /\ failed = "no"
-----------------------------------------------------------------------------
(* allocate(n) *)

\* The first level from l upwards that has a free block.
HasFree(l) == \E k \in l .. Top : mBitset[k] # {}
FirstFree(l) == CHOOSE k \in l .. Top :
                    /\ mBitset[k] # {}
                    /\ \A j \in l .. Top : j < k => mBitset[j] = {}

\* Bitset::allocate(): the lowest set bit.
Lowest(bits) == CHOOSE i \in bits : \A j \in bits : i <= j

\* The recursion finds a block on level m; on its way back every level below
\* m keeps the upper half of what its parent returned: bit offset/size + 1.
TakeBlock(n) ==
    LET l      == LevelOf(n)
        m      == FirstFree(l)
        index  == Lowest(mBitset[m])
        offset == index * BlockSize[m]
    IN  /\ mBitset' = [k \in Level |->
                CASE k = m             -> mBitset[k] \ {index}
                  [] k \in l .. m - 1  ->
                         mBitset[k] \cup {offset \div BlockSize[k] + 1}
                  [] OTHER             -> mBitset[k]]
        /\ live' = live \cup {[offset |-> offset, size |-> n]}

Allocate(n) ==
    /\ n <= MaxBlockSize
    /\ HasFree(LevelOf(n))
    /\ TakeBlock(n)
    /\ UNCHANGED <<heap, failed>>

\* Nothing is left: the top level returns a null pointer.  A caller gets it
\* if it asked for the largest size; on any other level the offset of the
\* null pointer selects a bit out of range (assertion in get_block).
Exhausted(n) ==
    /\ n <= MaxBlockSize
    /\ ~HasFree(LevelOf(n))
    /\ failed' = IF LevelOf(n) < Top THEN "allocate" ELSE "no"
    /\ UNCHANGED <<mBitset, live, heap>>

\* Larger requests go to operator new.
FallbackNew(n) ==
    /\ n > MaxBlockSize
    /\ heap < MaxHeap
    /\ heap' = heap + 1
    /\ UNCHANGED <<mBitset, live, failed>>
-----------------------------------------------------------------------------
(* deallocate(ptr, n) *)

Buddy(index) == IF index % 2 = 0 THEN index + 1 ELSE index - 1

\* Merging goes on while the buddy is free, and ends at the top level.
MergesAt(offset, k) ==
    k < Top /\ Buddy(offset \div BlockSize[k]) \in mBitset[k]

\* Mutation: blocks are never merged.
NeverMerge(l, offset) == l

LastLevel(l, offset) ==
    CHOOSE m \in l .. Top : /\ ~MergesAt(offset, m)
                            /\ \A k \in l .. m - 1 : MergesAt(offset, k)

Deallocate(block) ==
    LET l == LevelOf(block.size)
        m == LastLevel(l, block.offset)
        index(k) == block.offset \div BlockSize[k]
    IN  /\ mBitset' = [k \in Level |->
                CASE k = m            -> mBitset[k] \cup {index(k)}
                  [] k \in l .. m - 1 -> mBitset[k] \ {Buddy(index(k))}
                  [] OTHER            -> mBitset[k]]
        /\ live' = live \ {block}
        \* assert(!mBitset.get(...)) on every level passed
        /\ failed' = IF \E k \in l .. m : index(k) \in mBitset[k]
                      THEN "deallocate" ELSE "no"
        /\ UNCHANGED heap

\* A pointer outside of the pool's array goes to operator delete.
FallbackDelete ==
    /\ heap > 0
    /\ heap' = heap - 1
    /\ UNCHANGED <<mBitset, live, failed>>
-----------------------------------------------------------------------------
Next == /\ failed = "no"
        /\ \/ \E n \in 1 .. MaxSize :
                  Allocate(n) \/ Exhausted(n) \/ FallbackNew(n)
           \/ \E block \in live : Deallocate(block)
           \/ FallbackDelete

Spec == Init /\ [][Next]_vars
-----------------------------------------------------------------------------
(* Properties *)

\* The units covered by a block of level l with the given index.
Units(l, index) == index * BlockSize[l] .. (index + 1) * BlockSize[l] - 1

LiveUnits(b) == Units(LevelOf(b.size), b.offset \div BlockSize[LevelOf(b.size)])
FreeBlocks == {f \in Level \X Offsets : f[2] \in mBitset[f[1]]}

\* Every unit of memory is in exactly one block, free or handed out: nothing
\* is handed out twice and nothing is leaked, through any splits and merges.
Tiled ==
    \A unit \in Offsets :
        Cardinality({b \in live : unit \in LiveUnits(b)})
          + Cardinality({f \in FreeBlocks : unit \in Units(f[1], f[2])}) = 1

\* A request is refused only when it really cannot be satisfied, that is when
\* no aligned block of its size is free of live blocks: the history of splits
\* and merges never costs anything.
Full(l) == \A i \in 0 .. BlockCount(l) - 1 :
               \E b \in live : LiveUnits(b) \cap Units(l, i) # {}

RefusedOnlyWhenFull == \A l \in Level : ~HasFree(l) => Full(l)

\* An assertion fails in one case only: allocate() is asked for less than a
\* largest block and there is no room for that anywhere.  Giving back what was
\* handed out never runs into a bit that is set already.
FailsOnlyWhenFull ==
    /\ failed # "deallocate"
    /\ failed = "allocate" => \E l \in Level \ {Top} : Full(l)
=============================================================================
