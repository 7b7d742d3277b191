---------------------------- MODULE MCSequential ----------------------------
(* The components that have one thread and hard data structures: the timer    *)
(* wheel, three allocators and the lock-order checker.  Every behaviour uses  *)
(* one of them, chosen in SequentialInit; the others rest in their initial    *)
(* states.                                                                    *)
EXTENDS TimerWheel

CONSTANTS Levels, TopBlocks, MaxSize, MaxHeap,            \* BuddyPool
          Capacity, Wrap, MaxPosted,                      \* TaskStorage
          Blocks, MaxChunks, MaxSegments, Null, Data,     \* PacketAllocator
          Mutexes, None, MaxHeld                          \* LockOrderChecker

VARIABLES used,
          mBitset, live, heap, failed,
          mAllocated, mFreed, mLocalStorages, mTasks, posted, locals, ran,
          overwritten, asserted,
          mChunks, buffer, mLastAlloc, mLastFree, blocks, mSegments, segments,
          mallocs, invalid,
          mRootNode, mNodes, children, mLastNodes, detected, nested

buddies == <<mBitset, live, heap, failed>>
ring    == <<mAllocated, mFreed, mLocalStorages, mTasks, posted, locals, ran,
             overwritten, asserted>>
chunks  == <<mChunks, buffer, mLastAlloc, mLastFree, blocks, mSegments,
             segments, mallocs, invalid>>
locks   == <<mRootNode, mNodes, children, mLastNodes, detected, nested>>

Buddies == INSTANCE BuddyPool
Ring    == INSTANCE TaskStorage WITH failed <- asserted
Chunks  == INSTANCE PacketAllocator
Locks   == INSTANCE LockOrderChecker

ASSUME SequentialParameters ==
    /\ Buddies!BuddyPoolParameters
    /\ Ring!TaskStorageParameters
    /\ Chunks!PacketAllocatorParameters
    /\ Locks!LockOrderParameters

SequentialInit ==
    /\ used \in {"wheel", "buddies", "ring", "chunks", "locks"}
    /\ Init /\ Buddies!Init /\ Ring!Init /\ Chunks!Init /\ Locks!Init

SequentialNext == \/ /\ used = "wheel" /\ Next
                     /\ UNCHANGED <<used, buddies, ring, chunks, locks>>
                  \/ /\ used = "buddies" /\ Buddies!Next
                     /\ UNCHANGED <<used, vars, ring, chunks, locks>>
                  \/ /\ used = "ring" /\ Ring!Next
                     /\ UNCHANGED <<used, vars, buddies, chunks, locks>>
                  \/ /\ used = "chunks" /\ Chunks!Next
                     /\ UNCHANGED <<used, vars, buddies, ring, locks>>
                  \/ /\ used = "locks" /\ Locks!Next
                     /\ UNCHANGED <<used, vars, buddies, ring, chunks>>

SequentialSpec ==
    /\ SequentialInit
    /\ [][SequentialNext]_<<used, vars, buddies, ring, chunks, locks>>

\* The variables of all but the timer wheel, which has a proof, have their types.
AllTypeOK == Buddies!TypeOK /\ Ring!TypeOK /\ Chunks!TypeOK /\ Locks!TypeOK

\* The buddy pool is tiled by blocks, refuses only what it cannot satisfy, and
\* fails an assertion only when it is full.
BuddiesSound == /\ Buddies!Tiled
                /\ Buddies!RefusedOnlyWhenFull
                /\ Buddies!FailsOnlyWhenFull

\* The task ring is safe until its counters have wrapped around, and calls tasks
\* once and in the order of post(), from ring and heap.
RingSound == Ring!OverwrittenOnlyAfterWrap /\ Ring!CalledInPostOrder

\* The free lists of the packet allocator list exactly what is free, and it
\* follows no pointer into a vector that has moved.
PoolsSound == Chunks!FreeListsExact /\ Chunks!PointersFollowTheVector

\* The lock-order checker reports the inconsistencies it can reach, and no
\* others.
ReportsWhatRootReaches == used = "locks" => Locks!ReportsWhatRootReaches
=============================================================================
