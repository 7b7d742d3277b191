---------------------------- MODULE TaskStorage ----------------------------
(***************************************************************************)
(* The scheduler of Playground/TaskStorage/main.cpp, which keeps small     *)
(* tasks in a ring of Capacity slots and big ones on the heap.  post()     *)
(* runs everything when the ring is full; `full' is alloc - freed ==       *)
(* Capacity, where both counters are 16 bits wide and the subtraction is   *)
(* done in int: it does not wrap around, but the counters do.              *)
(*                                                                         *)
(* Tasks are numbered in the order of post().  They do not post tasks.     *)
(***************************************************************************)
EXTENDS Integers, Sequences, FiniteSets

CONSTANTS Capacity,         \* slots, 64 in the code
          Wrap,             \* the counters count modulo Wrap, 2^16 in the code
          MaxPosted         \* bound: calls of post()

\* The code's slots divide the counters' range, so that slots are taken in turn
\* when mAllocated wraps around, too.
TaskStorageParameters ==
    /\ Capacity \in Nat \ {0}
    /\ Wrap \in Nat \ {0} /\ Wrap % Capacity = 0
    /\ MaxPosted \in Nat

VARIABLES mAllocated, mFreed,
          mLocalStorages,   \* per slot: the number of the task in it, or 0
          mTasks,           \* pointers: to a slot, or to a task on the heap
          posted,           \* how many tasks have been posted
          locals,           \* history: how many of them were small
          ran,              \* history: the tasks in the order they are called
          overwritten,      \* a task was constructed on top of another one
          failed            \* an assertion of Create() has failed

vars == <<mAllocated, mFreed, mLocalStorages, mTasks, posted, locals, ran,
          overwritten, failed>>

Slots == 0 .. Capacity - 1
Pointers == [local : {TRUE}, at : Slots] \cup [local : {FALSE}, at : Nat]

TypeOK ==
    /\ mAllocated \in 0 .. Wrap - 1
    /\ mFreed \in 0 .. Wrap - 1
    /\ mLocalStorages \in [Slots -> 0 .. posted]
    /\ mTasks \in Seq(Pointers)
    /\ posted \in 0 .. MaxPosted
    /\ locals \in 0 .. posted
    /\ ran \in Seq(1 .. posted)
    /\ overwritten \in BOOLEAN
    /\ failed \in BOOLEAN

Init ==
    /\ mAllocated = 0 /\ mFreed = 0
    /\ mLocalStorages = [s \in Slots |-> 0]
    /\ mTasks = << >>
    /\ posted = 0 /\ locals = 0
    /\ ran = << >>
    /\ overwritten = FALSE /\ failed = FALSE

\* The task behind a pointer.
Target(p) == IF p.local THEN mLocalStorages[p.at] ELSE p.at

-----------------------------------------------------------------------------
\* Mutation of Full: the ring is taken for full one task too late.
FullTooLate == mAllocated - mFreed = Capacity + 1
-----------------------------------------------------------------------------
\* run() calls and disposes of everything in mTasks, oldest first; only tasks
\* in slots count as freed.
Called == [i \in DOMAIN mTasks |-> Target(mTasks[i])]
FreedByRun ==
    (mFreed + Cardinality({i \in DOMAIN mTasks : mTasks[i].local})) % Wrap

Full == mAllocated - mFreed = Capacity

\* Create() constructs the task in the slot of mAllocated, post() lists it.
\* The tasks before it are still there, or have been run by run().
PlaceInSlot(storages, tasks) ==
    LET slot == mAllocated % Capacity
    IN  /\ mLocalStorages' = [storages EXCEPT ![slot] = posted + 1]
        /\ overwritten' = (storages[slot] # 0)
        /\ mTasks' = Append(tasks, [local |-> TRUE, at |-> slot])
        /\ mAllocated' = (mAllocated + 1) % Wrap
        /\ posted' = posted + 1
        /\ locals' = locals + 1

PostSmall ==
    /\ posted < MaxPosted
    /\ ~Full
    /\ PlaceInSlot(mLocalStorages, mTasks)
    /\ UNCHANGED <<mFreed, ran, failed>>

\* assert(s.mFreed > freed), assert(s.mAllocated == alloc) after run()
PostSmallWhenFull ==
    /\ posted < MaxPosted
    /\ Full
    /\ ran' = ran \o Called
    /\ mFreed' = FreedByRun
    /\ failed' = ~(mFreed' > mFreed)
    /\ PlaceInSlot([s \in Slots |-> 0], << >>)

\* Too big for a slot: new.
PostBig ==
    /\ posted < MaxPosted
    /\ mTasks' = Append(mTasks, [local |-> FALSE, at |-> posted + 1])
    /\ posted' = posted + 1
    /\ UNCHANGED <<mAllocated, mFreed, mLocalStorages, locals, ran,
                   overwritten, failed>>

Run ==
    /\ mTasks # << >>
    /\ ran' = ran \o Called
    /\ mFreed' = FreedByRun
    /\ mTasks' = << >>
    /\ mLocalStorages' = [s \in Slots |-> 0]
    /\ UNCHANGED <<mAllocated, posted, locals, overwritten, failed>>

\* Nothing can be said of what happens after a task has been overwritten: it
\* is never called, and the one on top of it is called and destroyed twice.
Next == /\ ~overwritten /\ ~failed
        /\ PostSmall \/ PostSmallWhenFull \/ PostBig \/ Run

Spec == Init /\ [][Next]_vars
-----------------------------------------------------------------------------
(* Properties *)

\* The ring is safe until mAllocated has wrapped around and mFreed has not:
\* `full' cannot be seen then, and a task may be constructed on top of one
\* that still waits.  The assertions of Create() never notice.
OverwrittenOnlyAfterWrap == /\ overwritten => locals > Wrap
                            /\ ~failed

\* Small and big tasks, from the ring and from the heap, are called in the
\* order of post(), each once, and those not yet called are all still there.
CalledInPostOrder ==
    ~overwritten => ran \o Called = [i \in 1 .. posted |-> i]
=============================================================================
