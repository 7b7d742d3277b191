-------------------------- MODULE SequentialProofs --------------------------
(* Theorems about the components with one thread that MCSequential puts      *)
(* together, the timer wheel apart, which has a module of its own.           *)
EXTENDS MCSequential, RunningTotals, SequenceTheorems, FiniteSetTheorems, TLAPS

(***************************************************************************)
(* TaskStorage: Ring                                                       *)
(***************************************************************************)

LEMMA RingConstants ==
    /\ Capacity \in Nat \ {0}
    /\ Wrap \in Nat \ {0} /\ Wrap % Capacity = 0
    /\ MaxPosted \in Nat
BY SequentialParameters DEF Ring!TaskStorageParameters

\* The tasks that wait in slots, by their places in a list of pointers.
LocalIn(tasks) == {i \in DOMAIN tasks : tasks[i].local}
Waiting == Cardinality(LocalIn(mTasks))

\* As long as no task has been overwritten, the counters are the number of
\* small tasks posted and run, modulo Wrap; there are at most Capacity between
\* them, and they are in the slots before mAllocated.
CountersCount ==
    /\ Waiting \in 0 .. Capacity /\ Waiting <= locals
    /\ mAllocated = locals % Wrap
    /\ mFreed = (locals - Waiting) % Wrap

SlotOf(n) == n % Capacity
SlotsBefore(n, k) == {SlotOf(n - j) : j \in 1 .. k}
OccupiedSlots == {s \in Ring!Slots : mLocalStorages[s] # 0}

LEMMA OneSlotMore ==
    ASSUME NEW n \in Int, NEW k \in Nat
    PROVE  SlotsBefore(n + 1, k + 1) = SlotsBefore(n, k) \cup {SlotOf(n)}
<1>1. ASSUME NEW j \in 1 .. k + 1
      PROVE  SlotOf(n + 1 - j) \in SlotsBefore(n, k) \cup {SlotOf(n)}
  <2>1. CASE j = 1
    <3>1. n + 1 - j = n
      BY <2>1
    <3> QED
      BY <3>1
  <2>2. CASE j # 1
    <3>1. j - 1 \in 1 .. k /\ n + 1 - j = n - (j - 1)
      BY <2>2
    <3> QED
      BY <3>1 DEF SlotsBefore
  <2> QED
    BY <2>1, <2>2
<1>2. ASSUME NEW j \in 1 .. k
      PROVE  SlotOf(n - j) \in SlotsBefore(n + 1, k + 1)
  <2>1. j + 1 \in 1 .. k + 1 /\ n - j = n + 1 - (j + 1)
    OBVIOUS
  <2> QED
    BY <2>1 DEF SlotsBefore
<1>3. SlotOf(n) \in SlotsBefore(n + 1, k + 1)
  <2>1. 1 \in 1 .. k + 1 /\ n = n + 1 - 1
    OBVIOUS
  <2> QED
    BY <2>1 DEF SlotsBefore
<1>4. \A s \in SlotsBefore(n + 1, k + 1) : s \in SlotsBefore(n, k) \cup {SlotOf(n)}
  BY <1>1 DEF SlotsBefore
<1>5. \A s \in SlotsBefore(n, k) : s \in SlotsBefore(n + 1, k + 1)
  BY <1>2 DEF SlotsBefore
<1> QED
  BY <1>3, <1>4, <1>5

\* Tasks have been called, and will be called, in the order of post().
CalledAndToBeCalled ==
    /\ Len(ran) + Len(mTasks) = posted
    /\ \A i \in 1 .. Len(ran) : ran[i] = i
    /\ \A i \in 1 .. Len(mTasks) : Ring!Target(mTasks[i]) = Len(ran) + i

RingInv ==
    /\ Ring!TypeOK
    /\ Ring!OverwrittenOnlyAfterWrap
    /\ ~overwritten => /\ CountersCount
                       /\ OccupiedSlots = SlotsBefore(locals, Waiting)
                       /\ CalledAndToBeCalled

\* What Append() does to the tasks in slots.
LEMMA LocalInAppend ==
    ASSUME NEW S, NEW tasks \in Seq(S), NEW p \in S, p.local \in BOOLEAN
    PROVE  /\ IsFiniteSet(LocalIn(tasks)) /\ Cardinality(LocalIn(tasks)) \in Nat
           /\ Cardinality(LocalIn(Append(tasks, p))) =
                IF p.local THEN Cardinality(LocalIn(tasks)) + 1
                           ELSE Cardinality(LocalIn(tasks))
<1>1. IsFiniteSet(1 .. Len(tasks)) /\ LocalIn(tasks) \in SUBSET (1 .. Len(tasks))
  BY FS_Interval DEF LocalIn
<1>2. IsFiniteSet(LocalIn(tasks)) /\ Cardinality(LocalIn(tasks)) \in Nat
  BY <1>1, FS_Subset, FS_CardinalityType
<1>3. LocalIn(Append(tasks, p)) =
        IF p.local THEN LocalIn(tasks) \cup {Len(tasks) + 1} ELSE LocalIn(tasks)
  BY DEF LocalIn
<1>4. Len(tasks) + 1 \notin LocalIn(tasks)
  BY <1>1
<1> QED
  BY <1>2, <1>3, <1>4, FS_AddElement

LEMMA RingInit == Ring!Init => RingInv
<1> SUFFICES ASSUME Ring!Init PROVE RingInv
  OBVIOUS
<1> USE DEF Ring!Init
<1>1. Ring!TypeOK
  BY RingConstants DEF Ring!TypeOK, Ring!Slots
<1>2. LocalIn(mTasks) = {}
  BY DEF LocalIn
<1>3. Waiting = 0
  BY <1>2, FS_EmptySet DEF Waiting
<1>4. CountersCount
  BY <1>3, RingConstants, RestsAgree DEF CountersCount
<1>5. OccupiedSlots = SlotsBefore(locals, Waiting)
  BY <1>3 DEF OccupiedSlots, SlotsBefore
<1> QED
  BY <1>1, <1>4, <1>5
  DEF RingInv, Ring!OverwrittenOnlyAfterWrap, CalledAndToBeCalled

\* The slot of mAllocated.
LEMMA NextSlot ==
    ASSUME RingInv, ~overwritten
    PROVE  /\ mAllocated % Capacity = locals % Capacity
           /\ locals % Capacity \in Ring!Slots
           /\ (mAllocated + 1) % Wrap = (locals + 1) % Wrap
           /\ (mAllocated + 1) % Wrap \in 0 .. Wrap - 1
<1>1. locals \in Nat /\ mAllocated = locals % Wrap
  BY DEF RingInv, Ring!TypeOK, CountersCount
<1>2. mAllocated % Capacity = locals % Capacity
  BY <1>1, RingConstants, ModMod
<1>3. (mAllocated + 1) % Wrap = (locals + 1) % Wrap
  BY <1>1, RingConstants, AddMod
<1>4. locals % Capacity \in Ring!Slots
  BY <1>1, RingConstants, Division DEF Ring!Slots
<1>5. (mAllocated + 1) % Wrap \in 0 .. Wrap - 1
  BY <1>1, <1>3, RingConstants, Division
<1> QED
  BY <1>2, <1>3, <1>4, <1>5

\* A ring that is not taken for full has a free slot, unless mAllocated has
\* wrapped around.
LEMMA FreeSlot ==
    ASSUME RingInv, ~overwritten, ~Ring!Full, locals < Wrap
    PROVE  mLocalStorages[locals % Capacity] = 0
<1> DEFINE slot == locals % Capacity
<1>1. /\ locals \in Nat /\ Waiting \in 0 .. Capacity /\ Waiting <= locals
      /\ mAllocated = locals % Wrap /\ mFreed = (locals - Waiting) % Wrap
      /\ OccupiedSlots = SlotsBefore(locals, Waiting)
  BY DEF RingInv, Ring!TypeOK, CountersCount
<1>2. locals - Waiting \in Nat /\ locals - Waiting < Wrap
  BY <1>1, RingConstants
<1>3. mAllocated = locals /\ mFreed = locals - Waiting
  BY <1>1, <1>2, RingConstants, RestsAgree
<1>4. Waiting < Capacity
  BY <1>1, <1>3, RingConstants DEF Ring!Full
<1>5. slot \notin SlotsBefore(locals, Waiting)
  <2> SUFFICES ASSUME NEW j \in 1 .. Waiting, slot = SlotOf(locals - j)
               PROVE  FALSE
    BY DEF SlotsBefore
  <2>1. locals - j \in Nat /\ j \in 1 .. Capacity - 1 /\ (locals - j) + j = locals
    BY <1>1, <1>4, RingConstants
  <2>2. ((locals - j) + j) % Capacity # (locals - j) % Capacity
    BY <2>1, RingConstants, RestsDiffer
  <2> QED
    BY <2>1, <2>2 DEF SlotOf
<1> QED
  BY <1>1, <1>5, NextSlot DEF OccupiedSlots

LEMMA RingPostSmall ==
    ASSUME RingInv, ~overwritten, Ring!PostSmall
    PROVE  RingInv'
<1> DEFINE slot == locals % Capacity
           p == [local |-> TRUE, at |-> slot]
<1>1. /\ locals \in Nat /\ posted \in Nat /\ locals <= posted /\ posted < MaxPosted
      /\ Waiting \in 0 .. Capacity /\ Waiting <= locals
      /\ mFreed = (locals - Waiting) % Wrap
      /\ mLocalStorages \in [Ring!Slots -> 0 .. posted]
      /\ mTasks \in Seq(Ring!Pointers) /\ ran \in Seq(1 .. posted)
      /\ OccupiedSlots = SlotsBefore(locals, Waiting)
      /\ CalledAndToBeCalled /\ asserted = FALSE
  BY RingConstants
  DEF RingInv, Ring!TypeOK, CountersCount, Ring!PostSmall, Ring!OverwrittenOnlyAfterWrap
<1>2. /\ ~Ring!Full
      /\ mLocalStorages' = [mLocalStorages EXCEPT ![slot] = posted + 1]
      /\ overwritten' = (mLocalStorages[slot] # 0)
      /\ mTasks' = Append(mTasks, p)
      /\ mAllocated' = (mAllocated + 1) % Wrap
      /\ posted' = posted + 1 /\ locals' = locals + 1
      /\ UNCHANGED <<mFreed, ran, asserted>>
  BY NextSlot DEF Ring!PostSmall, Ring!PlaceInSlot
<1>3. slot \in Ring!Slots /\ p \in Ring!Pointers
  BY NextSlot DEF Ring!Pointers
<1>4. Ring!TypeOK'
  <2>1. mAllocated' \in 0 .. Wrap - 1 /\ mFreed' \in 0 .. Wrap - 1
    BY <1>2, NextSlot DEF RingInv, Ring!TypeOK
  <2>2. mLocalStorages' \in [Ring!Slots -> 0 .. posted']
    BY <1>1, <1>2, <1>3
  <2>3. mTasks' \in Seq(Ring!Pointers)
    BY <1>1, <1>2, <1>3
  <2>4. ran' \in Seq(1 .. posted')
    BY <1>1, <1>2
  <2>5. posted' \in 0 .. MaxPosted /\ locals' \in 0 .. posted'
    BY <1>1, <1>2, RingConstants
  <2>6. overwritten' \in BOOLEAN
    <3>1. overwritten' = (mLocalStorages[slot] # 0)
      BY <1>2
    <3> QED
      BY <3>1, Zenon
  <2>7. asserted' \in BOOLEAN
    BY <1>1, <1>2
  <2> QED
    BY <2>1, <2>2, <2>3, <2>4, <2>5, <2>6, <2>7 DEF Ring!TypeOK, Ring!Slots, Ring!Pointers
<1>5. Ring!OverwrittenOnlyAfterWrap'
  <2>1. mLocalStorages[slot] # 0 => locals >= Wrap
    BY <1>1, <1>2, RingConstants, FreeSlot
  <2>2. locals >= Wrap => locals' > Wrap
    BY <1>1, <1>2, RingConstants
  <2>3. ~asserted'
    BY <1>1, <1>2
  <2> QED
    BY <1>2, <2>1, <2>2, <2>3 DEF Ring!OverwrittenOnlyAfterWrap
<1>6. ASSUME ~overwritten'
      PROVE  /\ CountersCount'
             /\ (OccupiedSlots = SlotsBefore(locals, Waiting))'
             /\ CalledAndToBeCalled'
  <2>1. mLocalStorages[slot] = 0
    BY <1>2, <1>6
  <2>2. Waiting' = Waiting + 1
    <3>1. p.local \in BOOLEAN /\ p.local
      OBVIOUS
    <3>2. Cardinality(LocalIn(Append(mTasks, p))) = Cardinality(LocalIn(mTasks)) + 1
      <4> HIDE DEF p
      <4> QED
        BY <1>1, <1>3, <3>1, LocalInAppend
    <3> QED
      BY <1>2, <3>2 DEF Waiting, LocalIn
  <2>3. Waiting # Capacity
    <3> SUFFICES ASSUME Waiting = Capacity PROVE FALSE
      OBVIOUS
    <3>1. locals - Capacity \in Nat /\ (locals - Capacity) + Capacity = locals
      BY <1>1, RingConstants
    <3>2. (locals - Capacity) % Capacity = slot
      BY <3>1, RingConstants, RestsAgree
    <3>3. slot \in SlotsBefore(locals, Waiting)
      BY <3>2, RingConstants DEF SlotsBefore, SlotOf
    <3> QED
      BY <1>1, <2>1, <3>3 DEF OccupiedSlots
  <2>4. CountersCount'
    <3>1. locals' - Waiting' = locals - Waiting
      BY <1>1, <1>2, <2>2
    <3> QED
      BY <1>1, <1>2, <2>2, <2>3, <3>1, NextSlot, RingConstants DEF CountersCount
  <2>5. OccupiedSlots' = OccupiedSlots \cup {slot}
    BY <1>1, <1>2, <1>3 DEF OccupiedSlots, Ring!Slots
  <2>6. SlotsBefore(locals + 1, Waiting + 1) = SlotsBefore(locals, Waiting) \cup {slot}
    <3>1. slot = SlotOf(locals)
      BY DEF SlotOf
    <3> QED
      BY <1>1, <3>1, RingConstants, OneSlotMore
  <2>7. SlotsBefore(locals, Waiting)' = SlotsBefore(locals + 1, Waiting + 1)
    BY <1>2, <2>2 DEF SlotsBefore
  <2>8. CalledAndToBeCalled'
    <3>1. Len(mTasks') = Len(mTasks) + 1 /\ Len(mTasks) \in Nat
      BY <1>1, <1>2, <1>3
    <3>2. ASSUME NEW i \in 1 .. Len(mTasks)
          PROVE  Ring!Target(mTasks[i])' = Len(ran) + i /\ mTasks'[i] = mTasks[i]
      <4>1. mTasks'[i] = mTasks[i] /\ mTasks[i] \in Ring!Pointers
        BY <1>1, <1>2, <1>3
      <4>2. Ring!Target(mTasks[i]) = Len(ran) + i /\ Len(ran) + i # 0
        BY <1>1 DEF CalledAndToBeCalled
      <4>3. CASE mTasks[i].local
        <5>1. mLocalStorages[mTasks[i].at] # 0 /\ mTasks[i].at \in Ring!Slots
          BY <4>1, <4>2, <4>3 DEF Ring!Target, Ring!Pointers
        <5>2. mLocalStorages'[mTasks[i].at] = mLocalStorages[mTasks[i].at]
          BY <1>1, <1>2, <2>1, <5>1
        <5> QED
          BY <4>1, <4>2, <4>3, <5>2 DEF Ring!Target
      <4>4. CASE ~mTasks[i].local
        BY <4>1, <4>2, <4>4 DEF Ring!Target
      <4> QED
        BY <4>1, <4>3, <4>4
    <3>3. \A i : i = Len(mTasks) + 1 => Ring!Target(mTasks[i])' = posted + 1
      <4>1. mTasks'[Len(mTasks) + 1] = p
        BY <1>1, <1>2, <1>3
      <4>2. mLocalStorages'[slot] = posted + 1
        BY <1>1, <1>2, <1>3
      <4> QED
        BY <4>1, <4>2 DEF Ring!Target
    <3>4. Len(ran) \in Nat /\ Len(ran) + Len(mTasks) = posted /\ ran' = ran
      <4>1. Len(ran) \in Nat
        BY <1>1
      <4>2. Len(ran) + Len(mTasks) = posted
        BY <1>1 DEF CalledAndToBeCalled
      <4> QED
        BY <1>2, <4>1, <4>2
    <3>5. Len(ran') + Len(mTasks') = posted'
      <4>1. Len(ran') = Len(ran) /\ posted' = posted + 1
        BY <1>2, <3>4
      <4>2. Len(ran) + (Len(mTasks) + 1) = posted + 1
        BY <3>1, <3>4
      <4> QED
        BY <3>1, <4>1, <4>2
    <3>6. \A i \in 1 .. Len(ran') : ran'[i] = i
      BY <1>1, <1>2 DEF CalledAndToBeCalled
    <3>7. ASSUME NEW i \in 1 .. Len(mTasks')
          PROVE  Ring!Target(mTasks[i])' = Len(ran') + i
      <4>1. CASE i \in 1 .. Len(mTasks)
        BY <1>2, <3>2, <4>1
      <4>2. CASE i = Len(mTasks) + 1
        <5>1. Ring!Target(mTasks[i])' = posted + 1
          BY <3>3, <4>2
        <5>2. Len(ran') + i = posted + 1
          BY <3>1, <3>4, <4>2
        <5> QED
          BY <5>1, <5>2
      <4> QED
        BY <3>1, <4>1, <4>2
    <3> QED
      BY <3>5, <3>6, <3>7 DEF CalledAndToBeCalled
  <2> QED
    BY <1>1, <1>2, <2>4, <2>5, <2>6, <2>7, <2>8
<1> QED
  BY <1>4, <1>5, <1>6 DEF RingInv

\* What run() calls is what was to be called.
LEMMA RingCalled ==
    ASSUME RingInv, ~overwritten
    PROVE  /\ ran \o Ring!Called \in Seq(1 .. posted)
           /\ Len(ran \o Ring!Called) = posted
           /\ \A i \in 1 .. posted : (ran \o Ring!Called)[i] = i
<1>1. /\ mTasks \in Seq(Ring!Pointers) /\ ran \in Seq(1 .. posted)
      /\ posted \in Nat /\ CalledAndToBeCalled
  BY RingConstants DEF RingInv, Ring!TypeOK
<1>2. Len(mTasks) \in Nat /\ Len(ran) \in Nat /\ Len(ran) + Len(mTasks) = posted
  BY <1>1 DEF CalledAndToBeCalled
<1>3. \A i \in 1 .. Len(mTasks) : Ring!Target(mTasks[i]) = Len(ran) + i
  BY <1>1 DEF CalledAndToBeCalled
<1>4. Ring!Called = [i \in 1 .. Len(mTasks) |-> Len(ran) + i]
  BY <1>1, <1>3 DEF Ring!Called
<1>5. Ring!Called \in Seq(1 .. posted) /\ Len(Ring!Called) = Len(mTasks)
  <2>1. \A i \in 1 .. Len(mTasks) : Len(ran) + i \in 1 .. posted
    BY <1>2
  <2>2. Ring!Called \in [1 .. Len(mTasks) -> 1 .. posted]
    BY <1>4, <2>1
  <2>3. Ring!Called \in Seq(1 .. posted)
    BY <1>2, <2>2
  <2>4. Len(Ring!Called) = Len(mTasks)
    BY <1>2, <2>2
  <2> QED
    BY <2>3, <2>4
<1> DEFINE called == Ring!Called
<1>6. \A i \in 1 .. Len(mTasks) : called[i] = Len(ran) + i
  BY <1>4
<1>7. \A i \in 1 .. Len(ran) : ran[i] = i
  BY <1>1 DEF CalledAndToBeCalled
<1> HIDE DEF called
<1>8. called \in Seq(1 .. posted) /\ Len(called) = Len(mTasks)
  BY <1>5 DEF called
<1>9. ran \o called \in Seq(1 .. posted) /\ Len(ran \o called) = posted
  <2>1. ran \o called \in Seq(1 .. posted) /\ Len(ran \o called) = Len(ran) + Len(called)
    BY <1>1, <1>8, ConcatProperties
  <2> QED
    BY <1>2, <1>8, <2>1
<1>10. ASSUME NEW i \in 1 .. posted PROVE (ran \o called)[i] = i
  <2>1. CASE i <= Len(ran)
    <3>1. (ran \o called)[i] = ran[i]
      BY <1>1, <1>2, <1>8, <2>1
    <3> QED
      BY <1>2, <1>7, <2>1, <3>1
  <2>2. CASE i > Len(ran)
    <3>1. (ran \o called)[i] = called[i - Len(ran)]
      BY <1>1, <1>2, <1>8, <2>2
    <3>2. i - Len(ran) \in 1 .. Len(mTasks)
      BY <1>2, <2>2
    <3> QED
      BY <1>2, <1>6, <3>1, <3>2
  <2>3. i <= Len(ran) \/ i > Len(ran)
    <3>1. i \in Nat /\ Len(ran) \in Nat
      BY <1>1, <1>2
    <3> QED
      BY <3>1
  <2> QED
    BY <2>1, <2>2, <2>3
<1> QED
  BY <1>9, <1>10 DEF called

\* run() frees as many slots as it has tasks in them: afterwards the counters
\* agree.
LEMMA RingFreed ==
    ASSUME RingInv, ~overwritten
    PROVE  Ring!FreedByRun = locals % Wrap /\ locals % Wrap \in 0 .. Wrap - 1
<1>1. /\ locals \in Nat /\ Waiting \in Nat /\ locals - Waiting \in Nat
      /\ mFreed = (locals - Waiting) % Wrap
  BY RingConstants DEF RingInv, Ring!TypeOK, CountersCount
<1>2. Ring!FreedByRun = (((locals - Waiting) % Wrap) + Waiting) % Wrap
  <2>1. Ring!Cardinality(LocalIn(mTasks)) = Waiting
    BY DEF Waiting, Cardinality, Ring!Cardinality
  <2>2. Ring!FreedByRun = (mFreed + Ring!Cardinality(LocalIn(mTasks))) % Wrap
    BY DEF Ring!FreedByRun, LocalIn
  <2> QED
    BY <1>1, <2>1, <2>2
<1>3. (((locals - Waiting) % Wrap) + Waiting) % Wrap = ((locals - Waiting) + Waiting) % Wrap
  BY <1>1, RingConstants, AddMod
<1>4. (locals - Waiting) + Waiting = locals
  BY <1>1
<1>5. locals % Wrap \in 0 .. Wrap - 1
  BY <1>1, RingConstants, Division
<1> QED
  BY <1>2, <1>3, <1>4, <1>5

LEMMA RingPostSmallWhenFull ==
    ASSUME RingInv, ~overwritten, Ring!PostSmallWhenFull
    PROVE  RingInv'
<1> DEFINE slot == locals % Capacity
           p == [local |-> TRUE, at |-> slot]
           called == ran \o Ring!Called
<1>1. /\ locals \in Nat /\ posted \in Nat /\ locals <= posted /\ posted < MaxPosted
      /\ mAllocated = locals % Wrap /\ mFreed \in Nat
  BY RingConstants
  DEF RingInv, Ring!TypeOK, CountersCount, Ring!PostSmallWhenFull
<1>2. /\ mAllocated - mFreed = Capacity
      /\ ran' = called
      /\ mFreed' = locals % Wrap
      /\ asserted' = ~(mFreed' > mFreed)
      /\ mLocalStorages' = [[s \in Ring!Slots |-> 0] EXCEPT ![slot] = posted + 1]
      /\ overwritten' = ([s \in Ring!Slots |-> 0][slot] # 0)
      /\ mTasks' = Append(<< >>, p)
      /\ mAllocated' = (mAllocated + 1) % Wrap
      /\ posted' = posted + 1 /\ locals' = locals + 1
  BY NextSlot, RingFreed DEF Ring!PostSmallWhenFull, Ring!PlaceInSlot, Ring!Full
<1>3. slot \in Ring!Slots /\ p \in Ring!Pointers
  BY NextSlot DEF Ring!Pointers
<1>4. overwritten' = FALSE
  <2>1. [s \in Ring!Slots |-> 0][slot] = 0
    BY <1>3
  <2> QED
    BY <1>2, <2>1, Zenon
<1>5. mFreed' > mFreed /\ asserted' = FALSE
  <2>1. mFreed' > mFreed
    BY <1>1, <1>2, RingConstants
  <2> QED
    BY <1>2, <2>1, Zenon
<1>6. mTasks' = << p >>
  BY <1>2
<1>7. mLocalStorages' = [s \in Ring!Slots |-> IF s = slot THEN posted + 1 ELSE 0]
  BY <1>2
<1> HIDE DEF called
<1>8. /\ called \in Seq(1 .. posted) /\ Len(called) = posted
      /\ \A i \in 1 .. posted : called[i] = i
  BY RingCalled DEF called
<1>9. Ring!TypeOK'
  <2>1. mAllocated' \in 0 .. Wrap - 1 /\ mFreed' \in 0 .. Wrap - 1
    <3>1. mAllocated' \in 0 .. Wrap - 1
      BY <1>2, NextSlot
    <3>2. mFreed' \in 0 .. Wrap - 1
      BY <1>2, RingFreed
    <3> QED
      BY <3>1, <3>2
  <2>2. mLocalStorages' \in [Ring!Slots -> 0 .. posted']
    <3>1. posted' = posted + 1
      BY <1>2
    <3>2. 0 \in 0 .. posted' /\ posted + 1 \in 0 .. posted'
      BY <1>1, <3>1
    <3> QED
      BY <1>7, <3>2
  <2>3. mTasks' \in Seq(Ring!Pointers)
    BY <1>3, <1>6
  <2>4. ran' \in Seq(1 .. posted')
    BY <1>1, <1>2, <1>8
  <2>5. posted' \in 0 .. MaxPosted /\ locals' \in 0 .. posted'
    BY <1>1, <1>2, RingConstants
  <2> QED
    BY <1>4, <1>5, <2>1, <2>2, <2>3, <2>4, <2>5
    DEF Ring!TypeOK, Ring!Slots, Ring!Pointers
<1>10. Waiting' = 1
  <2>1. LocalIn(mTasks') = {1}
    BY <1>6 DEF LocalIn
  <2> QED
    BY <2>1, FS_Singleton DEF Waiting, LocalIn
<1>11. CountersCount'
  <2>1. locals' - Waiting' = locals
    BY <1>1, <1>2, <1>10
  <2>2. 1 \in 0 .. Capacity /\ 1 <= locals'
    BY <1>1, <1>2, RingConstants
  <2> QED
    BY <1>2, <1>10, <2>1, <2>2, NextSlot DEF CountersCount
<1>12. (OccupiedSlots = SlotsBefore(locals, Waiting))'
  <2>1. OccupiedSlots' = {slot}
    BY <1>1, <1>3, <1>7 DEF OccupiedSlots, Ring!Slots
  <2>2. SlotsBefore(locals + 1, 0 + 1) = SlotsBefore(locals, 0) \cup {SlotOf(locals)}
    BY <1>1, OneSlotMore
  <2>3. SlotsBefore(locals, 0) = {}
    BY DEF SlotsBefore
  <2>4. SlotsBefore(locals + 1, 1) = {slot}
    BY <2>2, <2>3 DEF SlotOf
  <2> QED
    BY <1>2, <1>10, <2>1, <2>4 DEF SlotsBefore
<1>13. CalledAndToBeCalled'
  <2>1. Len(ran') = posted /\ Len(mTasks') = 1 /\ posted' = posted + 1
    BY <1>2, <1>6, <1>8
  <2>2. \A i \in 1 .. Len(ran') : ran'[i] = i
    BY <1>2, <1>8, <2>1
  <2>3. mTasks'[1] = p /\ p.local /\ p.at = slot /\ mLocalStorages'[slot] = posted + 1
    BY <1>3, <1>6, <1>7
  <2>4. \A i \in 1 .. Len(mTasks') : Ring!Target(mTasks[i])' = posted + i
    <3>1. \A i \in 1 .. 1 : i = 1
      OBVIOUS
    <3>2. Ring!Target(mTasks[1])' = posted + 1
      BY <2>3 DEF Ring!Target
    <3> QED
      BY <2>1, <3>1, <3>2
  <2> QED
    BY <2>1, <2>2, <2>4 DEF CalledAndToBeCalled
<1> QED
  BY <1>4, <1>5, <1>9, <1>11, <1>12, <1>13
  DEF RingInv, Ring!OverwrittenOnlyAfterWrap

LEMMA RingPostBig ==
    ASSUME RingInv, ~overwritten, Ring!PostBig
    PROVE  RingInv'
<1> DEFINE p == [local |-> FALSE, at |-> posted + 1]
<1>1. /\ locals \in Nat /\ posted \in Nat /\ locals <= posted /\ posted < MaxPosted
      /\ mLocalStorages \in [Ring!Slots -> 0 .. posted]
      /\ mTasks \in Seq(Ring!Pointers) /\ ran \in Seq(1 .. posted)
      /\ overwritten = FALSE /\ asserted = FALSE
      /\ CalledAndToBeCalled
  BY RingConstants
  DEF RingInv, Ring!TypeOK, Ring!PostBig, Ring!OverwrittenOnlyAfterWrap
<1>2. /\ mTasks' = Append(mTasks, p) /\ posted' = posted + 1
      /\ UNCHANGED <<mAllocated, mFreed, mLocalStorages, locals, ran,
                     overwritten, asserted>>
  BY DEF Ring!PostBig
<1>3. p \in Ring!Pointers /\ ~p.local /\ p.local \in BOOLEAN /\ p.at = posted + 1
  BY <1>1 DEF Ring!Pointers
<1> HIDE DEF p
<1>4. Ring!TypeOK'
  <2>1. mAllocated' \in 0 .. Wrap - 1 /\ mFreed' \in 0 .. Wrap - 1
    BY <1>2 DEF RingInv, Ring!TypeOK
  <2>2. mLocalStorages' \in [Ring!Slots -> 0 .. posted'] /\ ran' \in Seq(1 .. posted')
    BY <1>1, <1>2
  <2>3. mTasks' \in Seq(Ring!Pointers)
    BY <1>1, <1>2, <1>3
  <2>4. posted' \in 0 .. MaxPosted /\ locals' \in 0 .. posted'
    BY <1>1, <1>2, RingConstants
  <2>5. overwritten' = FALSE /\ asserted' = FALSE
    BY <1>1, <1>2
  <2> QED
    BY <2>1, <2>2, <2>3, <2>4, <2>5 DEF Ring!TypeOK, Ring!Slots, Ring!Pointers
<1>5. Waiting' = Waiting
  <2>1. Cardinality(LocalIn(Append(mTasks, p))) = Cardinality(LocalIn(mTasks))
    BY <1>1, <1>3, LocalInAppend
  <2> QED
    BY <1>2, <2>1 DEF Waiting, LocalIn
<1>6. CountersCount'
  BY <1>1, <1>2, <1>5 DEF RingInv, CountersCount
<1>7. (OccupiedSlots = SlotsBefore(locals, Waiting))'
  BY <1>1, <1>2, <1>5 DEF RingInv, OccupiedSlots, SlotsBefore, Ring!Slots
<1>8. CalledAndToBeCalled'
  <2>1. /\ Len(mTasks') = Len(mTasks) + 1 /\ Len(mTasks) \in Nat
        /\ Len(ran) \in Nat /\ ran' = ran
        /\ \A i \in 1 .. Len(mTasks) : mTasks'[i] = mTasks[i]
        /\ mTasks'[Len(mTasks) + 1] = p
    BY <1>1, <1>2, <1>3
  <2>2. Len(ran) + Len(mTasks) = posted
    BY <1>1 DEF CalledAndToBeCalled
  <2>3. Len(ran') + Len(mTasks') = posted'
    <3>1. Len(ran') = Len(ran) /\ Len(ran) + (Len(mTasks) + 1) = posted + 1
      BY <2>1, <2>2
    <3> QED
      BY <1>2, <2>1, <3>1
  <2>4. \A i \in 1 .. Len(ran') : ran'[i] = i
    BY <1>1, <2>1 DEF CalledAndToBeCalled
  <2>5. ASSUME NEW i \in 1 .. Len(mTasks')
        PROVE  Ring!Target(mTasks[i])' = Len(ran') + i
    <3>1. CASE i \in 1 .. Len(mTasks)
      <4>1. Ring!Target(mTasks[i]) = Len(ran) + i
        BY <1>1, <3>1 DEF CalledAndToBeCalled
      <4>2. mTasks'[i] = mTasks[i] /\ mLocalStorages' = mLocalStorages
        BY <1>2, <2>1, <3>1
      <4> QED
        BY <2>1, <4>1, <4>2 DEF Ring!Target
    <3>2. CASE i = Len(mTasks) + 1
      <4>1. Ring!Target(mTasks[i])' = posted + 1
        BY <1>3, <2>1, <3>2 DEF Ring!Target
      <4>2. Len(ran') + i = posted + 1
        BY <2>1, <2>2, <3>2
      <4> QED
        BY <4>1, <4>2
    <3> QED
      BY <2>1, <3>1, <3>2
  <2> QED
    BY <2>3, <2>4, <2>5 DEF CalledAndToBeCalled
<1>9. overwritten' = FALSE /\ asserted' = FALSE
  BY <1>1, <1>2
<1> QED
  BY <1>4, <1>6, <1>7, <1>8, <1>9 DEF RingInv, Ring!OverwrittenOnlyAfterWrap

LEMMA RingRun ==
    ASSUME RingInv, ~overwritten, Ring!Run
    PROVE  RingInv'
<1> DEFINE called == ran \o Ring!Called
<1>1. /\ locals \in Nat /\ posted \in Nat
      /\ overwritten = FALSE /\ asserted = FALSE
      /\ mAllocated = locals % Wrap
  BY RingConstants
  DEF RingInv, Ring!TypeOK, CountersCount, Ring!OverwrittenOnlyAfterWrap
<1>2. /\ ran' = called
      /\ mFreed' = locals % Wrap
      /\ mTasks' = << >>
      /\ mLocalStorages' = [s \in Ring!Slots |-> 0]
      /\ UNCHANGED <<mAllocated, posted, locals, overwritten, asserted>>
  BY RingFreed DEF Ring!Run
<1> HIDE DEF called
<1>3. /\ called \in Seq(1 .. posted) /\ Len(called) = posted
      /\ \A i \in 1 .. posted : called[i] = i
  BY RingCalled DEF called
<1>4. Ring!TypeOK'
  <2>1. mAllocated' \in 0 .. Wrap - 1 /\ mFreed' \in 0 .. Wrap - 1
    BY <1>2, RingFreed DEF RingInv, Ring!TypeOK
  <2>2. mLocalStorages' \in [Ring!Slots -> 0 .. posted'] /\ ran' \in Seq(1 .. posted')
    BY <1>1, <1>2, <1>3
  <2>3. mTasks' \in Seq(Ring!Pointers)
    BY <1>2
  <2>4. posted' \in 0 .. MaxPosted /\ locals' \in 0 .. posted'
    BY <1>2 DEF RingInv, Ring!TypeOK
  <2>5. overwritten' = FALSE /\ asserted' = FALSE
    BY <1>1, <1>2
  <2> QED
    BY <2>1, <2>2, <2>3, <2>4, <2>5 DEF Ring!TypeOK, Ring!Slots, Ring!Pointers
<1>5. Waiting' = 0
  <2>1. LocalIn(mTasks)' = {}
    BY <1>2 DEF LocalIn
  <2> QED
    BY <2>1, FS_EmptySet DEF Waiting
<1>6. CountersCount'
  <2>1. locals' - Waiting' = locals
    BY <1>1, <1>2, <1>5
  <2>2. 0 \in 0 .. Capacity /\ 0 <= locals'
    BY <1>1, <1>2, RingConstants
  <2> QED
    BY <1>1, <1>2, <1>5, <2>1, <2>2 DEF CountersCount
<1>7. (OccupiedSlots = SlotsBefore(locals, Waiting))'
  <2>1. OccupiedSlots' = {}
    BY <1>2 DEF OccupiedSlots, Ring!Slots
  <2> QED
    BY <1>5, <2>1 DEF SlotsBefore
<1>8. CalledAndToBeCalled'
  <2>1. Len(mTasks') = 0
    BY <1>2
  <2> QED
    BY <1>1, <1>2, <1>3, <2>1 DEF CalledAndToBeCalled
<1>9. overwritten' = FALSE /\ asserted' = FALSE
  BY <1>1, <1>2
<1> QED
  BY <1>4, <1>6, <1>7, <1>8, <1>9 DEF RingInv, Ring!OverwrittenOnlyAfterWrap

LEMMA RingStep == RingInv /\ [Ring!Next]_ring => RingInv'
<1> SUFFICES ASSUME RingInv, [Ring!Next]_ring PROVE RingInv'
  OBVIOUS
<1>1. CASE Ring!Next
  <2>1. /\ ~overwritten
        /\ Ring!PostSmall \/ Ring!PostSmallWhenFull \/ Ring!PostBig \/ Ring!Run
    BY <1>1 DEF Ring!Next
  <2> QED
    BY <2>1, RingPostSmall, RingPostSmallWhenFull, RingPostBig, RingRun
<1>2. CASE UNCHANGED ring
  <2>1. UNCHANGED <<mAllocated, mFreed, mLocalStorages, mTasks, posted, locals, ran,
                    overwritten, asserted>>
    BY <1>2 DEF ring
  <2>2. Ring!TypeOK'
    BY <2>1, Zenon DEF RingInv, Ring!TypeOK, Ring!Slots, Ring!Pointers
  <2>3. Ring!OverwrittenOnlyAfterWrap'
    BY <2>1, Zenon DEF RingInv, Ring!OverwrittenOnlyAfterWrap
  <2>4. ASSUME ~overwritten'
        PROVE  /\ CountersCount'
               /\ (OccupiedSlots = SlotsBefore(locals, Waiting))'
               /\ CalledAndToBeCalled'
    <3>1. /\ CountersCount /\ OccupiedSlots = SlotsBefore(locals, Waiting)
          /\ CalledAndToBeCalled
      BY <2>1, <2>4 DEF RingInv
    <3>2. Waiting' = Waiting
      BY <2>1 DEF Waiting, LocalIn
    <3> QED
      BY <2>1, <3>1, <3>2
      DEF CountersCount, OccupiedSlots, SlotsBefore, CalledAndToBeCalled,
          Ring!Slots, Ring!Target
  <2> QED
    BY <2>2, <2>3, <2>4 DEF RingInv
<1> QED
  BY <1>1, <1>2

LEMMA RingInvImplies == RingInv => Ring!TypeOK /\ RingSound
<1> SUFFICES ASSUME RingInv PROVE Ring!CalledInPostOrder
  BY DEF RingInv, RingSound
<1> SUFFICES ASSUME ~overwritten
             PROVE  ran \o Ring!Called = [i \in 1 .. posted |-> i]
  BY DEF Ring!CalledInPostOrder
<1> DEFINE called == ran \o Ring!Called
<1>1. /\ called \in Seq(1 .. posted) /\ Len(called) = posted
      /\ \A i \in 1 .. posted : called[i] = i
  BY RingCalled
<1> HIDE DEF called
<1>2. called = [i \in 1 .. posted |-> i]
  BY <1>1
<1> QED
  BY <1>2 DEF called

\* The task ring: TaskStorage's variables have their types.
THEOREM RingTypeCorrect == Ring!Spec => []Ring!TypeOK
<1>1. Ring!Init => RingInv
  BY RingInit
<1>2. RingInv /\ [Ring!Next]_ring => RingInv'
  BY RingStep
<1>3. RingInv => Ring!TypeOK
  BY RingInvImplies
<1> QED
  BY <1>1, <1>2, <1>3, PTL DEF Ring!Spec, Ring!vars, ring

\* Create() of TaskStorage constructs no task on top of another one before
\* mAllocated has wrapped around, its assertions never fail, and run() calls
\* small and big tasks in the order of post(), each once.
THEOREM RingIsSound == Ring!Spec => []RingSound
<1>1. Ring!Init => RingInv
  BY RingInit
<1>2. RingInv /\ [Ring!Next]_ring => RingInv'
  BY RingStep
<1>3. RingInv => RingSound
  BY RingInvImplies
<1> QED
  BY <1>1, <1>2, <1>3, PTL DEF Ring!Spec, Ring!vars, ring

(***************************************************************************)
(* PacketAllocator: Chunks                                                 *)
(***************************************************************************)

LEMMA ChunkConstants ==
    /\ Blocks \in Nat \ {0} /\ MaxChunks \in Nat \ {0} /\ MaxSegments \in Nat
    /\ Null \notin Chunks!Addresses /\ Data \notin 0 .. Blocks
BY SequentialParameters DEF Chunks!PacketAllocatorParameters

\* list is the free list of a chunk whose free blocks are those of free: every
\* block leads to the next one, and links are never user data.
Threads(list, chunk, free) ==
    /\ list \in [1 .. chunk.mNumFreeBlocks -> Chunks!Index]
    /\ \A m, n \in 1 .. chunk.mNumFreeBlocks : list[m] = list[n] => m = n
    /\ \A n \in 1 .. chunk.mNumFreeBlocks : list[n] \in free
    /\ \A i \in free : \E n \in 1 .. chunk.mNumFreeBlocks : list[n] = i
    /\ chunk.mNumFreeBlocks > 0 => list[1] = chunk.mFirstFreeBlock
    /\ \A n \in 1 .. chunk.mNumFreeBlocks - 1 : chunk.mData[list[n]] = list[n + 1]
    /\ \A i \in free : chunk.mData[i] \in 0 .. Blocks

\* There are as many blocks in the list as there are free blocks.
LEMMA ThreadsCount ==
    ASSUME NEW chunk \in Chunks!Chunk, NEW free \in SUBSET Chunks!Index, NEW list,
           Threads(list, chunk, free)
    PROVE  /\ IsFiniteSet(free)
           /\ Cardinality(free) = chunk.mNumFreeBlocks
<1> DEFINE N == chunk.mNumFreeBlocks
<1>1. N \in Nat
  BY ChunkConstants DEF Chunks!Chunk
<1> HIDE DEF N
<1>2. list \in [1 .. N -> free]
  BY DEF Threads, N
<1>3. list \in Bijection(1 .. N, free)
  BY <1>2 DEF Threads, N, Bijection, Injection, Surjection, IsInjective
<1>4. ExistsBijection(1 .. N, free)
  BY <1>3 DEF ExistsBijection
<1>5. Cardinality(free) = N
  BY <1>1, <1>4, FS_CountingElements
<1>6. IsFiniteSet(free)
  BY <1>1, <1>4, FS_NatBijection
<1> QED
  BY <1>5, <1>6 DEF N

\* A new chunk lists its blocks in order.
LEMMA NewChunkThreads ==
    /\ Chunks!NewChunk \in Chunks!Chunk
    /\ \E list : Threads(list, Chunks!NewChunk, Chunks!Index)
<1> DEFINE c == Chunks!NewChunk
           list == [n \in 1 .. Blocks |-> n - 1]
<1>1. /\ c.mFirstFreeBlock = 0 /\ c.mNumFreeBlocks = Blocks
      /\ c.mData = [i \in 0 .. Blocks - 1 |-> i + 1]
  BY DEF Chunks!NewChunk, Chunks!Index
<1>2. c \in Chunks!Chunk
  <2>1. [i \in 0 .. Blocks - 1 |-> i + 1] \in [0 .. Blocks - 1 -> 0 .. Blocks \cup {Data}]
    BY ChunkConstants
  <2>2. 0 \in 0 .. Blocks /\ Blocks \in 0 .. Blocks
    BY ChunkConstants
  <2> QED
    BY <2>1, <2>2 DEF Chunks!NewChunk, Chunks!Index, Chunks!Chunk
<1> HIDE DEF c
<1>3. Threads(list, c, Chunks!Index)
  <2>1. list \in [1 .. Blocks -> 0 .. Blocks - 1]
    BY ChunkConstants
  <2>2. \A n \in 1 .. Blocks : list[n] = n - 1
    OBVIOUS
  <2> HIDE DEF list
  <2>3. \A m, n \in 1 .. Blocks : list[m] = list[n] => m = n
    BY <2>2, ChunkConstants
  <2>4. ASSUME NEW i \in 0 .. Blocks - 1
        PROVE  \E n \in 1 .. Blocks : list[n] = i
    <3>1. i + 1 \in 1 .. Blocks /\ list[i + 1] = i
      BY <2>2, ChunkConstants
    <3> QED
      BY <3>1
  <2>5. ASSUME NEW n \in 1 .. Blocks - 1
        PROVE  c.mData[list[n]] = list[n + 1]
    <3>1. list[n] = n - 1 /\ n - 1 \in 0 .. Blocks - 1 /\ list[n + 1] = n
      BY <2>2, ChunkConstants
    <3> QED
      BY <1>1, <3>1
  <2>6. \A i \in 0 .. Blocks - 1 : c.mData[i] \in 0 .. Blocks
    BY <1>1, ChunkConstants
  <2>7. Blocks > 0 => list[1] = 0
    BY <2>2, ChunkConstants
  <2> QED
    BY <1>1, <2>1, <2>3, <2>4, <2>5, <2>6, <2>7 DEF Threads, Chunks!Index
<1> QED
  BY <1>2, <1>3 DEF c

\* Chunk::allocate() takes the first block off the list.
LEMMA WithoutFirstThreads ==
    ASSUME NEW chunk \in Chunks!Chunk, NEW free \in SUBSET Chunks!Index, NEW list,
           Threads(list, chunk, free), chunk.mNumFreeBlocks # 0
    PROVE  /\ chunk.mFirstFreeBlock \in free
           /\ Chunks!WithoutFirst(chunk) \in Chunks!Chunk
           /\ \E rest : Threads(rest, Chunks!WithoutFirst(chunk),
                               free \ {chunk.mFirstFreeBlock})
<1> DEFINE N == chunk.mNumFreeBlocks
           first == chunk.mFirstFreeBlock
           c == Chunks!WithoutFirst(chunk)
           rest == [n \in 1 .. N - 1 |-> list[n + 1]]
<1>1. /\ N \in 1 .. Blocks /\ first \in 0 .. Blocks
      /\ chunk.mData \in [Chunks!Index -> 0 .. Blocks \cup {Data}]
  BY ChunkConstants DEF Chunks!Chunk
<1>2. /\ list \in [1 .. N -> Chunks!Index]
      /\ \A m, n \in 1 .. N : list[m] = list[n] => m = n
      /\ \A n \in 1 .. N : list[n] \in free
      /\ \A i \in free : \E n \in 1 .. N : list[n] = i
      /\ list[1] = first
      /\ \A n \in 1 .. N - 1 : chunk.mData[list[n]] = list[n + 1]
      /\ \A i \in free : chunk.mData[i] \in 0 .. Blocks
  BY <1>1 DEF Threads
<1>3. first \in free /\ first \in Chunks!Index
  BY <1>1, <1>2, ChunkConstants
<1>4. /\ c.mFirstFreeBlock = chunk.mData[first]
      /\ c.mNumFreeBlocks = N - 1
      /\ c.mData = [chunk.mData EXCEPT ![first] = Data]
      /\ c = [mFirstFreeBlock |-> c.mFirstFreeBlock, mNumFreeBlocks |-> c.mNumFreeBlocks,
              mData |-> c.mData]
  BY DEF Chunks!WithoutFirst
<1> HIDE DEF N, first, c
<1>5. c \in Chunks!Chunk
  <2>1. c.mFirstFreeBlock \in 0 .. Blocks
    BY <1>2, <1>3, <1>4
  <2>2. c.mNumFreeBlocks \in 0 .. Blocks
    BY <1>1, <1>4, ChunkConstants
  <2>3. c.mData \in [Chunks!Index -> 0 .. Blocks \cup {Data}]
    BY <1>1, <1>4
  <2> QED
    BY <1>4, <2>1, <2>2, <2>3 DEF Chunks!Chunk
<1>6. \A n \in 1 .. N - 1 : n + 1 \in 1 .. N /\ rest[n] = list[n + 1] /\ list[n + 1] # first
  BY <1>1, <1>2
<1>7. Threads(rest, c, free \ {first})
  <2>1. rest \in [1 .. N - 1 -> Chunks!Index]
    BY <1>1, <1>2
  <2> HIDE DEF rest
  <2>2. \A m, n \in 1 .. N - 1 : rest[m] = rest[n] => m = n
    BY <1>1, <1>2, <1>6
  <2>3. \A n \in 1 .. N - 1 : rest[n] \in free \ {first}
    BY <1>2, <1>6
  <2>4. ASSUME NEW i \in free \ {first}
        PROVE  \E n \in 1 .. N - 1 : rest[n] = i
    <3>1. PICK n \in 1 .. N : list[n] = i
      BY <1>2
    <3>2. n # 1
      BY <1>2, <3>1
    <3>3. n - 1 \in 1 .. N - 1 /\ (n - 1) + 1 = n
      BY <1>1, <3>1, <3>2
    <3> QED
      BY <1>6, <3>1, <3>3
  <2>5. N - 1 > 0 => rest[1] = c.mFirstFreeBlock
    BY <1>1, <1>2, <1>4, <1>6
  <2>6. ASSUME NEW n \in 1 .. (N - 1) - 1
        PROVE  c.mData[rest[n]] = rest[n + 1]
    <3>1. /\ n \in 1 .. N - 1 /\ n + 1 \in 1 .. N - 1
          /\ rest[n] = list[n + 1] /\ rest[n + 1] = list[(n + 1) + 1]
          /\ list[n + 1] # first /\ list[n + 1] \in Chunks!Index
      BY <1>1, <1>2, <1>6
    <3>2. chunk.mData[list[n + 1]] = list[(n + 1) + 1]
      BY <1>2, <3>1
    <3> QED
      BY <1>1, <1>4, <3>1, <3>2
  <2>7. \A i \in free \ {first} : c.mData[i] \in 0 .. Blocks
    BY <1>1, <1>2, <1>4
  <2> QED
    BY <1>4, <2>1, <2>2, <2>3, <2>4, <2>5, <2>6, <2>7 DEF Threads
<1> QED
  BY <1>3, <1>5, <1>7 DEF c, first

\* Chunk::deallocate() puts a block in front of the list.
LEMMA WithFirstThreads ==
    ASSUME NEW chunk \in Chunks!Chunk, NEW free \in SUBSET Chunks!Index, NEW list,
           Threads(list, chunk, free), NEW i \in Chunks!Index, i \notin free
    PROVE  /\ Chunks!WithFirst(chunk, i) \in Chunks!Chunk
           /\ \E longer : Threads(longer, Chunks!WithFirst(chunk, i), free \cup {i})
<1> DEFINE N == chunk.mNumFreeBlocks
           c == Chunks!WithFirst(chunk, i)
           longer == [n \in 1 .. N + 1 |-> IF n = 1 THEN i ELSE list[n - 1]]
<1>1. /\ N \in 0 .. Blocks /\ chunk.mFirstFreeBlock \in 0 .. Blocks
      /\ chunk.mData \in [Chunks!Index -> 0 .. Blocks \cup {Data}]
  BY ChunkConstants DEF Chunks!Chunk
<1>2. /\ list \in [1 .. N -> Chunks!Index]
      /\ \A m, n \in 1 .. N : list[m] = list[n] => m = n
      /\ \A n \in 1 .. N : list[n] \in free
      /\ \A j \in free : \E n \in 1 .. N : list[n] = j
      /\ N > 0 => list[1] = chunk.mFirstFreeBlock
      /\ \A n \in 1 .. N - 1 : chunk.mData[list[n]] = list[n + 1]
      /\ \A j \in free : chunk.mData[j] \in 0 .. Blocks
  BY <1>1 DEF Threads
<1>3. N < Blocks
  <2>1. IsFiniteSet(free) /\ Cardinality(free) = N
    BY ThreadsCount
  <2>2. Cardinality(free \cup {i}) = N + 1
    BY <2>1, FS_AddElement
  <2>3. IsFiniteSet(Chunks!Index) /\ Cardinality(Chunks!Index) = Blocks
    BY FS_Interval, ChunkConstants DEF Chunks!Index
  <2>4. free \cup {i} \in SUBSET Chunks!Index
    OBVIOUS
  <2>5. Cardinality(free \cup {i}) <= Blocks
    BY <2>3, <2>4, FS_Subset
  <2> QED
    BY <1>1, <2>2, <2>5, ChunkConstants
<1>4. /\ c.mFirstFreeBlock = i
      /\ c.mNumFreeBlocks = N + 1
      /\ c.mData = [chunk.mData EXCEPT ![i] = chunk.mFirstFreeBlock]
      /\ c = [mFirstFreeBlock |-> c.mFirstFreeBlock, mNumFreeBlocks |-> c.mNumFreeBlocks,
              mData |-> c.mData]
  BY DEF Chunks!WithFirst
<1> HIDE DEF N, c
<1>5. c \in Chunks!Chunk
  <2>1. c.mFirstFreeBlock \in 0 .. Blocks
    BY <1>4, ChunkConstants DEF Chunks!Index
  <2>2. c.mNumFreeBlocks \in 0 .. Blocks
    BY <1>1, <1>3, <1>4, ChunkConstants
  <2>3. c.mData \in [Chunks!Index -> 0 .. Blocks \cup {Data}]
    BY <1>1, <1>4
  <2> QED
    BY <1>4, <2>1, <2>2, <2>3 DEF Chunks!Chunk
<1>6. longer[1] = i /\ \A n \in 1 .. N : n + 1 \in 1 .. N + 1 /\ longer[n + 1] = list[n]
  BY <1>1
<1>7. longer \in [1 .. N + 1 -> Chunks!Index]
  <2>1. \A n \in 1 .. N + 1 : n # 1 => n - 1 \in 1 .. N
    BY <1>1
  <2> QED
    BY <1>2, <2>1
<1> HIDE DEF longer
<1>8. \A n \in 1 .. N + 1 : n = 1 \/ \E m \in 1 .. N : n = m + 1
  <2>1. \A n \in 1 .. N + 1 : n # 1 => n - 1 \in 1 .. N /\ n = (n - 1) + 1
    BY <1>1
  <2> QED
    BY <2>1
<1>9. Threads(longer, c, free \cup {i})
  <2>1. \A n \in 1 .. N : list[n] # i
    BY <1>2
  <2>2. \A m, n \in 1 .. N + 1 : longer[m] = longer[n] => m = n
    BY <1>2, <1>6, <1>8, <2>1
  <2>3. \A n \in 1 .. N + 1 : longer[n] \in free \cup {i}
    BY <1>2, <1>6, <1>8
  <2>4. \A j \in free \cup {i} : \E n \in 1 .. N + 1 : longer[n] = j
    <3>1. 1 \in 1 .. N + 1
      BY <1>1
    <3> QED
      BY <1>2, <1>6, <3>1
  <2>5. ASSUME NEW n \in 1 .. (N + 1) - 1
        PROVE  c.mData[longer[n]] = longer[n + 1]
    <3>1. n \in 1 .. N /\ longer[n + 1] = list[n]
      BY <1>1, <1>6
    <3>2. CASE n = 1
      BY <1>1, <1>2, <1>4, <1>6, <3>1, <3>2
    <3>3. CASE n # 1
      <4>1. n - 1 \in 1 .. N - 1 /\ n - 1 \in 1 .. N /\ (n - 1) + 1 = n
        BY <1>1, <3>1, <3>3
      <4>2. longer[n] = list[n - 1] /\ chunk.mData[list[n - 1]] = list[n]
        BY <1>2, <1>6, <4>1
      <4>3. list[n - 1] # i /\ list[n - 1] \in Chunks!Index
        BY <1>2, <2>1, <4>1
      <4> QED
        BY <1>1, <1>4, <3>1, <4>2, <4>3
    <3> QED
      BY <3>2, <3>3
  <2>6. \A j \in free \cup {i} : c.mData[j] \in 0 .. Blocks
    BY <1>1, <1>2, <1>4
  <2> QED
    BY <1>4, <1>6, <1>7, <2>2, <2>3, <2>4, <2>5, <2>6 DEF Threads
<1> QED
  BY <1>5, <1>9 DEF c

\* at lists the first m links from the first free block of a chunk.
Links(at, chunk, m) ==
    at = [n \in 1 .. m |->
             IF n = 1 THEN chunk.mFirstFreeBlock ELSE chunk.mData[at[n - 1]]]

LinkAt(at, chunk, n) ==
    at[n] = IF n = 1 THEN chunk.mFirstFreeBlock ELSE chunk.mData[at[n - 1]]

LEMMA LinksAt ==
    ASSUME NEW chunk, NEW m \in Nat, NEW at, Links(at, chunk, m)
    PROVE  \A n \in 1 .. m : LinkAt(at, chunk, n)
<1> DEFINE link(n) == IF n = 1 THEN chunk.mFirstFreeBlock ELSE chunk.mData[at[n - 1]]
<1>1. at = [n \in 1 .. m |-> link(n)]
  BY DEF Links
<1> HIDE DEF link
<1>2. \A n \in 1 .. m : at[n] = link(n)
  BY <1>1
<1> QED
  BY <1>2 DEF link, LinkAt

LEMMA LinksExist ==
    ASSUME NEW chunk
    PROVE  \A m \in Nat : \E at : Links(at, chunk, m)
<1> DEFINE S == {m \in Nat : \E at : Links(at, chunk, m)}
<1>1. 0 \in S
  <2> DEFINE at == [n \in 1 .. 0 |-> 0]
  <2>1. Links(at, chunk, 0)
    BY DEF Links
  <2> QED
    BY <2>1
<1>2. ASSUME NEW m \in Nat, m \in S PROVE m + 1 \in S
  <2>1. PICK at : Links(at, chunk, m)
    BY <1>2
  <2> DEFINE next == IF m = 0 THEN chunk.mFirstFreeBlock ELSE chunk.mData[at[m]]
             longer == [n \in 1 .. m + 1 |-> IF n = m + 1 THEN next ELSE at[n]]
  <2>2. \A n \in 1 .. m : LinkAt(at, chunk, n)
    BY <2>1, LinksAt
  <2>3. \A n \in 1 .. m + 1 : LinkAt(longer, chunk, n)
    BY <2>2 DEF LinkAt
  <2>4. longer = [n \in 1 .. m + 1 |-> longer[n]]
    OBVIOUS
  <2> HIDE DEF longer
  <2>5. Links(longer, chunk, m + 1)
    BY <2>3, <2>4 DEF Links, LinkAt
  <2> QED
    BY <2>5
<1> HIDE DEF S
<1>3. \A m \in Nat : m \in S
  BY <1>1, <1>2, SetInduction
<1> QED
  BY <1>3 DEF S

\* FreeList() follows the links: it is the list that threads the chunk.
LEMMA FreeListIsThread ==
    ASSUME NEW chunk \in Chunks!Chunk, NEW free \in SUBSET Chunks!Index, NEW list,
           Threads(list, chunk, free)
    PROVE  Chunks!FreeList(chunk) = list
<1> DEFINE N == chunk.mNumFreeBlocks
           IsAt(at) == at = [n \in 1 .. Blocks |->
                                IF n = 1 THEN chunk.mFirstFreeBlock
                                         ELSE chunk.mData[at[n - 1]]]
           at == CHOOSE at : IsAt(at)
<1>1. N \in 0 .. Blocks /\ Blocks \in Nat
  BY ChunkConstants DEF Chunks!Chunk
<1>2. \E f : IsAt(f)
  <2>1. PICK f : Links(f, chunk, Blocks)
    BY <1>1, LinksExist
  <2>2. IsAt(f)
    BY <2>1 DEF Links
  <2> HIDE DEF IsAt
  <2> QED
    BY <2>2
<1>3. Chunks!FreeList(chunk) = [n \in 1 .. N |-> at[n]]
  BY DEF Chunks!FreeList
<1>4. IsAt(at)
  BY <1>2, Zenon
<1>5. Links(at, chunk, Blocks)
  BY <1>4 DEF Links
<1> HIDE DEF at, IsAt, N
<1>6. \A n \in 1 .. Blocks : LinkAt(at, chunk, n)
  BY <1>1, <1>5, LinksAt
<1>7. /\ list \in [1 .. N -> Chunks!Index]
      /\ N > 0 => list[1] = chunk.mFirstFreeBlock
      /\ \A n \in 1 .. N - 1 : chunk.mData[list[n]] = list[n + 1]
  BY DEF Threads, N
<1> DEFINE S == {n \in Nat : n \in 1 .. N => at[n] = list[n]}
<1>8. 0 \in S
  OBVIOUS
<1>9. ASSUME NEW n \in Nat, n \in S PROVE n + 1 \in S
  <2> SUFFICES ASSUME n + 1 \in 1 .. N PROVE at[n + 1] = list[n + 1]
    OBVIOUS
  <2>1. n + 1 \in 1 .. Blocks /\ (n + 1) - 1 = n
    BY <1>1
  <2>2. CASE n = 0
    BY <1>1, <1>6, <1>7, <2>1, <2>2 DEF LinkAt
  <2>3. CASE n # 0
    <3>1. n \in 1 .. N /\ n \in 1 .. N - 1 /\ n + 1 # 1
      BY <1>1, <2>3
    <3>2. at[n] = list[n] /\ chunk.mData[list[n]] = list[n + 1]
      BY <1>7, <1>9, <3>1
    <3>3. at[n + 1] = chunk.mData[at[n]]
      BY <1>6, <2>1, <3>1 DEF LinkAt
    <3> QED
      BY <3>2, <3>3
  <2> QED
    BY <2>2, <2>3
<1> HIDE DEF S
<1>10. \A n \in Nat : n \in S
  BY <1>8, <1>9, SetInduction
<1>11. \A n \in 1 .. N : at[n] = list[n]
  BY <1>1, <1>10 DEF S
<1> QED
  BY <1>3, <1>7, <1>11

-----------------------------------------------------------------------------
(* The inductive invariant *)

\* Blocks of chunk k that nobody uses, and segments in the stack.
FreeBlocksOf(k) == {i \in Chunks!Index : <<k, i>> \notin blocks}

\* mLastAlloc and mLastFree point into the buffer that mChunks has now, which is
\* at most the Len(mChunks)-th one.
PointersValid ==
    /\ buffer <= Len(mChunks)
    /\ mChunks # << >> => mLastAlloc # Null
    /\ mLastAlloc # Null => mLastAlloc.buffer = buffer /\ mLastAlloc.at \in DOMAIN mChunks
    /\ mLastFree # Null => mLastFree.buffer = buffer /\ mLastFree.at \in DOMAIN mChunks

\* Every chunk has its free list; blocks in use are in chunks.
ChunksThreaded ==
    /\ \A b \in blocks : b \in (DOMAIN mChunks) \X Chunks!Index
    /\ \A k \in DOMAIN mChunks : \E list : Threads(list, mChunks[k], FreeBlocksOf(k))

\* No segment is in the stack twice, nor in the stack and in use.
SegmentsApart ==
    /\ \A m, n \in 1 .. Len(mSegments) : mSegments[m] = mSegments[n] => m = n
    /\ \A n \in 1 .. Len(mSegments) : mSegments[n] \notin segments
    /\ \A s \in 1 .. mallocs : \/ s \in segments
                               \/ \E n \in 1 .. Len(mSegments) : mSegments[n] = s

SmallTypeOK ==
    /\ mChunks \in Seq(Chunks!Chunk) /\ Len(mChunks) <= MaxChunks
    /\ mLastAlloc \in Chunks!ChunkPointers
    /\ mLastFree \in Chunks!ChunkPointers
    /\ buffer \in Nat

SmallInv == SmallTypeOK /\ PointersValid /\ ChunksThreaded /\ invalid = FALSE

LargeInv ==
    /\ mallocs \in 0 .. MaxSegments
    /\ mSegments \in Seq(1 .. mallocs)
    /\ segments \subseteq 1 .. mallocs
    /\ SegmentsApart
    /\ Len(mSegments) + Cardinality(segments) = mallocs

PoolInv == SmallInv /\ LargeInv

-----------------------------------------------------------------------------
(* SmallObjectPool *)

\* Allocating from a chunk that has a free block keeps all lists.
LEMMA AllocateInThreads ==
    ASSUME NEW list \in Seq(Chunks!Chunk), NEW k \in DOMAIN list,
           \A b \in blocks : b \in (DOMAIN list) \X Chunks!Index,
           \A j \in DOMAIN list : \E t : Threads(t, list[j], FreeBlocksOf(j)),
           list[k].mNumFreeBlocks # 0,
           Chunks!AllocateIn(list, k)
    PROVE  /\ mChunks' \in Seq(Chunks!Chunk) /\ Len(mChunks') = Len(list)
           /\ ChunksThreaded'
<1> DEFINE first == list[k].mFirstFreeBlock
<1>1. /\ mChunks' = [list EXCEPT ![k] = Chunks!WithoutFirst(list[k])]
      /\ blocks' = blocks \cup {<<k, first>>}
  BY DEF Chunks!AllocateIn
<1>2. list[k] \in Chunks!Chunk /\ FreeBlocksOf(k) \in SUBSET Chunks!Index
  BY DEF FreeBlocksOf
<1>3. PICK t : Threads(t, list[k], FreeBlocksOf(k))
  OBVIOUS
<1>4. /\ first \in FreeBlocksOf(k)
      /\ Chunks!WithoutFirst(list[k]) \in Chunks!Chunk
      /\ \E rest : Threads(rest, Chunks!WithoutFirst(list[k]), FreeBlocksOf(k) \ {first})
  BY <1>2, <1>3, WithoutFirstThreads
<1>5. /\ mChunks' \in Seq(Chunks!Chunk) /\ Len(mChunks') = Len(list)
      /\ DOMAIN mChunks' = DOMAIN list
  BY <1>1, <1>4
<1>6. \A b \in blocks' : b \in (DOMAIN mChunks') \X Chunks!Index
  BY <1>1, <1>4, <1>5 DEF FreeBlocksOf
<1>7. ASSUME NEW j \in DOMAIN list
      PROVE  \E u : Threads(u, mChunks'[j], FreeBlocksOf(j)')
  <2>1. CASE j = k
    <3>1. mChunks'[j] = Chunks!WithoutFirst(list[k])
      BY <1>1, <2>1
    <3>2. FreeBlocksOf(j)' = FreeBlocksOf(k) \ {first}
      BY <1>1, <2>1 DEF FreeBlocksOf, Chunks!Index
    <3> QED
      BY <1>4, <3>1, <3>2
  <2>2. CASE j # k
    <3>1. mChunks'[j] = list[j]
      BY <1>1, <2>2
    <3>2. FreeBlocksOf(j)' = FreeBlocksOf(j)
      BY <1>1, <2>2 DEF FreeBlocksOf, Chunks!Index
    <3> QED
      BY <3>1, <3>2
  <2> QED
    BY <2>1, <2>2
<1>8. \A j \in DOMAIN mChunks' : \E u : Threads(u, mChunks'[j], FreeBlocksOf(j)')
  BY <1>5, <1>7
<1>9. ChunksThreaded'
  BY <1>6, <1>8 DEF ChunksThreaded, Threads, Chunks!Index
<1> QED
  BY <1>5, <1>9

\* findAvailableChunk() finds a chunk that has a free block.
LEMMA AvailableChunk ==
    ASSUME SmallInv, Chunks!NotFull # {}
    PROVE  /\ Chunks!findAvailableChunk \in DOMAIN mChunks
           /\ mChunks[Chunks!findAvailableChunk].mNumFreeBlocks # 0
<1>1. Chunks!NotFull \in SUBSET (DOMAIN mChunks) /\ DOMAIN mChunks \in SUBSET Nat
  BY DEF SmallInv, SmallTypeOK, Chunks!NotFull
<1>2. \E k \in Chunks!NotFull : \A j \in Chunks!NotFull : k <= j
  BY <1>1, LeastExists
<1>3. Chunks!findAvailableChunk \in Chunks!NotFull
  BY <1>2 DEF Chunks!findAvailableChunk
<1> QED
  BY <1>1, <1>3 DEF Chunks!NotFull, Chunks!isFull

\* A pointer that follows the vector.
LEMMA PointToValid ==
    ASSUME NEW k \in 1 .. MaxChunks, NEW g \in 0 .. MaxChunks
    PROVE  /\ Chunks!PointTo(k, g) \in Chunks!ChunkPointers
           /\ Chunks!PointTo(k, g) # Null
           /\ Chunks!PointTo(k, g).buffer = g /\ Chunks!PointTo(k, g).at = k
<1>1. Chunks!PointTo(k, g) \in Chunks!Addresses
  BY DEF Chunks!PointTo, Chunks!Addresses
<1> QED
  BY <1>1, ChunkConstants DEF Chunks!PointTo, Chunks!ChunkPointers

LEMMA PoolsAllocateFirst ==
    ASSUME SmallInv, Chunks!AllocateFirst
    PROVE  SmallInv'
<1> DEFINE list == << Chunks!NewChunk >>
           p == Chunks!PointTo(1, 1)
<1>1. /\ mChunks = << >> /\ buffer' = 1
      /\ mLastAlloc' = p /\ mLastFree' = p
      /\ Chunks!AllocateIn(list, 1)
      /\ invalid' = FALSE
  BY DEF Chunks!AllocateFirst, SmallInv
<1>2. list \in Seq(Chunks!Chunk) /\ Len(list) = 1 /\ list[1] = Chunks!NewChunk
      /\ DOMAIN list = {1} /\ 1 \in DOMAIN list
  BY NewChunkThreads
<1>3. Chunks!NewChunk.mNumFreeBlocks # 0
  BY ChunkConstants DEF Chunks!NewChunk
<1>4. blocks = {}
  BY <1>1 DEF SmallInv, ChunksThreaded
<1>5. FreeBlocksOf(1) = Chunks!Index
  BY <1>4 DEF FreeBlocksOf
<1>6. \A j \in DOMAIN list : \E t : Threads(t, list[j], FreeBlocksOf(j))
  BY <1>2, <1>5, NewChunkThreads
<1> HIDE DEF list
<1>7. mChunks' \in Seq(Chunks!Chunk) /\ Len(mChunks') = 1 /\ ChunksThreaded'
  BY <1>1, <1>2, <1>3, <1>4, <1>6, AllocateInThreads
<1>8. p \in Chunks!ChunkPointers /\ p # Null /\ p.buffer = 1 /\ p.at = 1
  BY ChunkConstants, PointToValid
<1> HIDE DEF p
<1>9. DOMAIN mChunks' = {1}
  BY <1>7
<1> QED
  BY <1>1, <1>7, <1>8, <1>9, ChunkConstants
  DEF SmallInv, SmallTypeOK, PointersValid, Chunks!ChunkPointers, Chunks!Chunk, Chunks!Index

LEMMA PoolsAllocateFromChunk ==
    ASSUME SmallInv, Chunks!AllocateFromChunk
    PROVE  SmallInv'
<1> DEFINE k == Chunks!findAvailableChunk
           p == Chunks!PointTo(k, buffer)
<1>1. /\ mChunks # << >> /\ Chunks!NotFull # {}
      /\ Chunks!AllocateIn(mChunks, k)
      /\ mLastAlloc' = p
      /\ invalid' = Chunks!Dangles(mLastAlloc)
      /\ buffer' = buffer /\ mLastFree' = mLastFree
  BY DEF Chunks!AllocateFromChunk
<1>2. k \in DOMAIN mChunks /\ mChunks[k].mNumFreeBlocks # 0
  BY <1>1, AvailableChunk
<1> HIDE DEF k
<1>3. /\ mChunks \in Seq(Chunks!Chunk) /\ Len(mChunks) <= MaxChunks
      /\ buffer \in Nat /\ buffer <= Len(mChunks)
      /\ DOMAIN mChunks = 1 .. Len(mChunks) /\ Len(mChunks) \in Nat
  BY DEF SmallInv, SmallTypeOK, PointersValid
<1>4. mChunks' \in Seq(Chunks!Chunk) /\ Len(mChunks') = Len(mChunks) /\ ChunksThreaded'
  BY <1>1, <1>2, <1>3, AllocateInThreads DEF SmallInv, ChunksThreaded
<1>5. p \in Chunks!ChunkPointers /\ p # Null /\ p.buffer = buffer /\ p.at = k
  BY <1>2, <1>3, ChunkConstants, PointToValid
<1> HIDE DEF p
<1>6. DOMAIN mChunks' = DOMAIN mChunks
  BY <1>3, <1>4
<1>7. invalid' = FALSE
  BY <1>1 DEF SmallInv, PointersValid, Chunks!Dangles
<1>8. SmallTypeOK'
  BY <1>1, <1>3, <1>4, <1>5
  DEF SmallInv, SmallTypeOK, Chunks!ChunkPointers, Chunks!Addresses, Chunks!Chunk, Chunks!Index
<1>9. PointersValid'
  BY <1>1, <1>2, <1>3, <1>4, <1>5, <1>6 DEF SmallInv, PointersValid
<1> QED
  BY <1>4, <1>7, <1>8, <1>9 DEF SmallInv

LEMMA PoolsAllocateFromNewChunk ==
    ASSUME SmallInv, Chunks!AllocateFromNewChunk
    PROVE  SmallInv'
<1> DEFINE N == Len(mChunks)
           list == Append(mChunks, Chunks!NewChunk)
           p == Chunks!PointTo(N + 1, buffer')
<1>1. /\ mChunks # << >> /\ N < MaxChunks
      /\ buffer' = buffer \/ buffer' = buffer + 1
      /\ Chunks!AllocateIn(list, N + 1)
      /\ mLastFree' = Null /\ mLastAlloc' = p
      /\ invalid' = Chunks!Dangles(mLastAlloc)
  BY DEF Chunks!AllocateFromNewChunk
<1>2. /\ mChunks \in Seq(Chunks!Chunk) /\ N \in Nat
      /\ buffer \in Nat /\ buffer <= N
      /\ DOMAIN mChunks = 1 .. N
  BY DEF SmallInv, SmallTypeOK, PointersValid
<1>3. /\ list \in Seq(Chunks!Chunk) /\ Len(list) = N + 1
      /\ DOMAIN list = 1 .. N + 1
      /\ \A j \in 1 .. N : list[j] = mChunks[j]
      /\ list[N + 1] = Chunks!NewChunk
  BY <1>2, NewChunkThreads
<1>4. Chunks!NewChunk.mNumFreeBlocks # 0
  BY ChunkConstants DEF Chunks!NewChunk
<1>5. \A b \in blocks : b \in (1 .. N) \X Chunks!Index
  BY <1>2 DEF SmallInv, ChunksThreaded
<1> HIDE DEF list, N
<1>6. FreeBlocksOf(N + 1) = Chunks!Index
  BY <1>2, <1>5 DEF FreeBlocksOf
<1>7. \A j \in DOMAIN list : \E t : Threads(t, list[j], FreeBlocksOf(j))
  <2>1. \A j \in 1 .. N : \E t : Threads(t, list[j], FreeBlocksOf(j))
    BY <1>2, <1>3 DEF SmallInv, ChunksThreaded
  <2>2. \E t : Threads(t, list[N + 1], FreeBlocksOf(N + 1))
    BY <1>3, <1>6, NewChunkThreads
  <2>3. \A j \in DOMAIN list : j \in 1 .. N \/ j = N + 1
    BY <1>2, <1>3
  <2> QED
    BY <2>1, <2>2, <2>3
<1>8. N + 1 \in DOMAIN list /\ \A b \in blocks : b \in (DOMAIN list) \X Chunks!Index
  BY <1>2, <1>3, <1>5
<1>9. mChunks' \in Seq(Chunks!Chunk) /\ Len(mChunks') = N + 1 /\ ChunksThreaded'
  BY <1>1, <1>3, <1>4, <1>7, <1>8, AllocateInThreads
<1>10. p \in Chunks!ChunkPointers /\ p # Null /\ p.buffer = buffer' /\ p.at = N + 1
  <2>1. N + 1 \in 1 .. MaxChunks /\ buffer' \in 0 .. MaxChunks
    BY <1>1, <1>2, ChunkConstants
  <2> QED
    BY <2>1, PointToValid
<1> HIDE DEF p
<1>11. DOMAIN mChunks' = 1 .. N + 1
  BY <1>9
<1>12. invalid' = FALSE
  BY <1>1 DEF SmallInv, PointersValid, Chunks!Dangles
<1>13. SmallTypeOK'
  <2>1. buffer' \in Nat /\ Len(mChunks') <= MaxChunks
    BY <1>1, <1>2, <1>9, ChunkConstants
  <2> QED
    BY <1>1, <1>9, <1>10, <2>1
    DEF SmallTypeOK, Chunks!ChunkPointers, Chunks!Addresses, Chunks!Chunk, Chunks!Index
<1>14. PointersValid'
  <2>1. buffer' <= Len(mChunks') /\ N + 1 \in DOMAIN mChunks'
    BY <1>1, <1>2, <1>9, <1>11
  <2> QED
    BY <1>1, <1>10, <2>1 DEF PointersValid
<1> QED
  BY <1>9, <1>12, <1>13, <1>14 DEF SmallInv

LEMMA PoolsDeallocate ==
    ASSUME SmallInv, NEW k, NEW i, <<k, i>> \in blocks, Chunks!Deallocate(k, i)
    PROVE  SmallInv'
<1> DEFINE p == Chunks!PointTo(k, buffer)
<1>1. /\ (mLastFree' = mLastFree /\ mLastFree # Null) \/ mLastFree' = p
      /\ mChunks' = [mChunks EXCEPT ![k] = Chunks!WithFirst(mChunks[k], i)]
      /\ blocks' = blocks \ {<<k, i>>}
      /\ invalid' = Chunks!Dangles(mLastFree)
      /\ buffer' = buffer /\ mLastAlloc' = mLastAlloc
  BY DEF Chunks!Deallocate
<1>2. /\ mChunks \in Seq(Chunks!Chunk) /\ Len(mChunks) <= MaxChunks
      /\ buffer \in Nat /\ buffer <= Len(mChunks)
      /\ DOMAIN mChunks = 1 .. Len(mChunks) /\ Len(mChunks) \in Nat
  BY DEF SmallInv, SmallTypeOK, PointersValid
<1>3. k \in DOMAIN mChunks /\ i \in Chunks!Index
  BY DEF SmallInv, ChunksThreaded
<1>4. mChunks[k] \in Chunks!Chunk /\ FreeBlocksOf(k) \in SUBSET Chunks!Index
      /\ i \notin FreeBlocksOf(k)
  BY <1>2, <1>3 DEF FreeBlocksOf
<1>5. PICK t : Threads(t, mChunks[k], FreeBlocksOf(k))
  BY <1>3 DEF SmallInv, ChunksThreaded
<1>6. /\ Chunks!WithFirst(mChunks[k], i) \in Chunks!Chunk
      /\ \E u : Threads(u, Chunks!WithFirst(mChunks[k], i), FreeBlocksOf(k) \cup {i})
  BY <1>3, <1>4, <1>5, WithFirstThreads
<1>7. /\ mChunks' \in Seq(Chunks!Chunk) /\ Len(mChunks') = Len(mChunks)
      /\ DOMAIN mChunks' = DOMAIN mChunks
  <2> DEFINE c == Chunks!WithFirst(mChunks[k], i)
  <2>1. c \in Chunks!Chunk /\ mChunks' = [mChunks EXCEPT ![k] = c]
    BY <1>1, <1>6
  <2> HIDE DEF c
  <2> QED
    BY <1>2, <1>3, <2>1
<1>8. ASSUME NEW j \in DOMAIN mChunks
      PROVE  \E u : Threads(u, mChunks'[j], FreeBlocksOf(j)')
  <2>1. CASE j = k
    <3>1. mChunks'[j] = Chunks!WithFirst(mChunks[k], i)
      BY <1>1, <1>2, <1>3, <2>1
    <3>2. FreeBlocksOf(j)' = FreeBlocksOf(k) \cup {i}
      BY <1>1, <1>3, <2>1 DEF FreeBlocksOf, Chunks!Index
    <3> QED
      BY <1>6, <3>1, <3>2
  <2>2. CASE j # k
    <3>1. mChunks'[j] = mChunks[j]
      BY <1>1, <1>2, <2>2
    <3>2. FreeBlocksOf(j)' = FreeBlocksOf(j)
      BY <1>1, <2>2 DEF FreeBlocksOf, Chunks!Index
    <3> QED
      BY <3>1, <3>2 DEF SmallInv, ChunksThreaded
  <2> QED
    BY <2>1, <2>2
<1>9. ChunksThreaded'
  <2>1. \A b \in blocks' : b \in (DOMAIN mChunks') \X Chunks!Index
    BY <1>1, <1>7 DEF SmallInv, ChunksThreaded
  <2>2. \A j \in DOMAIN mChunks' : \E u : Threads(u, mChunks'[j], FreeBlocksOf(j)')
    BY <1>7, <1>8
  <2> QED
    BY <2>1, <2>2 DEF ChunksThreaded, Threads, Chunks!Index
<1>10. p \in Chunks!ChunkPointers /\ p # Null /\ p.buffer = buffer /\ p.at = k
  BY <1>2, <1>3, ChunkConstants, PointToValid
<1> HIDE DEF p
<1>11. invalid' = FALSE
  BY <1>1 DEF SmallInv, PointersValid, Chunks!Dangles
<1>12. SmallTypeOK'
  <2>1. mLastFree' \in Chunks!ChunkPointers
    BY <1>1, <1>10 DEF SmallInv, SmallTypeOK
  <2> QED
    BY <1>1, <1>2, <1>7, <2>1
    DEF SmallInv, SmallTypeOK, Chunks!ChunkPointers, Chunks!Addresses, Chunks!Chunk,
        Chunks!Index
<1>13. PointersValid'
  <2>1. mLastFree' # Null => mLastFree'.buffer = buffer' /\ mLastFree'.at \in DOMAIN mChunks'
    BY <1>1, <1>3, <1>7, <1>10 DEF SmallInv, PointersValid
  <2>2. mLastAlloc # Null
    BY <1>2, <1>3 DEF SmallInv, PointersValid
  <2> QED
    BY <1>1, <1>2, <1>7, <2>1, <2>2 DEF SmallInv, PointersValid
<1> QED
  BY <1>9, <1>11, <1>12, <1>13 DEF SmallInv

-----------------------------------------------------------------------------
(* SimplePool *)

LEMMA PoolsAllocateSegment ==
    ASSUME LargeInv, Chunks!AllocateSegment
    PROVE  LargeInv'
<1>0. /\ mallocs \in Nat /\ mallocs <= MaxSegments
      /\ mSegments \in Seq(1 .. mallocs) /\ Len(mSegments) \in Nat
      /\ segments \subseteq 1 .. mallocs
      /\ Len(mSegments) + Cardinality(segments) = mallocs
  BY ChunkConstants DEF LargeInv
<1>1. IsFiniteSet(segments) /\ Cardinality(segments) \in Nat
  <2>1. IsFiniteSet(1 .. mallocs)
    BY <1>0, FS_Interval
  <2> QED
    BY <1>0, <2>1, FS_Subset, FS_CardinalityType
<1>2. CASE mSegments = << >>
  <2>1. /\ mallocs < MaxSegments /\ mallocs' = mallocs + 1
        /\ segments' = segments \cup {mallocs + 1} /\ mSegments' = mSegments
    BY <1>2 DEF Chunks!AllocateSegment
  <2>2. mallocs + 1 \notin segments
    BY <1>0
  <2>3. Cardinality(segments') = Cardinality(segments) + 1
    BY <1>1, <2>1, <2>2, FS_AddElement
  <2>4. Len(mSegments) = 0 /\ Len(mSegments') = 0
    BY <1>2, <2>1
  <2>5. mSegments' \in Seq(1 .. mallocs') /\ segments' \subseteq 1 .. mallocs'
    BY <1>0, <1>2, <2>1
  <2>6. mallocs' \in 0 .. MaxSegments
    BY <1>0, <2>1, ChunkConstants
  <2>7. SegmentsApart'
    <3>1. \A s \in 1 .. mallocs' : s \in segments'
      BY <1>0, <2>1, <2>4 DEF LargeInv, SegmentsApart
    <3> QED
      BY <2>4, <3>1 DEF SegmentsApart
  <2>8. Len(mSegments') + Cardinality(segments') = mallocs'
    BY <1>0, <1>1, <2>1, <2>3, <2>4
  <2> QED
    BY <2>5, <2>6, <2>7, <2>8 DEF LargeInv
<1>3. CASE mSegments # << >>
  <2> DEFINE N == Len(mSegments)
             s == mSegments[N]
  <2>1. /\ mallocs' = mallocs /\ segments' = segments \cup {s}
        /\ mSegments' = SubSeq(mSegments, 1, N - 1)
    BY <1>3 DEF Chunks!AllocateSegment
  <2>2. N \in Nat /\ N >= 1 /\ s \in 1 .. mallocs
    BY <1>0, <1>3
  <2>3. /\ mSegments' \in Seq(1 .. mallocs) /\ Len(mSegments') = N - 1
        /\ \A n \in 1 .. N - 1 : mSegments'[n] = mSegments[n]
    <3>1. \A n \in 1 .. N - 1 : mSegments[n] \in 1 .. mallocs
      BY <1>0, <2>2
    <3>2. N - 1 \in Int /\ 1 \in Int /\ (N - 1) - 1 + 1 = N - 1
      BY <2>2
    <3> DEFINE t == SubSeq(mSegments, 1, N - 1)
    <3>3. /\ t \in Seq(1 .. mallocs)
          /\ Len(t) = IF 1 <= N - 1 THEN (N - 1) - 1 + 1 ELSE 0
          /\ \A n \in 1 .. (N - 1) - 1 + 1 : t[n] = mSegments[1 + n - 1]
      BY <3>1, <3>2, SubSeqProperties
    <3>4. mSegments' = t
      BY <2>1
    <3> HIDE DEF t
    <3>5. \A n \in 1 .. N - 1 : 1 + n - 1 = n
      OBVIOUS
    <3>6. Len(t) = N - 1
      <4>1. (IF 1 <= N - 1 THEN (N - 1) - 1 + 1 ELSE 0) = N - 1
        <5>1. N \in Nat /\ N >= 1
          BY <2>2
        <5> HIDE DEF N
        <5> QED
          BY <5>1
      <4> QED
        BY <3>3, <4>1
    <3>7. \A n \in 1 .. N - 1 : t[n] = mSegments[n]
      BY <3>2, <3>3, <3>5
    <3> QED
      BY <3>3, <3>4, <3>6, <3>7
  <2>4. /\ \A m, n \in 1 .. N : mSegments[m] = mSegments[n] => m = n
        /\ \A n \in 1 .. N : mSegments[n] \notin segments
        /\ \A t \in 1 .. mallocs : t \in segments \/ \E n \in 1 .. N : mSegments[n] = t
    BY DEF LargeInv, SegmentsApart
  <2> HIDE DEF N
  <2>5. s \notin segments
    BY <2>2, <2>4
  <2>6. Cardinality(segments') = Cardinality(segments) + 1
    BY <1>1, <2>1, <2>5, FS_AddElement
  <2>7. SegmentsApart'
    <3>1. \A n \in 1 .. N : n # N => n \in 1 .. N - 1 /\ mSegments[n] # s
      BY <2>2, <2>4
    <3>2. \A n \in 1 .. N - 1 : n \in 1 .. N /\ n # N
      BY <2>2
    <3>3. \A m, n \in 1 .. Len(mSegments') : mSegments'[m] = mSegments'[n] => m = n
      BY <2>3, <2>4, <3>2
    <3>4. \A n \in 1 .. Len(mSegments') : mSegments'[n] \notin segments'
      BY <2>1, <2>3, <2>4, <3>1, <3>2
    <3>5. ASSUME NEW t \in 1 .. mallocs
          PROVE  t \in segments' \/ \E n \in 1 .. Len(mSegments') : mSegments'[n] = t
      BY <2>1, <2>3, <2>4, <3>1
    <3> QED
      BY <2>1, <3>3, <3>4, <3>5 DEF SegmentsApart
  <2>8. Len(mSegments') + Cardinality(segments') = mallocs'
    <3>1. N + Cardinality(segments) = mallocs
      BY <1>0 DEF N
    <3> QED
      BY <1>0, <1>1, <2>1, <2>2, <2>3, <2>6, <3>1
  <2> QED
    BY <1>0, <2>1, <2>2, <2>3, <2>7, <2>8 DEF LargeInv
<1> QED
  BY <1>2, <1>3

LEMMA PoolsDeallocateSegment ==
    ASSUME LargeInv, NEW s \in segments, Chunks!DeallocateSegment(s)
    PROVE  LargeInv'
<1> DEFINE N == Len(mSegments)
<1>0. /\ mallocs \in 0 .. MaxSegments /\ mallocs \in Nat
      /\ mSegments \in Seq(1 .. mallocs) /\ N \in Nat
      /\ segments \subseteq 1 .. mallocs
      /\ N + Cardinality(segments) = mallocs
  BY ChunkConstants DEF LargeInv
<1>1. /\ mSegments' = Append(mSegments, s) /\ segments' = segments \ {s}
      /\ mallocs' = mallocs
  BY DEF Chunks!DeallocateSegment
<1>2. IsFiniteSet(segments) /\ Cardinality(segments) \in Nat
  <2>1. IsFiniteSet(1 .. mallocs)
    BY <1>0, FS_Interval
  <2> QED
    BY <1>0, <2>1, FS_Subset, FS_CardinalityType
<1>3. Cardinality(segments') = Cardinality(segments) - 1
  BY <1>1, <1>2, FS_RemoveElement
<1>4. /\ mSegments' \in Seq(1 .. mallocs) /\ Len(mSegments') = N + 1
      /\ \A n \in 1 .. N : mSegments'[n] = mSegments[n]
      /\ mSegments'[N + 1] = s
  BY <1>0, <1>1
<1>5. /\ \A m, n \in 1 .. N : mSegments[m] = mSegments[n] => m = n
      /\ \A n \in 1 .. N : mSegments[n] \notin segments
      /\ \A t \in 1 .. mallocs : t \in segments \/ \E n \in 1 .. N : mSegments[n] = t
  BY DEF LargeInv, SegmentsApart
<1> HIDE DEF N
<1>6. SegmentsApart'
  <2>1. \A n \in 1 .. N + 1 : n \in 1 .. N \/ n = N + 1
    BY <1>0
  <2>2. \A n \in 1 .. N : n \in 1 .. N + 1 /\ mSegments'[n] # s
    BY <1>0, <1>4, <1>5
  <2>3. \A m, n \in 1 .. Len(mSegments') : mSegments'[m] = mSegments'[n] => m = n
    BY <1>4, <1>5, <2>1, <2>2
  <2>4. \A n \in 1 .. Len(mSegments') : mSegments'[n] \notin segments'
    BY <1>1, <1>4, <1>5, <2>1
  <2>5. ASSUME NEW t \in 1 .. mallocs
        PROVE  t \in segments' \/ \E n \in 1 .. Len(mSegments') : mSegments'[n] = t
    <3>1. N + 1 \in 1 .. Len(mSegments')
      BY <1>0, <1>4
    <3> QED
      BY <1>1, <1>4, <1>5, <2>2, <3>1
  <2> QED
    BY <1>1, <2>3, <2>4, <2>5 DEF SegmentsApart
<1>7. Len(mSegments') + Cardinality(segments') = mallocs'
  BY <1>0, <1>1, <1>2, <1>3, <1>4
<1> QED
  BY <1>0, <1>1, <1>4, <1>6, <1>7 DEF LargeInv

-----------------------------------------------------------------------------
(* Both pools *)

LEMMA PoolInit == Chunks!Init => PoolInv
<1> SUFFICES ASSUME Chunks!Init PROVE PoolInv
  OBVIOUS
<1> USE DEF Chunks!Init
<1>1. SmallTypeOK
  BY ChunkConstants DEF SmallTypeOK, Chunks!ChunkPointers
<1>2. PointersValid /\ ChunksThreaded
  BY DEF PointersValid, ChunksThreaded
<1>3. LargeInv
  <2>1. Len(mSegments) + Cardinality(segments) = mallocs
    BY FS_EmptySet
  <2> QED
    BY <2>1, ChunkConstants DEF LargeInv, SegmentsApart
<1> QED
  BY <1>1, <1>2, <1>3 DEF PoolInv, SmallInv

LEMMA SmallUnchanged ==
    SmallInv /\ UNCHANGED <<mChunks, buffer, mLastAlloc, mLastFree, blocks, invalid>>
      => SmallInv'
<1> SUFFICES ASSUME SmallInv,
                    UNCHANGED <<mChunks, buffer, mLastAlloc, mLastFree, blocks, invalid>>
             PROVE  SmallInv'
  OBVIOUS
<1>1. SmallTypeOK'
  BY DEF SmallInv, SmallTypeOK, Chunks!Chunk, Chunks!Index, Chunks!ChunkPointers,
         Chunks!Addresses
<1>2. PointersValid'
  BY DEF SmallInv, PointersValid
<1>3. ChunksThreaded'
  <2>1. \A k : FreeBlocksOf(k)' = FreeBlocksOf(k)
    BY DEF FreeBlocksOf, Chunks!Index
  <2>2. \A b \in blocks' : b \in (DOMAIN mChunks') \X Chunks!Index
    BY DEF SmallInv, ChunksThreaded
  <2>3. \A k \in DOMAIN mChunks' : \E t : Threads(t, mChunks'[k], FreeBlocksOf(k)')
    BY <2>1 DEF SmallInv, ChunksThreaded
  <2> QED
    BY <2>2, <2>3 DEF ChunksThreaded, Threads, Chunks!Index
<1> QED
  BY <1>1, <1>2, <1>3 DEF SmallInv

LEMMA LargeUnchanged ==
    LargeInv /\ UNCHANGED <<mSegments, segments, mallocs>> => LargeInv'
BY DEF LargeInv, SegmentsApart

LEMMA PoolStep == PoolInv /\ [Chunks!Next]_Chunks!vars => PoolInv'
<1> SUFFICES ASSUME PoolInv, [Chunks!Next]_Chunks!vars PROVE PoolInv'
  OBVIOUS
<1>0. SmallInv /\ LargeInv
  BY DEF PoolInv
<1>1. ASSUME Chunks!AllocateFirst PROVE PoolInv'
  <2>1. SmallInv'
    BY <1>0, <1>1, PoolsAllocateFirst
  <2>2. UNCHANGED <<mSegments, segments, mallocs>>
    BY <1>1 DEF Chunks!AllocateFirst, Chunks!large
  <2> QED
    BY <1>0, <2>1, <2>2, LargeUnchanged DEF PoolInv
<1>2. ASSUME Chunks!AllocateFromChunk PROVE PoolInv'
  <2>1. SmallInv'
    BY <1>0, <1>2, PoolsAllocateFromChunk
  <2>2. UNCHANGED <<mSegments, segments, mallocs>>
    BY <1>2 DEF Chunks!AllocateFromChunk, Chunks!large
  <2> QED
    BY <1>0, <2>1, <2>2, LargeUnchanged DEF PoolInv
<1>3. ASSUME Chunks!AllocateFromNewChunk PROVE PoolInv'
  <2>1. SmallInv'
    BY <1>0, <1>3, PoolsAllocateFromNewChunk
  <2>2. UNCHANGED <<mSegments, segments, mallocs>>
    BY <1>3 DEF Chunks!AllocateFromNewChunk, Chunks!large
  <2> QED
    BY <1>0, <2>1, <2>2, LargeUnchanged DEF PoolInv
<1>4. ASSUME NEW b \in blocks, Chunks!Deallocate(b[1], b[2]) PROVE PoolInv'
  <2>1. <<b[1], b[2]>> \in blocks
    BY <1>0 DEF SmallInv, ChunksThreaded
  <2>2. SmallInv'
    BY <1>0, <1>4, <2>1, PoolsDeallocate
  <2>3. UNCHANGED <<mSegments, segments, mallocs>>
    BY <1>4 DEF Chunks!Deallocate, Chunks!large
  <2> QED
    BY <1>0, <2>2, <2>3, LargeUnchanged DEF PoolInv
<1>5. ASSUME Chunks!AllocateSegment PROVE PoolInv'
  <2>1. LargeInv'
    BY <1>0, <1>5, PoolsAllocateSegment
  <2>2. UNCHANGED <<mChunks, buffer, mLastAlloc, mLastFree, blocks, invalid>>
    BY <1>5 DEF Chunks!AllocateSegment, Chunks!small
  <2> QED
    BY <1>0, <2>1, <2>2, SmallUnchanged DEF PoolInv
<1>6. ASSUME NEW s \in segments, Chunks!DeallocateSegment(s) PROVE PoolInv'
  <2>1. LargeInv'
    BY <1>0, <1>6, PoolsDeallocateSegment
  <2>2. UNCHANGED <<mChunks, buffer, mLastAlloc, mLastFree, blocks, invalid>>
    BY <1>6 DEF Chunks!DeallocateSegment, Chunks!small
  <2> QED
    BY <1>0, <2>1, <2>2, SmallUnchanged DEF PoolInv
<1>7. CASE UNCHANGED Chunks!vars
  BY <1>0, <1>7, SmallUnchanged, LargeUnchanged
  DEF Chunks!vars, Chunks!small, Chunks!large, PoolInv
<1>8. CASE Chunks!Next
  BY <1>1, <1>2, <1>3, <1>4, <1>5, <1>6, <1>8 DEF Chunks!Next
<1> QED
  BY <1>7, <1>8

LEMMA PoolInvImplies == PoolInv => Chunks!TypeOK /\ PoolsSound
<1> SUFFICES ASSUME PoolInv PROVE Chunks!TypeOK /\ PoolsSound
  OBVIOUS
<1>0. SmallTypeOK /\ PointersValid /\ ChunksThreaded /\ invalid = FALSE /\ LargeInv
  BY DEF PoolInv, SmallInv
<1>1. mChunks \in Seq(Chunks!Chunk) /\ DOMAIN mChunks = 1 .. Len(mChunks)
  BY <1>0 DEF SmallTypeOK
<1>2. Chunks!TypeOK
  <2>1. blocks \subseteq (1 .. MaxChunks) \X Chunks!Index
    <3>1. DOMAIN mChunks \subseteq 1 .. MaxChunks
      BY <1>0, <1>1, ChunkConstants DEF SmallTypeOK
    <3> QED
      BY <1>0, <3>1 DEF ChunksThreaded
  <2>2. buffer \in 0 .. MaxChunks
    BY <1>0, <1>1, ChunkConstants DEF SmallTypeOK, PointersValid
  <2> QED
    BY <1>0, <2>1, <2>2 DEF Chunks!TypeOK, SmallTypeOK, LargeInv
<1>3. Chunks!PointersFollowTheVector
  BY <1>0 DEF PointersValid, Chunks!PointersFollowTheVector, Chunks!Dangles
<1>4. \A S : Chunks!Cardinality(S) = Cardinality(S)
  BY DEF Cardinality, Chunks!Cardinality
<1>5. ASSUME NEW k \in DOMAIN mChunks
      PROVE  LET list == Chunks!FreeList(mChunks[k])
                 free == {i \in Chunks!Index : <<k, i>> \notin blocks}
             IN  /\ Len(list) = Cardinality(free)
                 /\ {list[n] : n \in DOMAIN list} = free
  <2> DEFINE N == mChunks[k].mNumFreeBlocks
  <2>1. mChunks[k] \in Chunks!Chunk /\ FreeBlocksOf(k) \in SUBSET Chunks!Index
    BY <1>1 DEF FreeBlocksOf
  <2>2. PICK t : Threads(t, mChunks[k], FreeBlocksOf(k))
    BY <1>0 DEF ChunksThreaded
  <2>3. Chunks!FreeList(mChunks[k]) = t
    BY <2>1, <2>2, FreeListIsThread
  <2>4. Cardinality(FreeBlocksOf(k)) = N
    BY <2>1, <2>2, ThreadsCount
  <2>5. N \in Nat
    BY <2>1, ChunkConstants DEF Chunks!Chunk
  <2>6. DOMAIN t = 1 .. N /\ t \in [1 .. N -> Chunks!Index]
    BY <2>2 DEF Threads
  <2>7. Len(t) = N
    BY <2>5, <2>6
  <2>8. {t[n] : n \in DOMAIN t} = FreeBlocksOf(k)
    BY <2>2, <2>6 DEF Threads
  <2> QED
    BY <2>3, <2>4, <2>7, <2>8 DEF FreeBlocksOf
<1>6. {mSegments[n] : n \in DOMAIN mSegments} \cup segments = 1 .. mallocs
  <2>1. mSegments \in Seq(1 .. mallocs) /\ segments \subseteq 1 .. mallocs
    BY <1>0 DEF LargeInv
  <2>2. \A s \in 1 .. mallocs : \/ s \in segments
                               \/ \E n \in DOMAIN mSegments : mSegments[n] = s
    <3>1. DOMAIN mSegments = 1 .. Len(mSegments)
      BY <2>1
    <3>2. \A s \in 1 .. mallocs : \/ s \in segments
                                 \/ \E n \in 1 .. Len(mSegments) : mSegments[n] = s
      BY <1>0 DEF LargeInv, SegmentsApart
    <3> QED
      BY <3>1, <3>2
  <2>3. \A n \in DOMAIN mSegments : mSegments[n] \in 1 .. mallocs
    <3>1. DOMAIN mSegments = 1 .. Len(mSegments)
      BY <2>1
    <3>2. \A n \in 1 .. Len(mSegments) : mSegments[n] \in 1 .. mallocs
      BY <2>1, ElementOfSeq
    <3> QED
      BY <3>1, <3>2
  <2> QED
    BY <2>1, <2>2, <2>3
<1>7. Len(mSegments) + Cardinality(segments) = mallocs
  BY <1>0 DEF LargeInv
<1>8. Chunks!FreeListsExact
  BY <1>4, <1>5, <1>6, <1>7 DEF Chunks!FreeListsExact
<1> QED
  BY <1>2, <1>3, <1>8 DEF PoolsSound

\* The packet allocator's variables have their types.
THEOREM PoolTypeCorrect == Chunks!Spec => []Chunks!TypeOK
<1>1. Chunks!Init => PoolInv
  BY PoolInit
<1>2. PoolInv /\ [Chunks!Next]_Chunks!vars => PoolInv'
  BY PoolStep
<1>3. PoolInv => Chunks!TypeOK
  BY PoolInvImplies
<1> QED
  BY <1>1, <1>2, <1>3, PTL DEF Chunks!Spec

\* The list that SmallObjectPool threads through its free blocks lists each of
\* them once, SimplePool keeps every segment once, and neither mLastAlloc nor
\* mLastFree is followed into a buffer that the vector has left.
THEOREM PoolsAreSound == Chunks!Spec => []PoolsSound
<1>1. Chunks!Init => PoolInv
  BY PoolInit
<1>2. PoolInv /\ [Chunks!Next]_Chunks!vars => PoolInv'
  BY PoolStep
<1>3. PoolInv => PoolsSound
  BY PoolInvImplies
<1> QED
  BY <1>1, <1>2, <1>3, PTL DEF Chunks!Spec

(***************************************************************************)
(* LockOrderChecker: Locks                                                 *)
(***************************************************************************)

LEMMA LockConstants == IsFiniteSet(Mutexes) /\ None \notin Mutexes /\ MaxHeld \in Nat
BY SequentialParameters DEF Locks!LockOrderParameters, IsFiniteSet, Locks!IsFiniteSet

Pairs == Mutexes \X Mutexes

\* What can be reached from m by one or more of the pairs of E.
ClosedFrom(E, m, set) == \A p \in E : p[1] \in set \cup {m} => p[2] \in set
After(E, m) ==
    {y \in Mutexes : \A set \in SUBSET Mutexes : ClosedFrom(E, m, set) => y \in set}

LEMMA AfterFacts ==
    ASSUME NEW E \in SUBSET Pairs, NEW m
    PROVE  /\ After(E, m) \subseteq Mutexes
           /\ \A y, z : <<y, z>> \in E /\ y \in After(E, m) \cup {m} => z \in After(E, m)
           /\ \A set \in SUBSET Mutexes : ClosedFrom(E, m, set) => After(E, m) \subseteq set
<1>1. After(E, m) \subseteq Mutexes
  BY DEF After
<1>2. ASSUME NEW y, NEW z, <<y, z>> \in E, y \in After(E, m) \cup {m}
      PROVE  z \in After(E, m)
  <2>1. z \in Mutexes
    BY <1>2 DEF Pairs
  <2>2. ASSUME NEW set \in SUBSET Mutexes, ClosedFrom(E, m, set)
        PROVE  z \in set
    <3>1. y \in set \cup {m}
      BY <1>2, <2>2 DEF After
    <3>2. <<y, z>>[1] = y /\ <<y, z>>[2] = z
      OBVIOUS
    <3> QED
      BY <1>2, <2>2, <3>1, <3>2 DEF ClosedFrom
  <2> QED
    BY <2>1, <2>2 DEF After
<1>3. \A set \in SUBSET Mutexes : ClosedFrom(E, m, set) => After(E, m) \subseteq set
  BY DEF After
<1> QED
  BY <1>1, <1>2, <1>3

\* What can be reached from something that can be reached.
LEMMA AfterAfter ==
    ASSUME NEW E \in SUBSET Pairs, NEW m, NEW y \in After(E, m)
    PROVE  After(E, y) \subseteq After(E, m)
<1>1. ASSUME NEW p \in E, p[1] \in After(E, m) \cup {y}
      PROVE  p[2] \in After(E, m)
  <2>1. p = <<p[1], p[2]>>
    BY DEF Pairs
  <2> QED
    BY <1>1, <2>1, AfterFacts
<1>2. ClosedFrom(E, y, After(E, m))
  BY <1>1 DEF ClosedFrom
<1> QED
  BY <1>2, AfterFacts

\* What can be reached is one step away, or can be reached from there.
LEMMA AfterFirst ==
    ASSUME NEW E \in SUBSET Pairs, NEW m, NEW y \in After(E, m)
    PROVE  \E c \in Mutexes : <<m, c>> \in E /\ (y = c \/ y \in After(E, c))
<1> DEFINE set == {z \in Mutexes : \E c \in Mutexes :
                                      <<m, c>> \in E /\ (z = c \/ z \in After(E, c))}
<1>1. ASSUME NEW p \in E, p[1] \in set \cup {m}
      PROVE  p[2] \in set
  <2>1. p = <<p[1], p[2]>> /\ p[2] \in Mutexes
    BY DEF Pairs
  <2>2. CASE p[1] = m
    BY <2>1, <2>2
  <2>3. CASE p[1] \in set
    <3>1. PICK c \in Mutexes : <<m, c>> \in E /\ (p[1] = c \/ p[1] \in After(E, c))
      BY <2>3
    <3>2. p[2] \in After(E, c)
      BY <2>1, <3>1, AfterFacts
    <3> QED
      BY <2>1, <3>1, <3>2
  <2> QED
    BY <1>1, <2>2, <2>3
<1>2. ClosedFrom(E, m, set)
  BY <1>1 DEF ClosedFrom
<1>3. set \in SUBSET Mutexes
  OBVIOUS
<1> HIDE DEF set
<1>4. y \in set
  BY <1>2, <1>3, AfterFacts
<1> QED
  BY <1>4 DEF set

\* Relations between which every pair is a path reach as far as each other.
LEMMA AfterSame ==
    ASSUME NEW D \in SUBSET Pairs, NEW E \in SUBSET Pairs, D \subseteq E,
           \A p \in E : p[2] \in After(D, p[1]), NEW m
    PROVE  After(E, m) = After(D, m)
<1>1. After(D, m) \subseteq After(E, m)
  <2>1. ASSUME NEW p \in D, p[1] \in After(E, m) \cup {m}
        PROVE  p[2] \in After(E, m)
    <3>1. p = <<p[1], p[2]>> /\ p \in E
      BY DEF Pairs
    <3> QED
      BY <2>1, <3>1, AfterFacts
  <2>2. ClosedFrom(D, m, After(E, m)) /\ After(E, m) \in SUBSET Mutexes
    BY <2>1, AfterFacts DEF ClosedFrom
  <2> QED
    BY <2>2, AfterFacts
<1>2. After(E, m) \subseteq After(D, m)
  <2>1. ASSUME NEW p \in E, p[1] \in After(D, m) \cup {m}
        PROVE  p[2] \in After(D, m)
    <3>1. p[2] \in After(D, p[1])
      OBVIOUS
    <3> QED
      BY <2>1, <3>1, AfterAfter
  <2>2. ClosedFrom(E, m, After(D, m)) /\ After(D, m) \in SUBSET Mutexes
    BY <2>1, AfterFacts DEF ClosedFrom
  <2> QED
    BY <2>2, AfterFacts
<1> QED
  BY <1>1, <1>2

\* The mutexes from which a circle can be reached.
LeadToCycle(E) ==
    {n \in Mutexes : n \in After(E, n) \/ \E m \in After(E, n) : m \in After(E, m)}

LEMMA LeadToCycleFacts ==
    ASSUME NEW E \in SUBSET Pairs
    PROVE  /\ \A n, c \in Mutexes : <<n, c>> \in E /\ c \in LeadToCycle(E) => n \in LeadToCycle(E)
           /\ \A n \in LeadToCycle(E) : \E c \in LeadToCycle(E) : <<n, c>> \in E
<1>1. ASSUME NEW n \in Mutexes, NEW c \in Mutexes, <<n, c>> \in E, c \in LeadToCycle(E)
      PROVE  n \in LeadToCycle(E)
  <2>1. c \in After(E, n)
    BY <1>1, AfterFacts
  <2>2. After(E, c) \subseteq After(E, n)
    BY <2>1, AfterAfter
  <2> QED
    BY <1>1, <2>1, <2>2 DEF LeadToCycle
<1>2. ASSUME NEW n \in LeadToCycle(E)
      PROVE  \E c \in LeadToCycle(E) : <<n, c>> \in E
  <2>1. PICK m \in After(E, n) : m \in After(E, m)
    BY DEF LeadToCycle
  <2>2. PICK c \in Mutexes : <<n, c>> \in E /\ (m = c \/ m \in After(E, c))
    BY AfterFirst
  <2>3. c \in LeadToCycle(E)
    BY <2>1, <2>2 DEF LeadToCycle
  <2> QED
    BY <2>2, <2>3
<1> QED
  BY <1>1, <1>2

-----------------------------------------------------------------------------
(* FindCycle() *)

EdgesOf(graph) == {p \in Pairs : p[2] \in graph[p[1]]}

\* One call of FindCycle() that finds a cycle, given which calls do.
FindsGiven(graph, call, calls) ==
    \E child \in graph[call[1]] :
        child \in call[2] \/ <<child, call[2] \cup {call[1]}>> \in calls

\* The recursion has a solution.
LEMMA FindCycleExists ==
    ASSUME NEW graph \in [Mutexes -> SUBSET Mutexes]
    PROVE  \E f : f = [call \in Mutexes \X SUBSET Mutexes |->
                          \E child \in graph[call[1]] :
                              \/ child \in call[2]
                              \/ f[<<child, call[2] \cup {call[1]}>>]]
<1> DEFINE Calls == Mutexes \X SUBSET Mutexes
           Closed(T) == \A call \in Calls : FindsGiven(graph, call, T) => call \in T
           L == {call \in Calls : \A T \in SUBSET Calls : Closed(T) => call \in T}
           f == [call \in Calls |-> call \in L]
<1>1. \A T \in SUBSET Calls : Closed(T) => L \subseteq T
  OBVIOUS
<1>2. ASSUME NEW S, NEW T, S \subseteq T, NEW call, FindsGiven(graph, call, S)
      PROVE  FindsGiven(graph, call, T)
  BY <1>2 DEF FindsGiven
<1>3. Closed(L)
  <2> SUFFICES ASSUME NEW call \in Calls, FindsGiven(graph, call, L),
                      NEW T \in SUBSET Calls, Closed(T)
               PROVE  call \in T
    OBVIOUS
  <2>1. L \subseteq T
    BY <1>1
  <2>2. FindsGiven(graph, call, T)
    BY <1>2, <2>1
  <2> QED
    BY <2>2
<1>4. \A call \in L : FindsGiven(graph, call, L)
  <2> DEFINE T == {call \in Calls : FindsGiven(graph, call, L)}
  <2>1. T \subseteq L
    BY <1>3
  <2>2. Closed(T)
    <3> SUFFICES ASSUME NEW call \in Calls, FindsGiven(graph, call, T)
                 PROVE  FindsGiven(graph, call, L)
      OBVIOUS
    <3> HIDE DEF T, L
    <3> QED
      BY <1>2, <2>1
  <2>3. T \in SUBSET Calls
    OBVIOUS
  <2> HIDE DEF L, Closed
  <2>4. L \subseteq T
    BY <1>1, <2>2, <2>3
  <2> QED
    BY <2>4
<1>5. L \subseteq Calls
  OBVIOUS
<1> HIDE DEF L
<1>6. \A call \in Calls : call \in L <=> FindsGiven(graph, call, L)
  BY <1>3, <1>4
<1> DEFINE finds(call) == \E child \in graph[call[1]] :
                            \/ child \in call[2]
                            \/ f[<<child, call[2] \cup {call[1]}>>]
<1>7. ASSUME NEW call \in Calls
      PROVE  call \in L <=> finds(call)
  <2>1. ASSUME NEW child \in graph[call[1]]
        PROVE  f[<<child, call[2] \cup {call[1]}>>]
                 = (<<child, call[2] \cup {call[1]}>> \in L)
    <3>1. <<child, call[2] \cup {call[1]}>> \in Calls
      OBVIOUS
    <3> QED
      BY <3>1
  <2> HIDE DEF f
  <2>2. FindsGiven(graph, call, L) => finds(call)
    BY <2>1, Zenon DEF FindsGiven
  <2>3. finds(call) => FindsGiven(graph, call, L)
    BY <2>1, Zenon DEF FindsGiven
  <2>4. call \in L <=> FindsGiven(graph, call, L)
    BY <1>6
  <2> HIDE DEF finds
  <2> QED
    BY <2>2, <2>3, <2>4, Zenon
<1>8. ASSUME NEW call \in Calls PROVE (call \in L) = finds(call)
  <2>1. CASE call \in L
    <3>1. finds(call) = TRUE
      BY <1>7, <2>1, Zenon
    <3>2. (call \in L) = TRUE
      BY <2>1, Zenon
    <3> HIDE DEF finds
    <3> QED
      BY <3>1, <3>2
  <2>2. CASE call \notin L
    <3>1. finds(call) = FALSE
      BY <1>7, <2>2, Zenon
    <3>2. (call \in L) = FALSE
      BY <2>2, SMT
    <3> HIDE DEF finds
    <3> QED
      BY <3>1, <3>2
  <2> QED
    BY <2>1, <2>2
<1>9. f = [call \in Calls |-> finds(call)]
  <2> HIDE DEF finds
  <2> QED
    BY <1>8
<1> HIDE DEF f
<1> QED
  BY <1>9 DEF finds

\* What FindCycle() returns, one call from the next.
LEMMA FindCycleAt ==
    ASSUME NEW graph \in [Mutexes -> SUBSET Mutexes],
           NEW n \in Mutexes, NEW P \in SUBSET Mutexes
    PROVE  /\ Locks!FindCycle(graph)[<<n, P>>] \in BOOLEAN
           /\ Locks!FindCycle(graph)[<<n, P>>]
                <=> \E child \in graph[n] :
                       child \in P \/ Locks!FindCycle(graph)[<<child, P \cup {n}>>]
<1> DEFINE find == Locks!FindCycle(graph)
<1>1. find = CHOOSE f : f = [call \in Mutexes \X SUBSET Mutexes |->
                          \E child \in graph[call[1]] :
                              \/ child \in call[2]
                              \/ f[<<child, call[2] \cup {call[1]}>>]]
  BY DEF Locks!FindCycle
<1> HIDE DEF find
<1>2. find = [call \in Mutexes \X SUBSET Mutexes |->
                          \E child \in graph[call[1]] :
                              \/ child \in call[2]
                              \/ find[<<child, call[2] \cup {call[1]}>>]]
  BY <1>1, FindCycleExists, Zenon
<1>3. <<n, P>> \in Mutexes \X SUBSET Mutexes /\ <<n, P>>[1] = n /\ <<n, P>>[2] = P
  OBVIOUS
<1>4. find[<<n, P>>] = (\E child \in graph[<<n, P>>[1]] :
                              \/ child \in <<n, P>>[2]
                              \/ find[<<child, <<n, P>>[2] \cup {<<n, P>>[1]}>>])
  BY <1>2, <1>3, Zenon
<1>5. find[<<n, P>>] = (\E child \in graph[n] :
                              child \in P \/ find[<<child, P \cup {n}>>])
  BY <1>3, <1>4, Zenon
<1>6. find[<<n, P>>] \in BOOLEAN
  BY <1>5, SMT
<1> QED
  BY <1>5, <1>6, Zenon DEF find

\* Induction over the mutexes that a path has not visited yet.
LEMMA PathInduction ==
    ASSUME NEW Good,
           \A n \in Mutexes, P \in SUBSET Mutexes :
              (\A m \in Mutexes \ P : \A c \in Mutexes : <<c, P \cup {m}>> \in Good)
                => <<n, P>> \in Good
    PROVE  \A n \in Mutexes, P \in SUBSET Mutexes : <<n, P>> \in Good
<1> DEFINE Left(P) == Cardinality(Mutexes \ P)
           S == {k \in Nat : \A n \in Mutexes, P \in SUBSET Mutexes :
                                 Left(P) = k => <<n, P>> \in Good}
<1>1. ASSUME NEW P \in SUBSET Mutexes
      PROVE  IsFiniteSet(Mutexes \ P) /\ Left(P) \in Nat
  BY LockConstants, FS_Difference, FS_CardinalityType
<1>2. ASSUME NEW P \in SUBSET Mutexes, NEW m \in Mutexes \ P
      PROVE  Left(P \cup {m}) = Left(P) - 1
  <2>1. Mutexes \ (P \cup {m}) = (Mutexes \ P) \ {m}
    OBVIOUS
  <2>2. IsFiniteSet(Mutexes \ P) /\ m \in Mutexes \ P
    BY <1>1
  <2>3. Cardinality((Mutexes \ P) \ {m}) = Cardinality(Mutexes \ P) - 1
    BY <2>2, FS_RemoveElement, Zenon
  <2> QED
    BY <2>1, <2>3, Zenon
<1>3. 0 \in S
  <2> SUFFICES ASSUME NEW n \in Mutexes, NEW P \in SUBSET Mutexes, Left(P) = 0
               PROVE  <<n, P>> \in Good
    OBVIOUS
  <2>1. Mutexes \ P = {}
    BY <1>1, FS_EmptySet
  <2> QED
    BY <2>1
<1>4. ASSUME NEW k \in Nat, k \in S
      PROVE  k + 1 \in S
  <2> SUFFICES ASSUME NEW n \in Mutexes, NEW P \in SUBSET Mutexes, Left(P) = k + 1
               PROVE  <<n, P>> \in Good
    OBVIOUS
  <2>1. ASSUME NEW m \in Mutexes \ P, NEW c \in Mutexes
        PROVE  <<c, P \cup {m}>> \in Good
    <3>1. P \cup {m} \in SUBSET Mutexes
      OBVIOUS
    <3>2. Left(P \cup {m}) = k
      <4>1. Left(P \cup {m}) = Left(P) - 1
        BY <1>2
      <4> HIDE DEF Left
      <4> QED
        BY <4>1
    <3> QED
      BY <1>4, <3>1, <3>2
  <2> QED
    BY <2>1
<1> HIDE DEF S
<1>5. \A k \in Nat : k \in S
  BY <1>3, <1>4, SetInduction
<1> QED
  <2> TAKE n \in Mutexes, P \in SUBSET Mutexes
  <2>1. Left(P) \in S
    BY <1>1, <1>5
  <2> QED
    BY <2>1 DEF S

LEMMA EdgesOfFacts ==
    ASSUME NEW graph \in [Mutexes -> SUBSET Mutexes]
    PROVE  /\ EdgesOf(graph) \in SUBSET Pairs
           /\ \A n \in Mutexes : \A c : <<n, c>> \in EdgesOf(graph) <=> c \in graph[n]
<1>1. EdgesOf(graph) \in SUBSET Pairs
  BY DEF EdgesOf
<1>2. ASSUME NEW n \in Mutexes, NEW c
      PROVE  <<n, c>> \in EdgesOf(graph) <=> c \in graph[n]
  <2>1. <<n, c>>[1] = n /\ <<n, c>>[2] = c /\ graph[n] \in SUBSET Mutexes
    OBVIOUS
  <2> QED
    BY <2>1 DEF EdgesOf, Pairs
<1> QED
  BY <1>1, <1>2

\* What FindCycle() finds is real: from a mutex to which the path leads, a
\* circle can be reached.
LEMMA FindCycleIsRight ==
    ASSUME NEW graph \in [Mutexes -> SUBSET Mutexes]
    PROVE  \A n \in Mutexes, P \in SUBSET Mutexes :
             /\ \A p \in P : n \in After(EdgesOf(graph), p)
             /\ Locks!FindCycle(graph)[<<n, P>>]
             => n \in LeadToCycle(EdgesOf(graph))
<1> DEFINE E == EdgesOf(graph)
           LeadsTo(P, n) == \A p \in P : n \in After(E, p)
           Right(n, P) == LeadsTo(P, n) /\ Locks!FindCycle(graph)[<<n, P>>]
                            => n \in LeadToCycle(E)
           Good == {call \in Mutexes \X SUBSET Mutexes : Right(call[1], call[2])}
<1>1. E \in SUBSET Pairs
  BY EdgesOfFacts
<1>2. ASSUME NEW n \in Mutexes, NEW P \in SUBSET Mutexes
      PROVE  <<n, P>> \in Good <=> Right(n, P)
  <2>1. <<n, P>> \in Mutexes \X SUBSET Mutexes /\ <<n, P>>[1] = n /\ <<n, P>>[2] = P
    OBVIOUS
  <2> HIDE DEF Right
  <2> QED
    BY <2>1
<1>3. ASSUME NEW n \in Mutexes, NEW P \in SUBSET Mutexes,
             \A m \in Mutexes \ P : \A c \in Mutexes : <<c, P \cup {m}>> \in Good,
             LeadsTo(P, n), Locks!FindCycle(graph)[<<n, P>>]
      PROVE  n \in LeadToCycle(E)
  <2>1. PICK c \in graph[n] : c \in P \/ Locks!FindCycle(graph)[<<c, P \cup {n}>>]
    BY <1>3, FindCycleAt, Zenon
  <2>2. c \in Mutexes /\ <<n, c>> \in E
    BY EdgesOfFacts
  <2>3. c \in After(E, n)
    BY <1>1, <2>2, AfterFacts
  <2>4. CASE c \in P
    <3>1. n \in After(E, c) /\ After(E, c) \subseteq After(E, n)
      BY <1>1, <1>3, <2>3, <2>4, AfterAfter
    <3> QED
      BY <3>1 DEF LeadToCycle
  <2>5. CASE n \in P
    BY <1>3, <2>5 DEF LeadToCycle
  <2>6. CASE n \notin P /\ Locks!FindCycle(graph)[<<c, P \cup {n}>>]
    <3>1. P \cup {n} \in SUBSET Mutexes /\ <<c, P \cup {n}>> \in Good
      BY <1>3, <2>2, <2>6
    <3>2. LeadsTo(P \cup {n}, c)
      <4> SUFFICES ASSUME NEW p \in P \cup {n} PROVE c \in After(E, p)
        OBVIOUS
      <4> HIDE DEF E
      <4>1. CASE p = n
        BY <2>3, <4>1
      <4>2. CASE p \in P
        BY <1>1, <1>3, <2>2, <4>2, AfterFacts
      <4> QED
        BY <4>1, <4>2
    <3>3. Right(c, P \cup {n})
      BY <1>2, <2>2, <3>1
    <3>4. c \in LeadToCycle(E)
      BY <2>6, <3>2, <3>3, Zenon
    <3> QED
      BY <1>1, <2>2, <3>4, LeadToCycleFacts
  <2> QED
    BY <2>1, <2>4, <2>5, <2>6
<1> HIDE DEF Good
<1>4. \A n \in Mutexes, P \in SUBSET Mutexes : <<n, P>> \in Good
  <2>1. \A n \in Mutexes, P \in SUBSET Mutexes :
              (\A m \in Mutexes \ P : \A c \in Mutexes : <<c, P \cup {m}>> \in Good)
                => <<n, P>> \in Good
    BY <1>2, <1>3, Zenon
  <2> QED
    BY <2>1, PathInduction, Zenon
<1> QED
  BY <1>2, <1>4, Zenon

\* And it finds a circle from wherever one can be reached.
LEMMA FindCycleIsComplete ==
    ASSUME NEW graph \in [Mutexes -> SUBSET Mutexes]
    PROVE  \A n \in Mutexes, P \in SUBSET Mutexes :
             n \in LeadToCycle(EdgesOf(graph)) => Locks!FindCycle(graph)[<<n, P>>]
<1> DEFINE E == EdgesOf(graph)
           find == Locks!FindCycle(graph)
           Found(n, P) == n \in LeadToCycle(E) => find[<<n, P>>]
           Good == {call \in Mutexes \X SUBSET Mutexes : Found(call[1], call[2])}
<1>1. E \in SUBSET Pairs
  BY EdgesOfFacts
<1>2. ASSUME NEW n \in Mutexes, NEW P \in SUBSET Mutexes
      PROVE  <<n, P>> \in Good <=> Found(n, P)
  <2>1. <<n, P>> \in Mutexes \X SUBSET Mutexes /\ <<n, P>>[1] = n /\ <<n, P>>[2] = P
    OBVIOUS
  <2> HIDE DEF Found
  <2> QED
    BY <2>1
<1>3. ASSUME NEW n \in Mutexes, NEW P \in SUBSET Mutexes, NEW c \in graph[n],
             c \in P \/ find[<<c, P \cup {n}>>]
      PROVE  find[<<n, P>>]
  BY <1>3, FindCycleAt, Zenon
<1>4. ASSUME NEW n \in LeadToCycle(E)
      PROVE  \E c \in LeadToCycle(E) : c \in Mutexes /\ c \in graph[n]
  <2>1. PICK c \in LeadToCycle(E) : <<n, c>> \in E
    BY <1>1, LeadToCycleFacts
  <2>2. n \in Mutexes /\ c \in Mutexes
    BY DEF LeadToCycle
  <2> QED
    BY <2>1, <2>2, EdgesOfFacts
<1> HIDE DEF E, find
<1>5. ASSUME NEW n \in Mutexes, NEW P \in SUBSET Mutexes,
             \A m \in Mutexes \ P : \A c \in Mutexes : <<c, P \cup {m}>> \in Good,
             n \in LeadToCycle(E)
      PROVE  find[<<n, P>>]
  <2>1. ASSUME NEW m \in Mutexes \ P, NEW c \in Mutexes, c \in LeadToCycle(E)
        PROVE  find[<<c, P \cup {m}>>]
    <3>1. P \cup {m} \in SUBSET Mutexes /\ <<c, P \cup {m}>> \in Good
      BY <1>5
    <3>2. Found(c, P \cup {m})
      BY <1>2, <3>1
    <3> QED
      BY <2>1, <3>2, Zenon
  <2>2. PICK c \in LeadToCycle(E) : c \in Mutexes /\ c \in graph[n]
    BY <1>4, <1>5
  <2>3. CASE c \in P
    BY <1>3, <2>2, <2>3, Zenon
  <2>4. CASE n \notin P
    <3>1. n \in Mutexes \ P
      BY <2>4
    <3>2. find[<<c, P \cup {n}>>]
      BY <2>1, <2>2, <3>1, Zenon
    <3> QED
      BY <1>3, <2>2, <3>2, Zenon
  <2>5. CASE n \in P /\ c \notin P
    <3>1. c \in Mutexes \ P
      BY <2>2, <2>5
    <3>2. PICK d \in LeadToCycle(E) : d \in Mutexes /\ d \in graph[c]
      BY <1>4
    <3>3. find[<<d, P \cup {c}>>]
      BY <2>1, <3>1, <3>2, Zenon
    <3>4. find[<<c, P>>]
      BY <1>3, <2>2, <3>2, <3>3, Zenon
    <3>5. P \cup {n} = P
      BY <2>5
    <3> QED
      BY <1>3, <2>2, <3>4, <3>5, Zenon
  <2> QED
    BY <2>3, <2>4, <2>5
<1> HIDE DEF Good
<1>6. \A n \in Mutexes, P \in SUBSET Mutexes : <<n, P>> \in Good
  <2>1. \A n \in Mutexes, P \in SUBSET Mutexes :
              (\A m \in Mutexes \ P : \A c \in Mutexes : <<c, P \cup {m}>> \in Good)
                => <<n, P>> \in Good
    BY <1>2, <1>5, Zenon
  <2> QED
    BY <2>1, PathInduction, Zenon
<1> QED
  BY <1>2, <1>6, Zenon DEF E, find

\* FindCycle() decides whether a circle can be reached from where it starts.
LEMMA FindCycleFinds ==
    ASSUME NEW graph \in [Mutexes -> SUBSET Mutexes], NEW n \in Mutexes
    PROVE  Locks!FindCycle(graph)[<<n, {}>>] <=> n \in LeadToCycle(EdgesOf(graph))
<1>1. {} \in SUBSET Mutexes /\ \A p \in {} : n \in After(EdgesOf(graph), p)
  OBVIOUS
<1> QED
  BY <1>1, FindCycleIsRight, FindCycleIsComplete, Zenon

-----------------------------------------------------------------------------
(* What the checker keeps of the locks *)

LEMMA AfterGrows ==
    ASSUME NEW D \in SUBSET Pairs, NEW E \in SUBSET Pairs, D \subseteq E, NEW m
    PROVE  After(D, m) \subseteq After(E, m)
<1>1. ClosedFrom(E, m, After(E, m)) /\ After(E, m) \in SUBSET Mutexes
  <2>1. ASSUME NEW p \in E, p[1] \in After(E, m) \cup {m} PROVE p[2] \in After(E, m)
    <3>1. p = <<p[1], p[2]>>
      BY DEF Pairs
    <3> QED
      BY <2>1, <3>1, AfterFacts
  <2> QED
    BY <2>1, AfterFacts DEF ClosedFrom
<1>2. ClosedFrom(D, m, After(E, m))
  BY <1>1 DEF ClosedFrom
<1> QED
  BY <1>1, <1>2, AfterFacts

\* The locks that are held hang together by the edges.
Chained(graph, held) == \A i \in 1 .. Len(held) - 1 : held[i + 1] \in graph[held[i]]

LEMMA HeldReach ==
    ASSUME NEW graph \in [Mutexes -> SUBSET Mutexes], NEW held \in Seq(Mutexes),
           Chained(graph, held)
    PROVE  \A i \in 1 .. Len(held) - 1 :
              held[Len(held)] \in After(EdgesOf(graph), held[i])
<1> DEFINE E == EdgesOf(graph)
           last == held[Len(held)]
           S == {k \in Nat : 1 <= k /\ k < Len(held) => last \in After(E, held[Len(held) - k])}
<1>1. E \in SUBSET Pairs
  BY EdgesOfFacts
<1>2. 0 \in S
  OBVIOUS
<1>3. ASSUME NEW k \in Nat, k \in S
      PROVE  k + 1 \in S
  <2> SUFFICES ASSUME k + 1 < Len(held)
               PROVE  last \in After(E, held[Len(held) - (k + 1)])
    OBVIOUS
  <2> DEFINE i == Len(held) - (k + 1)
  <2>1. i \in 1 .. Len(held) - 1 /\ i + 1 = Len(held) - k /\ i + 1 \in 1 .. Len(held)
        /\ i \in 1 .. Len(held)
    <3>1. Len(held) \in Nat
      OBVIOUS
    <3> QED
      BY <3>1
  <2> HIDE DEF i
  <2>2. held[i + 1] \in graph[held[i]] /\ held[i] \in Mutexes /\ held[i + 1] \in Mutexes
    BY <2>1, ElementOfSeq DEF Chained
  <2>3. held[i + 1] \in After(E, held[i])
    <3>1. <<held[i], held[i + 1]>> \in E
      BY <2>2, EdgesOfFacts
    <3> QED
      BY <1>1, <3>1, AfterFacts
  <2>4. CASE k = 0
    BY <2>1, <2>3, <2>4
  <2>5. CASE k # 0
    <3>1. last \in After(E, held[i + 1])
      BY <1>3, <2>1, <2>5
    <3>2. After(E, held[i + 1]) \subseteq After(E, held[i])
      BY <1>1, <2>3, AfterAfter
    <3> QED
      BY <3>1, <3>2 DEF i
  <2> QED
    BY <2>4, <2>5 DEF i
<1> HIDE DEF S
<1>4. \A k \in Nat : k \in S
  BY <1>2, <1>3, SetInduction
<1> QED
  <2> TAKE i \in 1 .. Len(held) - 1
  <2>1. Len(held) - i \in Nat /\ 1 <= Len(held) - i /\ Len(held) - i < Len(held)
        /\ Len(held) - (Len(held) - i) = i
    OBVIOUS
  <2>2. Len(held) - i \in S
    BY <1>4, <2>1
  <2> QED
    BY <2>1, <2>2 DEF S

\* Every edge is a nesting that happened; every nesting is a path of edges.
Recorded(graph, nestings) ==
    /\ EdgesOf(graph) \subseteq nestings
    /\ \A p \in nestings : p[2] \in After(EdgesOf(graph), p[1])

\* So the search of the graph reports what the nestings say.
LEMMA SearchReports ==
    ASSUME NEW graph \in [Mutexes -> SUBSET Mutexes], NEW root \in Mutexes,
           NEW nestings \in SUBSET Pairs, Recorded(graph, nestings)
    PROVE  Locks!FindCycle(graph)[<<root, {}>>]
             <=> \E m \in After(nestings, root) \cup {root} : m \in After(nestings, m)
<1> DEFINE E == EdgesOf(graph)
<1>1. E \in SUBSET Pairs
  BY EdgesOfFacts
<1>2. \A m : After(nestings, m) = After(E, m)
  <2> TAKE m
  <2>1. E \subseteq nestings /\ \A p \in nestings : p[2] \in After(E, p[1])
    BY DEF Recorded
  <2> HIDE DEF E
  <2> QED
    BY <1>1, <2>1, AfterSame
<1>3. Locks!FindCycle(graph)[<<root, {}>>] <=> root \in LeadToCycle(E)
  BY FindCycleFinds
<1>4. root \in LeadToCycle(E)
        <=> \E m \in After(E, root) \cup {root} : m \in After(E, m)
  BY DEF LeadToCycle
<1> HIDE DEF E
<1>5. root \in LeadToCycle(E)
        <=> \E m \in After(nestings, root) \cup {root} : m \in After(nestings, m)
  BY <1>2, <1>4, Zenon
<1> QED
  BY <1>3, <1>5, Zenon

\* One more nesting of m under everything that is held, of which only the
\* innermost becomes an edge.
OneMore(graph, held, nestings, m, graphN, heldN, nestingsN) ==
    /\ graph \in [Mutexes -> SUBSET Mutexes] /\ graphN \in [Mutexes -> SUBSET Mutexes]
    /\ held \in Seq(Mutexes) /\ m \in Mutexes /\ heldN = Append(held, m)
    /\ nestings \in SUBSET Pairs
    /\ Chained(graph, held) /\ Recorded(graph, nestings)
    /\ \A n \in Mutexes : \A c : c \in graphN[n] <=>
          c \in graph[n] \/ (held # << >> /\ n = held[Len(held)] /\ c = m)
    /\ \A p : p \in nestingsN <=>
          p \in nestings \/ \E i \in DOMAIN held : p = <<held[i], m>>

LEMMA OneMoreLock ==
    ASSUME NEW graph, NEW held, NEW nestings, NEW m, NEW graphN, NEW heldN, NEW nestingsN,
           OneMore(graph, held, nestings, m, graphN, heldN, nestingsN)
    PROVE  /\ Chained(graphN, heldN)
           /\ nestingsN \in SUBSET Pairs
           /\ Recorded(graphN, nestingsN)
<1> USE DEF OneMore
<1> DEFINE more == {<<held[i], m>> : i \in DOMAIN held}
<1>0. nestingsN = nestings \cup more
  OBVIOUS
<1>1. \A i \in 1 .. Len(held) : held[i] \in Mutexes
  OBVIOUS
<1>2. DOMAIN held = 1 .. Len(held) /\ Len(held) \in Nat
  OBVIOUS
<1>3. more \in SUBSET Pairs
  BY <1>1, <1>2 DEF Pairs
<1>4. graphN \in [Mutexes -> SUBSET Mutexes]
  OBVIOUS
<1>5. \A n \in Mutexes : graph[n] \subseteq graphN[n]
  OBVIOUS
<1>6. held # << >> => m \in graphN[held[Len(held)]]
  <2> SUFFICES ASSUME held # << >> PROVE m \in graphN[held[Len(held)]]
    OBVIOUS
  <2>1. Len(held) \in 1 .. Len(held)
    OBVIOUS
  <2>2. held[Len(held)] \in Mutexes
    BY <1>1, <2>1
  <2> QED
    BY <2>2
<1>7. Chained(graphN, Append(held, m))
  <2> SUFFICES ASSUME NEW i \in 1 .. Len(held)
               PROVE  Append(held, m)[i + 1] \in graphN[Append(held, m)[i]]
    BY <1>2 DEF Chained
  <2>1. Append(held, m)[i] = held[i]
    BY <1>2
  <2>2. CASE i = Len(held)
    <3>1. Append(held, m)[i + 1] = m /\ held # << >>
      BY <1>2, <2>2
    <3> QED
      BY <1>6, <2>1, <2>2, <3>1
  <2>3. CASE i # Len(held)
    <3>1. i \in 1 .. Len(held) - 1 /\ i + 1 \in 1 .. Len(held)
      <4> DEFINE n == Len(held)
      <4>1. n \in Nat /\ i \in 1 .. n /\ i # n
        BY <1>2, <2>3
      <4> HIDE DEF n
      <4>2. i \in 1 .. n - 1 /\ i + 1 \in 1 .. n
        BY <4>1
      <4> QED
        BY <4>2 DEF n
    <3>3. Append(held, m)[i + 1] = held[i + 1]
      BY <3>1
    <3>2. held[i + 1] \in graph[held[i]]
      BY <3>1 DEF Chained
    <3> QED
      BY <1>1, <1>5, <2>1, <3>2, <3>3
  <2> QED
    BY <2>2, <2>3
<1>8. EdgesOf(graph) \in SUBSET Pairs /\ EdgesOf(graphN) \in SUBSET Pairs
  BY <1>4, EdgesOfFacts
<1>9. EdgesOf(graph) \subseteq EdgesOf(graphN)
  BY <1>5 DEF EdgesOf, Pairs
<1>10. EdgesOf(graphN) \subseteq nestings \cup more
  <2> SUFFICES ASSUME NEW p \in EdgesOf(graphN), p \notin EdgesOf(graph)
               PROVE  p \in more
    BY DEF Recorded
  <2>1. p \in Pairs /\ p[2] \in graphN[p[1]] /\ p[2] \notin graph[p[1]]
    BY DEF EdgesOf
  <2>2. p = <<p[1], p[2]>> /\ p[1] \in Mutexes
    BY <2>1 DEF Pairs
  <2>3. held # << >>
    BY <2>1, <2>2
  <2>4. Len(held) \in DOMAIN held
    BY <1>2, <2>3
  <2>5. p[1] = held[Len(held)] /\ p[2] = m
    BY <2>1, <2>2, <2>3
  <2> QED
    BY <2>2, <2>4, <2>5
<1>11. ASSUME NEW p \in nestings \cup more
       PROVE  p[2] \in After(EdgesOf(graphN), p[1])
  <2>1. CASE p \in nestings
    <3>1. p[2] \in After(EdgesOf(graph), p[1])
      BY <2>1 DEF Recorded
    <3>2. After(EdgesOf(graph), p[1]) \subseteq After(EdgesOf(graphN), p[1])
      BY <1>8, <1>9, AfterGrows
    <3> QED
      BY <3>1, <3>2
  <2>2. CASE p \in more
    <3>1. PICK i \in DOMAIN held : p = <<held[i], m>>
      BY <2>2
    <3>2. Append(held, m) \in Seq(Mutexes) /\ Len(Append(held, m)) = Len(held) + 1
      OBVIOUS
    <3>3. i \in 1 .. Len(Append(held, m)) - 1
      BY <1>2, <3>2
    <3>4. Append(held, m)[Len(Append(held, m))] = m /\ Append(held, m)[i] = held[i]
      <4>1. i \in 1 .. Len(held)
        BY <1>2
      <4>2. Append(held, m)[Len(held) + 1] = m /\ Append(held, m)[i] = held[i]
        BY <4>1
      <4> QED
        BY <3>2, <4>2
    <3>5. m \in After(EdgesOf(graphN), held[i])
      <4>1. /\ heldN \in Seq(Mutexes) /\ Chained(graphN, heldN)
            /\ i \in 1 .. Len(heldN) - 1 /\ heldN[Len(heldN)] = m /\ heldN[i] = held[i]
        BY <1>7, <3>2, <3>3, <3>4
      <4>2. heldN[Len(heldN)] \in After(EdgesOf(graphN), heldN[i])
        BY <1>4, <4>1, HeldReach
      <4> QED
        BY <4>1, <4>2
    <3> QED
      BY <3>1, <3>5
  <2> QED
    BY <2>1, <2>2
<1> QED
  BY <1>0, <1>3, <1>4, <1>7, <1>10, <1>11 DEF Recorded

\* Giving the innermost lock back breaks nothing.
LEMMA OneLockLess ==
    ASSUME NEW graph, NEW held \in Seq(mNodes), held # << >>, Chained(graph, held)
    PROVE  /\ SubSeq(held, 1, Len(held) - 1) \in Seq(mNodes)
           /\ Chained(graph, SubSeq(held, 1, Len(held) - 1))
<1> DEFINE rest == SubSeq(held, 1, Len(held) - 1)
<1>1. /\ rest \in Seq(mNodes) /\ Len(rest) = Len(held) - 1 /\ Len(held) \in Nat
      /\ \A i \in 1 .. Len(rest) : rest[i] = held[i]
  <2>1. Len(held) \in Nat \ {0} /\ \A i \in 1 .. Len(held) : held[i] \in mNodes
    OBVIOUS
  <2>6. /\ 1 \in Int /\ Len(held) - 1 \in Int
        /\ \A i \in 1 .. Len(held) - 1 : held[i] \in mNodes
    BY <2>1
  <2>3. /\ rest \in Seq(mNodes)
        /\ Len(rest) = IF 1 <= Len(held) - 1 THEN Len(held) - 1 - 1 + 1 ELSE 0
        /\ \A i \in 1 .. Len(held) - 1 - 1 + 1 : rest[i] = held[1 + i - 1]
    BY <2>6, SubSeqProperties
  <2> HIDE DEF rest
  <2>4. Len(rest) = Len(held) - 1
    <3> DEFINE n == Len(held)
    <3>1. n \in Nat \ {0} /\ Len(rest) = IF 1 <= n - 1 THEN n - 1 - 1 + 1 ELSE 0
      BY <2>1, <2>3
    <3> HIDE DEF n
    <3>2. Len(rest) = n - 1
      BY <3>1
    <3> QED
      BY <3>2 DEF n
  <2>5. ASSUME NEW i \in 1 .. Len(rest) PROVE rest[i] = held[i]
    <3>1. i \in 1 .. Len(held) - 1 - 1 + 1 /\ 1 + i - 1 = i
      BY <2>1, <2>4
    <3> QED
      BY <2>3, <3>1
  <2> QED
    BY <2>1, <2>3, <2>4, <2>5
<1> HIDE DEF rest
<1>2. Chained(graph, rest)
  <2> SUFFICES ASSUME NEW i \in 1 .. Len(rest) - 1
               PROVE  rest[i + 1] \in graph[rest[i]]
    BY DEF Chained
  <2>1. i \in 1 .. Len(held) - 1 /\ i \in 1 .. Len(rest) /\ i + 1 \in 1 .. Len(rest)
    BY <1>1
  <2>2. rest[i] = held[i] /\ rest[i + 1] = held[i + 1]
    BY <1>1, <2>1
  <2> QED
    BY <2>1, <2>2 DEF Chained
<1> QED
  BY <1>1, <1>2 DEF rest

-----------------------------------------------------------------------------
(* The invariant of the checker *)

LockInv ==
    /\ Locks!TypeOK
    /\ Chained(children, mLastNodes)
    /\ Recorded(children, nested)
    /\ Locks!ReportsWhatRootReaches

\* The property, in the terms of the lemmas.
LEMMA ReportsIs ==
    Locks!ReportsWhatRootReaches
      <=> (detected <=> \E m \in After(nested, mRootNode) \cup {mRootNode} :
                           m \in Mutexes /\ m \in After(nested, m))
BY DEF Locks!ReportsWhatRootReaches, Locks!Inconsistent, Locks!FromRoot,
       Locks!TakenUnder, After, ClosedFrom

LEMMA SeqGrows ==
    ASSUME NEW S, NEW T, S \subseteq T, NEW s \in Seq(S)
    PROVE  s \in Seq(T)
OBVIOUS

LEMMA LockInit == Locks!Init => LockInv
<1> SUFFICES ASSUME Locks!Init PROVE LockInv
  OBVIOUS
<1> USE DEF Locks!Init
<1>1. Locks!TypeOK
  <2>1. mLastNodes \in Seq(mNodes)
    BY EmptySeq
  <2>2. mRootNode \in IF mNodes = {} THEN {None} ELSE mNodes
    OBVIOUS
  <2> QED
    BY <2>1, <2>2 DEF Locks!TypeOK
<1>2. Chained(children, mLastNodes)
  <2>1. mLastNodes = << >> /\ Len(mLastNodes) = 0
    OBVIOUS
  <2> QED
    BY <2>1 DEF Chained
<1>3. Recorded(children, nested)
  BY DEF Recorded, EdgesOf, Pairs
<1>4. \A m : After(nested, m) = {}
  <2> TAKE m
  <2>1. ClosedFrom(nested, m, {}) /\ {} \in SUBSET Mutexes
    BY DEF ClosedFrom
  <2> QED
    BY <2>1 DEF After
<1>5. Locks!ReportsWhatRootReaches
  BY <1>4, ReportsIs
<1> QED
  BY <1>1, <1>2, <1>3, <1>5 DEF LockInv

LEMMA LockStep == LockInv /\ [Locks!Next]_(Locks!vars) => LockInv'
<1> SUFFICES ASSUME LockInv, [Locks!Next]_(Locks!vars) PROVE LockInv'
  OBVIOUS
<1>0. /\ mNodes \subseteq Mutexes /\ mRootNode \in IF mNodes = {} THEN {None} ELSE mNodes
      /\ children \in [Mutexes -> SUBSET Mutexes]
      /\ mLastNodes \in Seq(mNodes) /\ detected \in BOOLEAN
      /\ nested \in SUBSET Pairs
  BY DEF LockInv, Locks!TypeOK, Pairs
<1>1. ASSUME NEW m \in Mutexes, Locks!Lock(m)
      PROVE  LockInv'
  <2>1. mLastNodes \in Seq(Mutexes)
    BY <1>0, SeqGrows
  <2>2. /\ children' \in [Mutexes -> SUBSET Mutexes]
        /\ Chained(children', mLastNodes')
        /\ nested' \in SUBSET Pairs
        /\ Recorded(children', nested')
    <3>1. children' = IF mLastNodes = << >> THEN children
                      ELSE [children EXCEPT ![mLastNodes[Len(mLastNodes)]] = @ \cup {m}]
      BY <1>1 DEF Locks!Lock
    <3>2. /\ mLastNodes' = Append(mLastNodes, m)
          /\ nested' = nested \cup {<<mLastNodes[i], m>> : i \in DOMAIN mLastNodes}
      BY <1>1 DEF Locks!Lock
    <3>3. Chained(children, mLastNodes) /\ Recorded(children, nested)
      BY DEF LockInv
    <3>8. mLastNodes' = Append(mLastNodes, m)
      BY <3>2
    <3>6. children' \in [Mutexes -> SUBSET Mutexes]
      BY <1>0, <3>1
    <3>7. \A n \in Mutexes : \A c : c \in children'[n] <=>
             c \in children[n] \/ (mLastNodes # << >> /\ n = mLastNodes[Len(mLastNodes)] /\ c = m)
      BY <1>0, <3>1
    <3>4. \A p : p \in nested' <=> \/ p \in nested
                                    \/ \E i \in DOMAIN mLastNodes : p = <<mLastNodes[i], m>>
      BY <3>2
    <3> QED
      <4>1. OneMore(children, mLastNodes, nested, m, children', mLastNodes', nested')
        BY <1>0, <2>1, <3>3, <3>4, <3>6, <3>7, <3>8 DEF OneMore
      <4> QED
        BY <3>6, <4>1, OneMoreLock
  <2>3. mNodes' = mNodes \cup {m} /\ mRootNode' = IF mNodes = {} THEN m ELSE mRootNode
    BY <1>1 DEF Locks!Lock
  <2>4. mRootNode' \in mNodes' /\ mNodes' \in SUBSET Mutexes /\ mNodes' # {}
    BY <1>0, <2>3
  <2>5. mLastNodes' \in Seq(mNodes')
    <3>1. mLastNodes \in Seq(mNodes') /\ m \in mNodes'
      BY <1>0, <2>3, SeqGrows
    <3>2. mLastNodes' = Append(mLastNodes, m)
      BY <1>1 DEF Locks!Lock
    <3> QED
      BY <3>1, <3>2, AppendProperties
  <2>6. detected' = Locks!FindCycle(children')[<<mRootNode', {}>>]
    BY <1>1 DEF Locks!Lock
  <2>7. detected' \in BOOLEAN
    BY <2>2, <2>4, <2>6, FindCycleAt
  <2>8. detected' <=> \E n \in After(nested', mRootNode') \cup {mRootNode'} :
                         n \in After(nested', n)
    BY <2>2, <2>4, <2>6, SearchReports
  <2>9. (Locks!ReportsWhatRootReaches)'
    BY <2>8 DEF Locks!ReportsWhatRootReaches, Locks!Inconsistent, Locks!FromRoot,
                Locks!TakenUnder, After, ClosedFrom
  <2>10. (Locks!TypeOK)'
    BY <2>2, <2>4, <2>5, <2>7 DEF Locks!TypeOK, Pairs
  <2> QED
    BY <2>2, <2>9, <2>10 DEF LockInv
<1>2. ASSUME Locks!Unlock
      PROVE  LockInv'
  <2>1. UNCHANGED <<mRootNode, mNodes, children, detected, nested>>
    BY <1>2 DEF Locks!Unlock
  <2>2. mLastNodes' \in Seq(mNodes) /\ Chained(children, mLastNodes')
    BY <1>0, <1>2, OneLockLess DEF Locks!Unlock, LockInv
  <2>3. (Locks!TypeOK)'
    BY <1>0, <2>1, <2>2 DEF Locks!TypeOK, Pairs
  <2>4. (Locks!ReportsWhatRootReaches)'
    BY <2>1 DEF LockInv, Locks!ReportsWhatRootReaches, Locks!Inconsistent,
                Locks!FromRoot, Locks!TakenUnder
  <2> QED
    BY <2>1, <2>2, <2>3, <2>4 DEF LockInv
<1>3. ASSUME UNCHANGED Locks!vars
      PROVE  LockInv'
  BY <1>3 DEF Locks!vars, LockInv, Locks!TypeOK, Locks!ReportsWhatRootReaches,
              Locks!Inconsistent, Locks!FromRoot, Locks!TakenUnder
<1> QED
  BY <1>1, <1>2, <1>3 DEF Locks!Next

LEMMA LockInvariant == Locks!Spec => []LockInv
BY LockInit, LockStep, PTL DEF Locks!Spec

\* Every variable of the lock-order checker keeps its type: the graph is one of
\* nodes that were added, and the last lock held is always a node of it.
THEOREM LockTypeCorrect == Locks!Spec => []Locks!TypeOK
<1>1. LockInv => Locks!TypeOK
  BY DEF LockInv
<1> QED
  BY <1>1, LockInvariant, PTL

\* A warning is printed exactly when, among the mutexes that were ever taken
\* under the first one, some have been taken in inconsistent order, although
\* Graph::push() draws an edge from the innermost lock only and FindCycle()
\* follows one path at a time.
THEOREM CheckerReports == Locks!Spec => []ReportsWhatRootReaches
<1>1. LockInv => ReportsWhatRootReaches
  BY DEF LockInv, ReportsWhatRootReaches
<1> QED
  BY <1>1, LockInvariant, PTL

(***************************************************************************)
(* BuddyPool: Buddies                                                      *)
(***************************************************************************)

Level == Buddies!Level
Top   == Buddies!Top
Size(k) == Buddies!BlockSize[k]
Count(k) == Buddies!BlockCount(k)

LEMMA BuddyConstants ==
    /\ Levels \in Nat \ {0} /\ TopBlocks \in Nat \ {0}
    /\ MaxSize \in Nat \ {0} /\ MaxHeap \in Nat
    /\ Level = 0 .. Top /\ Top \in Nat /\ 0 \in Level /\ Top \in Level
BY SequentialParameters DEF Buddies!BuddyPoolParameters, Level, Top, Buddies!Level, Buddies!Top

\* The sizes of the blocks are doubled from level to level.
Doubles(s, m) == s = [n \in 0 .. m |-> IF n = 0 THEN 1 ELSE 2 * s[n - 1]]

LEMMA SizesExist ==
    ASSUME NEW N \in Nat
    PROVE  \E s : Doubles(s, N)
<1> DEFINE S == {m \in Nat : \E s : Doubles(s, m)}
<1>1. 0 \in S
  <2> DEFINE s == [n \in 0 .. 0 |-> 1]
  <2>1. Doubles(s, 0)
    BY DEF Doubles
  <2> QED
    BY <2>1
<1>2. ASSUME NEW m \in Nat, m \in S PROVE m + 1 \in S
  <2>1. PICK s : Doubles(s, m)
    BY <1>2
  <2> DEFINE t == [n \in 0 .. m + 1 |-> IF n = m + 1 THEN 2 * s[m] ELSE s[n]]
  <2>2. \A n \in 0 .. m : s[n] = IF n = 0 THEN 1 ELSE 2 * s[n - 1]
    BY <2>1 DEF Doubles
  <2>3. \A n \in 0 .. m + 1 : t[n] = IF n = 0 THEN 1 ELSE 2 * t[n - 1]
    BY <2>2
  <2>4. t = [n \in 0 .. m + 1 |-> t[n]]
    OBVIOUS
  <2> HIDE DEF t
  <2>5. Doubles(t, m + 1)
    BY <2>3, <2>4 DEF Doubles
  <2> QED
    BY <2>5
<1> HIDE DEF S
<1>3. \A n \in Nat : n \in S
  BY <1>1, <1>2, SetInduction
<1> QED
  BY <1>3 DEF S

LEMMA SizeFacts ==
    /\ Size(0) = 1
    /\ \A k \in Level : Size(k) \in Nat \ {0}
    /\ \A k \in Level : k < Top => Size(k + 1) = 2 * Size(k)
<1> DEFINE size == Buddies!BlockSize
<1>1. size = CHOOSE s : s = [n \in Level |-> IF n = 0 THEN 1 ELSE 2 * s[n - 1]]
  BY DEF Buddies!BlockSize, Level
<1>2. \E s : s = [n \in Level |-> IF n = 0 THEN 1 ELSE 2 * s[n - 1]]
  BY BuddyConstants, SizesExist DEF Doubles
<1> HIDE DEF size
<1>3. size = [n \in Level |-> IF n = 0 THEN 1 ELSE 2 * size[n - 1]]
  BY <1>1, <1>2, Zenon
<1>4. \A n \in Level : size[n] = IF n = 0 THEN 1 ELSE 2 * size[n - 1]
  BY <1>3
<1>5. size[0] = 1
  BY <1>4, BuddyConstants
<1>6. ASSUME NEW k \in Level, k < Top PROVE size[k + 1] = 2 * size[k]
  <2>1. k + 1 \in Level /\ k + 1 # 0 /\ (k + 1) - 1 = k
    BY <1>6, BuddyConstants
  <2> QED
    BY <1>4, <2>1
<1> DEFINE S == {k \in Nat : k <= Top => size[k] \in Nat \ {0}}
<1>7. 0 \in S
  BY <1>5
<1>8. ASSUME NEW k \in Nat, k \in S PROVE k + 1 \in S
  <2> SUFFICES ASSUME k + 1 <= Top PROVE size[k + 1] \in Nat \ {0}
    OBVIOUS
  <2>1. k \in Level /\ k < Top /\ size[k] \in Nat \ {0}
    BY <1>8, BuddyConstants
  <2>2. size[k + 1] = 2 * size[k]
    BY <1>6, <2>1
  <2> QED
    BY <2>1, <2>2
<1> HIDE DEF S
<1>9. \A k \in Nat : k \in S
  BY <1>7, <1>8, SetInduction
<1>10. \A k \in Level : size[k] \in Nat \ {0}
  BY <1>9, BuddyConstants DEF S
<1> QED
  BY <1>5, <1>6, <1>10 DEF size, Size

\* And their numbers halved: together the blocks of a level make up the memory.
LEMMA CountFacts ==
    /\ Count(Top) = TopBlocks
    /\ \A k \in Level : Count(k) \in Nat \ {0} /\ Count(k) <= Count(0)
    /\ \A k \in Level : k < Top => Count(k) = 2 * Count(k + 1)
    /\ \A k \in Level : Count(k) * Size(k) = Count(0)
<1>0. \A k \in Level : Count(k) = TopBlocks * Size(Top - k)
  BY DEF Count, Buddies!BlockCount, Size, Top
<1>1. \A k \in Level : Top - k \in Level
  BY BuddyConstants
<1>2. Count(Top) = TopBlocks
  <2>1. Top - Top = 0
    BY BuddyConstants
  <2> QED
    BY <1>0, <2>1, SizeFacts, BuddyConstants
<1>3. ASSUME NEW k \in Level PROVE Count(k) \in Nat \ {0}
  <2>1. Size(Top - k) \in Nat \ {0}
    BY <1>1, SizeFacts
  <2> DEFINE size == Size(Top - k)
  <2> HIDE DEF size
  <2>2. TopBlocks * size \in Nat \ {0}
    BY <2>1, BuddyConstants DEF size
  <2> QED
    BY <1>0, <2>2 DEF size
<1>4. ASSUME NEW k \in Level, k < Top
      PROVE  k + 1 \in Level /\ Count(k) = 2 * Count(k + 1)
  <2> DEFINE j == Top - (k + 1)
  <2>1. k + 1 \in Level /\ j \in Level /\ j < Top /\ j + 1 = Top - k
    BY <1>4, BuddyConstants
  <2>2. Size(j) \in Nat /\ Size(j + 1) = 2 * Size(j)
    BY <2>1, SizeFacts
  <2>3. Count(k) = TopBlocks * Size(j + 1) /\ Count(k + 1) = TopBlocks * Size(j)
    BY <1>0, <2>1
  <2> HIDE DEF j
  <2>4. TopBlocks * (2 * Size(j)) = 2 * (TopBlocks * Size(j))
    BY <2>2, BuddyConstants
  <2> QED
    BY <2>1, <2>2, <2>3, <2>4
<1> HIDE DEF Level, Top
<1> DEFINE S == {k \in Nat : k <= Top => Count(k) <= Count(0) /\ Count(k) * Size(k) = Count(0)}
<1>5. 0 \in S
  BY <1>3, BuddyConstants, SizeFacts
<1>6. ASSUME NEW k \in Nat, k \in S PROVE k + 1 \in S
  <2> SUFFICES ASSUME k + 1 <= Top
               PROVE  Count(k + 1) <= Count(0) /\ Count(k + 1) * Size(k + 1) = Count(0)
    OBVIOUS
  <2>1. k \in Level /\ k < Top /\ k + 1 \in Level /\ 0 \in Level
        /\ k <= Top
    BY BuddyConstants
  <2>2. /\ Count(k) \in Nat /\ Count(k + 1) \in Nat /\ Count(0) \in Nat
        /\ Count(k) = 2 * Count(k + 1)
        /\ Size(k) \in Nat /\ Size(k + 1) = 2 * Size(k)
    BY <1>3, <1>4, <2>1, SizeFacts
  <2>3. Count(k) <= Count(0) /\ Count(k) * Size(k) = Count(0)
    BY <1>6, <2>1
  <2>4. Count(k + 1) * (2 * Size(k)) = (2 * Count(k + 1)) * Size(k)
    BY <2>2
  <2> QED
    BY <2>2, <2>3, <2>4
<1> HIDE DEF S
<1>7. \A k \in Nat : k \in S
  BY <1>5, <1>6, SetInduction
<1>8. \A k \in Level : Count(k) <= Count(0) /\ Count(k) * Size(k) = Count(0)
  BY <1>7, BuddyConstants DEF S
<1> QED
  BY <1>2, <1>3, <1>4, <1>8

-----------------------------------------------------------------------------
(* The block of each level that a unit of memory is in *)

Units   == Buddies!Offsets
At(k, u) == u \div Size(k)
Buddy(i) == Buddies!Buddy(i)

LEMMA QuotientIs ==
    ASSUME NEW R \in Nat \ {0}, NEW a \in Nat, NEW q \in Nat, NEW x \in 0 .. R - 1,
           a = R * q + x
    PROVE  a \div R = q
<1> DEFINE p == a \div R
           y == a % R
<1>1. p \in Nat /\ y \in 0 .. R - 1 /\ a = R * p + y
  BY Division
<1> HIDE DEF p, y
<1>2. ASSUME NEW u \in Nat, NEW v \in Nat, u < v PROVE R * u + R <= R * v
  <2>1. PICK w \in Nat : v = u + 1 + w
    <3>1. v - u - 1 \in Nat /\ v = u + 1 + (v - u - 1)
      BY <1>2
    <3> QED
      BY <3>1
  <2>2. R * (u + 1 + w) = R * u + R + R * w
    OBVIOUS
  <2>3. R * w \in Nat /\ R * u \in Nat
    OBVIOUS
  <2> QED
    BY <2>1, <2>2, <2>3
<1>3. R * p \in Nat /\ R * q \in Nat
  BY <1>1
<1>4. ~(p < q) /\ ~(q < p)
  BY <1>1, <1>2, <1>3
<1>5. p = q
  BY <1>1, <1>4
<1> QED
  BY <1>5 DEF p

LEMMA AtFacts ==
    ASSUME NEW u \in Nat
    PROVE  /\ \A k \in Level : At(k, u) \in Nat
           /\ At(0, u) = u
           /\ \A k \in Level : k < Top => At(k + 1, u) = At(k, u) \div 2
<1>1. ASSUME NEW k \in Level PROVE At(k, u) \in Nat
  <2>1. Size(k) \in Nat \ {0}
    BY SizeFacts
  <2> QED
    BY <2>1, Division DEF At
<1>2. At(0, u) = u
  BY SizeFacts DEF At
<1>3. ASSUME NEW k \in Level, k < Top PROVE At(k + 1, u) = At(k, u) \div 2
  <2> DEFINE R == Size(k)
             a == u \div R
             r == u % R
             h == a \div 2
             e == a % 2
  <2>1. R \in Nat \ {0} /\ Size(k + 1) = 2 * R
    BY <1>3, SizeFacts
  <2> HIDE DEF R
  <2>2. a \in Nat /\ r \in 0 .. R - 1 /\ u = R * a + r
    BY <2>1, Division
  <2> HIDE DEF a, r
  <2>3. h \in Nat /\ e \in 0 .. 1 /\ a = 2 * h + e
    BY <2>2
  <2> HIDE DEF h, e
  <2>4. R * a = (2 * R) * h + R * e /\ R * e \in {0, R}
    <3>1. R * (2 * h + e) = (2 * R) * h + R * e
      BY <2>1, <2>3
    <3>2. e = 0 \/ e = 1
      BY <2>3
    <3> QED
      BY <2>1, <2>3, <3>1, <3>2
  <2> DEFINE Q == 2 * R
             x == R * e + r
  <2>5. Q \in Nat \ {0} /\ x \in 0 .. Q - 1
    BY <2>1, <2>2, <2>4
  <2>6. u = Q * h + x
    <3>1. Q * h \in Nat /\ R * e \in Nat /\ R * a = Q * h + R * e
      BY <2>1, <2>3, <2>4
    <3> DEFINE Qh == Q * h
               Re == R * e
               Ra == R * a
    <3>2. Qh \in Nat /\ Re \in Nat /\ Ra = Qh + Re /\ u = Ra + r /\ r \in Nat
      BY <2>1, <2>2, <3>1
    <3> HIDE DEF Qh, Re, Ra
    <3>3. u = Qh + (Re + r)
      BY <3>2
    <3> QED
      BY <3>3 DEF Qh, Re
  <2> HIDE DEF x
  <2>7. u \div Q = h
    <3> HIDE DEF Q
    <3> QED
      BY <2>3, <2>5, <2>6, QuotientIs
  <2> QED
    BY <2>1, <2>7 DEF At, Q, R, h, a
<1> QED
  BY <1>1, <1>2, <1>3

LEMMA UnitsFacts ==
    /\ Units = 0 .. Count(0) - 1 /\ Units \subseteq Nat
    /\ \A k \in Level, u \in Units : At(k, u) \in 0 .. Count(k) - 1
    /\ \A k \in Level : \A i \in 0 .. Count(k) - 1 : i * Size(k) \in Units /\ At(k, i * Size(k)) = i
    /\ \A k \in Level, i \in Nat, u \in Nat : u \in Buddies!Units(k, i) <=> At(k, u) = i
<1>1. Units = 0 .. Count(0) - 1 /\ Units \subseteq Nat /\ Count(0) \in Nat
  BY CountFacts, BuddyConstants DEF Units, Buddies!Offsets, Count
<1> DEFINE S == {k \in Nat : k <= Top => \A u \in Units : At(k, u) \in 0 .. Count(k) - 1}
<1>2. 0 \in S
  BY <1>1, AtFacts
<1>3. ASSUME NEW k \in Nat, k \in S PROVE k + 1 \in S
  <2> SUFFICES ASSUME k + 1 <= Top, NEW u \in Units
               PROVE  At(k + 1, u) \in 0 .. Count(k + 1) - 1
    OBVIOUS
  <2>1. k \in Level /\ k < Top /\ k <= Top /\ k + 1 \in Level /\ u \in Nat
    BY <1>1, BuddyConstants
  <2>2. At(k + 1, u) = At(k, u) \div 2 /\ Count(k) = 2 * Count(k + 1) /\ Count(k + 1) \in Nat
    BY <2>1, AtFacts, CountFacts
  <2>3. At(k, u) \in 0 .. Count(k) - 1
    BY <1>3, <2>1
  <2> DEFINE a == At(k, u)
             c == Count(k + 1)
  <2>4. a \in 0 .. 2 * c - 1 /\ c \in Nat
    BY <2>2, <2>3
  <2> HIDE DEF a, c
  <2>5. a \div 2 \in 0 .. c - 1
    BY <2>4
  <2> QED
    BY <2>2, <2>5 DEF a, c
<1> HIDE DEF S
<1>4. \A k \in Nat : k \in S
  BY <1>2, <1>3, SetInduction
<1>5. \A k \in Level, u \in Units : At(k, u) \in 0 .. Count(k) - 1
  BY <1>4, BuddyConstants DEF S
<1>6. ASSUME NEW k \in Level, NEW i \in 0 .. Count(k) - 1
      PROVE  i * Size(k) \in Units /\ At(k, i * Size(k)) = i
  <2> DEFINE R == Size(k)
             c == Count(k)
             d == c - i - 1
  <2>1. R \in Nat \ {0} /\ c \in Nat /\ c * R = Count(0) /\ i \in 0 .. c - 1 /\ Count(0) \in Nat
    BY <1>1, SizeFacts, CountFacts
  <2> HIDE DEF R, c
  <2>2. i \in Nat /\ i * R \in Nat /\ i * R = R * i + 0 /\ 0 \in 0 .. R - 1
    BY <2>1
  <2>3. d \in Nat /\ d * R \in Nat /\ c = i + 1 + d
    BY <2>1
  <2> HIDE DEF d
  <2>4. (i + 1 + d) * R = i * R + R + d * R
    BY <2>1, <2>2, <2>3
  <2>5. i * R \in 0 .. Count(0) - 1
    BY <2>1, <2>2, <2>3, <2>4
  <2>6. (i * R) \div R = i
    BY <2>1, <2>2, QuotientIs
  <2> QED
    BY <1>1, <2>5, <2>6 DEF At, R
<1>7. ASSUME NEW k \in Level, NEW i \in Nat, NEW u \in Nat
      PROVE  u \in Buddies!Units(k, i) <=> At(k, u) = i
  <2> DEFINE R == Size(k)
  <2>1. R \in Nat \ {0}
    BY SizeFacts
  <2>2. Buddies!Units(k, i) = i * R .. (i + 1) * R - 1
    BY DEF Buddies!Units, Size
  <2>3. At(k, u) = u \div R
    BY DEF At
  <2> HIDE DEF R
  <2>4. i * R \in Nat /\ (i + 1) * R = i * R + R /\ i * R = R * i
    BY <2>1
  <2> DEFINE s == i * R
             t == (i + 1) * R
  <2>5. s \in Nat /\ t = s + R /\ s = R * i /\ Buddies!Units(k, i) = s .. t - 1
    BY <2>2, <2>4
  <2> HIDE DEF s, t
  <2>6. u \in Buddies!Units(k, i) <=> u - s \in 0 .. R - 1
    BY <2>1, <2>5
  <2>7. u - s \in 0 .. R - 1 => u \div R = i
    <3> DEFINE x == u - s
    <3>1. u = s + x
      BY <2>5
    <3> HIDE DEF x
    <3>2. x \in 0 .. R - 1 => u \div R = i
      BY <2>1, <2>5, <3>1, QuotientIs
    <3> QED
      BY <3>2 DEF x
  <2>8. u \div R = i => u - s \in 0 .. R - 1
    <3> SUFFICES ASSUME u \div R = i PROVE u - s \in 0 .. R - 1
      OBVIOUS
    <3> DEFINE x == u % R
    <3>1. u = R * (u \div R) + x /\ x \in 0 .. R - 1
      BY <2>1, Division
    <3> HIDE DEF x
    <3>2. u = s + x
      BY <2>5, <3>1
    <3> QED
      BY <2>1, <2>5, <3>1, <3>2
  <2> QED
    BY <2>3, <2>6, <2>7, <2>8
<1> QED
  BY <1>1, <1>5, <1>6, <1>7

\* Two blocks have the same parent if they are the same or buddies.
LEMMA BuddyFacts ==
    ASSUME NEW i \in Nat
    PROVE  /\ Buddy(i) \in Nat /\ Buddy(i) # i /\ Buddy(Buddy(i)) = i
           /\ \A j \in Nat : j \div 2 = i \div 2 <=> j = i \/ j = Buddy(i)
           /\ \A c \in Nat : i < 2 * c => Buddy(i) < 2 * c
           /\ Buddy(2 * i) = 2 * i + 1
           /\ (2 * i) \div 2 = i /\ (2 * i + 1) \div 2 = i
BY DEF Buddy, Buddies!Buddy

\* From a level where two units are in the same block on, they stay together.
LEMMA TogetherAbove ==
    ASSUME NEW u \in Nat, NEW o \in Nat, NEW k \in Level, NEW m \in Level, k <= m,
           At(k, u) = At(k, o)
    PROVE  At(m, u) = At(m, o)
<1> DEFINE S == {n \in Nat : k <= n /\ n <= Top => At(n, u) = At(n, o)}
<1>1. 0 \in S
  BY BuddyConstants
<1>2. ASSUME NEW n \in Nat, n \in S PROVE n + 1 \in S
  <2> SUFFICES ASSUME k <= n + 1, n + 1 <= Top PROVE At(n + 1, u) = At(n + 1, o)
    OBVIOUS
  <2>1. CASE k = n + 1
    BY <2>1
  <2>2. CASE k # n + 1
    <3>1. k <= n /\ n \in Level /\ n < Top /\ n <= Top
      BY <2>2, BuddyConstants
    <3>2. At(n, u) = At(n, o)
      BY <1>2, <3>1
    <3>3. At(n + 1, u) = At(n, u) \div 2 /\ At(n + 1, o) = At(n, o) \div 2
      BY <3>1, AtFacts
    <3> QED
      BY <3>2, <3>3
  <2> QED
    BY <2>1, <2>2
<1> HIDE DEF S
<1>3. \A n \in Nat : n \in S
  BY <1>1, <1>2, SetInduction
<1>4. m \in Nat /\ m <= Top
  BY BuddyConstants
<1> QED
  BY <1>3, <1>4 DEF S

\* A unit in the buddy of o's block of a level joins o one level further up.
LEMMA BuddyJoins ==
    ASSUME NEW u \in Nat, NEW o \in Nat, NEW k \in Level, k < Top,
           At(k, u) = Buddy(At(k, o))
    PROVE  /\ At(k, u) # At(k, o)
           /\ \A j \in Level : At(j, u) = At(j, o) <=> k < j
<1>1. At(k, u) \in Nat /\ At(k, o) \in Nat
  BY AtFacts
<1>2. At(k, u) # At(k, o)
  BY <1>1, BuddyFacts
<1>3. k + 1 \in Level /\ At(k + 1, u) = At(k + 1, o)
  <2>1. k + 1 \in Level
    BY BuddyConstants
  <2>2. At(k + 1, u) = At(k, u) \div 2 /\ At(k + 1, o) = At(k, o) \div 2
    BY AtFacts
  <2> QED
    BY <1>1, <2>1, <2>2, BuddyFacts
<1>4. ASSUME NEW j \in Level, k < j PROVE At(j, u) = At(j, o)
  <2>1. k + 1 <= j
    BY <1>4, BuddyConstants
  <2> QED
    BY <1>3, <2>1, TogetherAbove
<1>5. ASSUME NEW j \in Level, At(j, u) = At(j, o) PROVE k < j
  <2> SUFFICES ASSUME j <= k PROVE FALSE
    BY BuddyConstants
  <2> QED
    BY <1>2, <1>5, TogetherAbove
<1> QED
  BY <1>2, <1>4, <1>5

\* A unit in o's block of level m is in o's block of level l, or in the buddy
\* of o's block of a level from l to below m.
LEMMA Halves ==
    ASSUME NEW u \in Nat, NEW o \in Nat, NEW l \in Level, NEW m \in Level, l <= m,
           At(m, u) = At(m, o)
    PROVE  \/ At(l, u) = At(l, o)
           \/ \E k \in l .. m - 1 : At(k, u) = Buddy(At(k, o))
<1> DEFINE S == {n \in Nat : l <= n /\ n <= m /\ At(n, u) = At(n, o)
                              => \/ At(l, u) = At(l, o)
                                 \/ \E k \in l .. m - 1 : At(k, u) = Buddy(At(k, o))}
<1>0. l \in Nat /\ m \in Nat /\ m <= Top /\ Top \in Nat
  BY BuddyConstants
<1>1. 0 \in S
  BY <1>0
<1>2. ASSUME NEW n \in Nat, n \in S PROVE n + 1 \in S
  <2> SUFFICES ASSUME l <= n + 1, n + 1 <= m, At(n + 1, u) = At(n + 1, o)
               PROVE  \/ At(l, u) = At(l, o)
                      \/ \E k \in l .. m - 1 : At(k, u) = Buddy(At(k, o))
    OBVIOUS
  <2>1. CASE l = n + 1
    BY <2>1
  <2>2. CASE l # n + 1
    <3>1. l <= n /\ n <= m /\ n \in l .. m - 1 /\ n \in Level /\ n < Top
      BY <1>0, <2>2, BuddyConstants
    <3>2. At(n + 1, u) = At(n, u) \div 2 /\ At(n + 1, o) = At(n, o) \div 2
      BY <3>1, AtFacts
    <3>3. At(n, u) \in Nat /\ At(n, o) \in Nat
      BY <3>1, AtFacts
    <3>4. At(n, u) \div 2 = At(n, o) \div 2
      BY <3>2
    <3>5. At(n, u) = At(n, o) \/ At(n, u) = Buddy(At(n, o))
      BY <3>3, <3>4, BuddyFacts
    <3> QED
      BY <1>2, <3>1, <3>5
  <2> QED
    BY <2>1, <2>2
<1> HIDE DEF S
<1>3. \A n \in Nat : n \in S
  BY <1>1, <1>2, SetInduction
<1> QED
  BY <1>0, <1>3 DEF S

-----------------------------------------------------------------------------
(* Tilings *)

LevelBlock(b) == Buddies!LevelOf(b.size)
Covers(b, u)  == At(LevelBlock(b), u) = At(LevelBlock(b), b.offset)

\* Each unit is in one block, which is handed out or free.
Tiles(bits, held) ==
    \A u \in Units :
        /\ (\E b \in held : Covers(b, u)) \/ \E k \in Level : At(k, u) \in bits[k]
        /\ \A b, c \in held : Covers(b, u) /\ Covers(c, u) => b = c
        /\ \A j, k \in Level : At(j, u) \in bits[j] /\ At(k, u) \in bits[k] => j = k
        /\ \A b \in held, k \in Level : ~(Covers(b, u) /\ At(k, u) \in bits[k])

\* No block is free together with its buddy.
Merged(bits) == \A k \in Level : \A i \in bits[k] : k < Top => Buddy(i) \notin bits[k]

\* o's block of level l is handed out, out of o's block of level m, which was
\* free; of the levels between, the buddies of o's blocks are free instead.
Splits(bits, held, l, m, o, b, bitsN, heldN) ==
    /\ l \in Level /\ m \in Level /\ l <= m /\ o \in Units
    /\ LevelBlock(b) = l /\ b.offset = o
    /\ At(m, o) \in bits[m]
    /\ heldN = held \cup {b}
    /\ \A k \in Level, i \in Nat :
          i \in bitsN[k] <=> IF k = m THEN i \in bits[k] /\ i # At(m, o)
                             ELSE i \in bits[k] \/ (l <= k /\ k < m /\ i = Buddy(At(k, o)))

LEMMA SplitTiles ==
    ASSUME NEW bits, NEW held, NEW l, NEW m, NEW o, NEW b, NEW bitsN, NEW heldN,
           Splits(bits, held, l, m, o, b, bitsN, heldN), Tiles(bits, held)
    PROVE  Tiles(bitsN, heldN)
<1> SUFFICES ASSUME NEW u \in Units
             PROVE  /\ (\E c \in heldN : Covers(c, u)) \/ \E k \in Level : At(k, u) \in bitsN[k]
                    /\ \A c, d \in heldN : Covers(c, u) /\ Covers(d, u) => c = d
                    /\ \A j, k \in Level : At(j, u) \in bitsN[j] /\ At(k, u) \in bitsN[k] => j = k
                    /\ \A c \in heldN, k \in Level : ~(Covers(c, u) /\ At(k, u) \in bitsN[k])
  BY DEF Tiles
<1> DEFINE F(k)  == At(k, u) \in bits[k]
           FN(k) == At(k, u) \in bitsN[k]
           Half(k) == l <= k /\ k < m /\ At(k, u) = Buddy(At(k, o))
<1>1. /\ l \in Level /\ m \in Level /\ l <= m /\ o \in Nat /\ u \in Nat
      /\ heldN = held \cup {b}
  BY UnitsFacts DEF Splits
<1>2. \A k \in Level : FN(k) <=> IF k = m THEN F(k) /\ At(m, u) # At(m, o)
                                 ELSE F(k) \/ Half(k)
  BY <1>1, AtFacts DEF Splits
<1>3. Covers(b, u) <=> At(l, u) = At(l, o)
  BY DEF Covers, Splits
<1>4. /\ (\E c \in held : Covers(c, u)) \/ \E k \in Level : F(k)
      /\ \A c, d \in held : Covers(c, u) /\ Covers(d, u) => c = d
      /\ \A j, k \in Level : F(j) /\ F(k) => j = k
      /\ \A c \in held, k \in Level : ~(Covers(c, u) /\ F(k))
  BY DEF Tiles
<1>5. \A k \in Level : k <= Top /\ k \in Nat
  BY BuddyConstants
<1>6. \A k \in Level : Half(k) => /\ k < Top
                                  /\ \A j \in Level : At(j, u) = At(j, o) <=> k < j
  BY <1>1, <1>5, BuddyJoins, BuddyConstants
<1>7. CASE At(m, u) # At(m, o)
  <2>1. \A k \in Level : ~Half(k)
    BY <1>1, <1>6, <1>7
  <2>2. \A k \in Level : FN(k) <=> F(k)
    BY <1>2, <1>7, <2>1
  <2>3. ~Covers(b, u)
    BY <1>1, <1>3, <1>7, TogetherAbove
  <2> HIDE DEF F, FN, Half
  <2>4. \A c \in heldN : Covers(c, u) => c \in held
    BY <1>1, <2>3
  <2>5. \A c \in held : c \in heldN
    BY <1>1
  <2>6. /\ (\E c \in heldN : Covers(c, u)) \/ \E k \in Level : FN(k)
        /\ \A c, d \in heldN : Covers(c, u) /\ Covers(d, u) => c = d
        /\ \A j, k \in Level : FN(j) /\ FN(k) => j = k
        /\ \A c \in heldN, k \in Level : ~(Covers(c, u) /\ FN(k))
    BY <1>4, <2>2, <2>4, <2>5, Zenon
  <2> QED
    BY <2>6 DEF FN
<1>8. CASE At(m, u) = At(m, o)
  <2>1. F(m)
    BY <1>8 DEF Splits
  <2>2. (\A k \in Level : F(k) => k = m) /\ \A c \in held : ~Covers(c, u)
    BY <1>1, <1>4, <2>1
  <2>3. \A k \in Level : FN(k) <=> Half(k)
    BY <1>1, <1>2, <1>5, <1>8, <2>2
  <2>4. Covers(b, u) \/ \E k \in Level : Half(k)
    <3>1. At(l, u) = At(l, o) \/ \E k \in l .. m - 1 : At(k, u) = Buddy(At(k, o))
      BY <1>1, <1>8, Halves
    <3>2. \A k \in l .. m - 1 : k \in Level /\ l <= k /\ k < m
      BY <1>1, BuddyConstants
    <3> QED
      BY <1>3, <3>1, <3>2
  <2>5. \A j, k \in Level : Half(j) /\ Half(k) => j = k
    <3> SUFFICES ASSUME NEW j \in Level, NEW k \in Level, Half(j), Half(k) PROVE j = k
      OBVIOUS
    <3>1. At(k, u) # At(k, o) /\ At(j, u) # At(j, o)
      BY <1>5, <1>6
    <3>2. ~(k < j) /\ ~(j < k)
      BY <1>6, <3>1
    <3> QED
      BY <1>5, <3>2
  <2>6. \A k \in Level : ~(Covers(b, u) /\ Half(k))
    <3> SUFFICES ASSUME NEW k \in Level, Covers(b, u), Half(k) PROVE FALSE
      OBVIOUS
    <3>1. k < l /\ l <= k
      BY <1>1, <1>3, <1>6
    <3> QED
      BY <1>1, <1>5, <3>1
  <2> HIDE DEF F, FN, Half
  <2>7. \A c \in heldN : Covers(c, u) => c = b
    BY <1>1, <2>2
  <2>8. b \in heldN
    BY <1>1
  <2>9. /\ (\E c \in heldN : Covers(c, u)) \/ \E k \in Level : FN(k)
        /\ \A c, d \in heldN : Covers(c, u) /\ Covers(d, u) => c = d
        /\ \A j, k \in Level : FN(j) /\ FN(k) => j = k
        /\ \A c \in heldN, k \in Level : ~(Covers(c, u) /\ FN(k))
    BY <2>3, <2>4, <2>5, <2>6, <2>7, <2>8, Zenon
  <2> QED
    BY <2>9 DEF FN
<1> QED
  BY <1>7, <1>8

\* The reverse: b is given back and merged with the buddies up to level m.
Joins(bits, held, l, m, o, b, bitsN, heldN) ==
    /\ l \in Level /\ m \in Level /\ l <= m /\ o \in Units
    /\ LevelBlock(b) = l /\ b.offset = o /\ b \in held
    /\ \A k \in Level : l <= k /\ k < m => Buddy(At(k, o)) \in bits[k]
    /\ heldN = held \ {b}
    /\ \A k \in Level, i \in Nat :
          i \in bitsN[k] <=> IF k = m THEN i \in bits[k] \/ i = At(m, o)
                             ELSE i \in bits[k] /\ ~(l <= k /\ k < m /\ i = Buddy(At(k, o)))

LEMMA JoinTiles ==
    ASSUME NEW bits, NEW held, NEW l, NEW m, NEW o, NEW b, NEW bitsN, NEW heldN,
           Joins(bits, held, l, m, o, b, bitsN, heldN), Tiles(bits, held)
    PROVE  Tiles(bitsN, heldN)
<1> SUFFICES ASSUME NEW u \in Units
             PROVE  /\ (\E c \in heldN : Covers(c, u)) \/ \E k \in Level : At(k, u) \in bitsN[k]
                    /\ \A c, d \in heldN : Covers(c, u) /\ Covers(d, u) => c = d
                    /\ \A j, k \in Level : At(j, u) \in bitsN[j] /\ At(k, u) \in bitsN[k] => j = k
                    /\ \A c \in heldN, k \in Level : ~(Covers(c, u) /\ At(k, u) \in bitsN[k])
  BY DEF Tiles
<1> DEFINE F(k)  == At(k, u) \in bits[k]
           FN(k) == At(k, u) \in bitsN[k]
           Half(k) == l <= k /\ k < m /\ At(k, u) = Buddy(At(k, o))
<1>1. /\ l \in Level /\ m \in Level /\ l <= m /\ o \in Nat /\ u \in Nat
      /\ heldN = held \ {b} /\ b \in held
  BY UnitsFacts DEF Joins
<1>2. \A k \in Level : FN(k) <=> IF k = m THEN F(k) \/ At(m, u) = At(m, o)
                                 ELSE F(k) /\ ~Half(k)
  BY <1>1, AtFacts DEF Joins
<1>3. Covers(b, u) <=> At(l, u) = At(l, o)
  BY DEF Covers, Joins
<1>4. /\ (\E c \in held : Covers(c, u)) \/ \E k \in Level : F(k)
      /\ \A c, d \in held : Covers(c, u) /\ Covers(d, u) => c = d
      /\ \A j, k \in Level : F(j) /\ F(k) => j = k
      /\ \A c \in held, k \in Level : ~(Covers(c, u) /\ F(k))
  BY DEF Tiles
<1>5. \A k \in Level : k <= Top /\ k \in Nat
  BY BuddyConstants
<1>6. \A k \in Level : Half(k) => At(m, u) = At(m, o)
  BY <1>1, <1>5, BuddyJoins, BuddyConstants
<1>7. CASE At(m, u) # At(m, o)
  <2>1. \A k \in Level : FN(k) <=> F(k)
    BY <1>2, <1>6, <1>7
  <2>2. ~Covers(b, u)
    BY <1>1, <1>3, <1>7, TogetherAbove
  <2> HIDE DEF F, FN, Half
  <2>3. \A c \in heldN : c \in held
    BY <1>1
  <2>4. \A c \in held : Covers(c, u) => c \in heldN
    BY <1>1, <2>2
  <2>5. /\ (\E c \in heldN : Covers(c, u)) \/ \E k \in Level : FN(k)
        /\ \A c, d \in heldN : Covers(c, u) /\ Covers(d, u) => c = d
        /\ \A j, k \in Level : FN(j) /\ FN(k) => j = k
        /\ \A c \in heldN, k \in Level : ~(Covers(c, u) /\ FN(k))
    BY <1>4, <2>1, <2>3, <2>4, Zenon
  <2> QED
    BY <2>5 DEF FN
<1>8. CASE At(m, u) = At(m, o)
  <2>1. \A k \in Level : Half(k) => F(k)
    BY DEF Joins
  <2>2. Covers(b, u) \/ \E k \in Level : Half(k)
    <3>1. At(l, u) = At(l, o) \/ \E k \in l .. m - 1 : At(k, u) = Buddy(At(k, o))
      BY <1>1, <1>8, Halves
    <3>2. \A k \in l .. m - 1 : k \in Level /\ l <= k /\ k < m
      BY <1>1, BuddyConstants
    <3> QED
      BY <1>3, <3>1, <3>2
  <2>3. \A c \in held : Covers(c, u) => c = b
    <3> HIDE DEF F, FN, Half
    <3> QED
      BY <1>1, <1>4, <2>1, <2>2
  <2>4. \A k \in Level : F(k) => Half(k)
    <3> HIDE DEF F, FN, Half
    <3> QED
      BY <1>1, <1>4, <2>1, <2>2
  <2>5. \A k \in Level : FN(k) <=> k = m
    <3> HIDE DEF F, FN, Half
    <3> QED
      BY <1>2, <1>8, <2>4
  <2>6. \A c \in heldN : ~Covers(c, u)
    BY <1>1, <2>3
  <2> HIDE DEF F, FN, Half
  <2>7. /\ (\E c \in heldN : Covers(c, u)) \/ \E k \in Level : FN(k)
        /\ \A c, d \in heldN : Covers(c, u) /\ Covers(d, u) => c = d
        /\ \A j, k \in Level : FN(j) /\ FN(k) => j = k
        /\ \A c \in heldN, k \in Level : ~(Covers(c, u) /\ FN(k))
    BY <1>1, <2>5, <2>6, Zenon
  <2> QED
    BY <2>7 DEF FN
<1> QED
  BY <1>7, <1>8

-----------------------------------------------------------------------------
(* Where blocks begin *)

LEMMA SizeDivides ==
    ASSUME NEW k \in Level
    PROVE  \A m \in Level : k <= m => \E q \in Nat : Size(m) = q * Size(k)
<1> DEFINE Multiple(m) == \E q \in Nat : Size(m) = q * Size(k)
           S == {m \in Nat : k <= m /\ m <= Top => Multiple(m)}
<1>0. \A m \in Level : Size(m) \in Nat
  BY SizeFacts
<1>1. Multiple(k)
  <2>1. Size(k) = 1 * Size(k)
    BY <1>0
  <2> QED
    BY <2>1
<1>2. ASSUME NEW m \in Level, m < Top, Multiple(m) PROVE Multiple(m + 1)
  <2>1. PICK q \in Nat : Size(m) = q * Size(k)
    BY <1>2
  <2>2. Size(m + 1) = 2 * Size(m)
    BY <1>2, SizeFacts
  <2>3. 2 * (q * Size(k)) = (2 * q) * Size(k) /\ 2 * q \in Nat
    BY <1>0
  <2> QED
    BY <2>1, <2>2, <2>3
<1> HIDE DEF Multiple
<1>3. 0 \in S
  <2>1. k <= 0 => k = 0
    BY BuddyConstants
  <2> QED
    BY <1>1, <2>1
<1>4. ASSUME NEW m \in Nat, m \in S PROVE m + 1 \in S
  <2> SUFFICES ASSUME k <= m + 1, m + 1 <= Top PROVE Multiple(m + 1)
    OBVIOUS
  <2>1. CASE k = m + 1
    BY <1>1, <2>1
  <2>2. CASE k # m + 1
    <3>1. k <= m /\ m <= Top /\ m < Top /\ m \in Level
      BY <2>2, BuddyConstants
    <3> QED
      BY <1>2, <1>4, <3>1
  <2> QED
    BY <2>1, <2>2
<1> HIDE DEF S
<1>5. \A m \in Nat : m \in S
  BY <1>3, <1>4, SetInduction
<1> QED
  BY <1>5, BuddyConstants DEF S, Multiple

\* Below the level of a block, its first blocks are even: their buddies follow.
LEMMA StartIsEven ==
    ASSUME NEW m \in Level, NEW i \in Nat, NEW k \in Level, k < m
    PROVE  Buddy(At(k, i * Size(m))) = At(k, i * Size(m)) + 1
<1>1. k + 1 \in Level /\ k + 1 <= m /\ k < Top
  BY BuddyConstants
<1>2. PICK q \in Nat : Size(m) = q * Size(k + 1)
  BY <1>1, SizeDivides
<1>3. Size(k + 1) = 2 * Size(k) /\ Size(k) \in Nat \ {0}
  BY <1>1, SizeFacts
<1> DEFINE R == Size(k)
           p == i * q
<1>4. R \in Nat \ {0} /\ Size(m) = q * (2 * R) /\ p \in Nat
  BY <1>2, <1>3
<1> HIDE DEF R
<1>5. i * (q * (2 * R)) = R * (2 * (i * q)) + 0
  BY <1>4
<1>6. i * Size(m) = R * (2 * p) + 0 /\ i * Size(m) \in Nat /\ 0 \in 0 .. R - 1
  BY <1>4, <1>5
<1> HIDE DEF p
<1>7. 2 * p \in Nat
  BY <1>4
<1>8. (i * Size(m)) \div R = 2 * p
  BY <1>4, <1>6, <1>7, QuotientIs
<1>9. At(k, i * Size(m)) = 2 * p
  BY <1>8 DEF At, R
<1> QED
  BY <1>4, <1>9, BuddyFacts

LEMMA LevelOfFacts ==
    ASSUME NEW n \in 1 .. Buddies!MaxBlockSize
    PROVE  Buddies!LevelOf(n) \in Level
<1> DEFINE S == {l \in Level : n <= Size(l)}
<1>1. Level \subseteq Nat /\ Top \in S
  <2>1. Buddies!MaxBlockSize = Size(Top)
    BY DEF Buddies!MaxBlockSize, Size, Top
  <2> QED
    BY <2>1, BuddyConstants
<1>2. PICK l \in S : \A k \in S : l <= k
  <2>1. S \in SUBSET Nat /\ S # {}
    BY <1>1
  <2> HIDE DEF S
  <2> QED
    BY <2>1, LeastExists
<1>3. \A k \in Level : Size(k) \in Nat
  BY SizeFacts
<1>4. \A k \in Level : k < l => Size(k) < n
  <2> SUFFICES ASSUME NEW k \in Level, k < l, n <= Size(k) PROVE FALSE
    BY <1>3
  <2>1. l <= k
    BY <1>2
  <2> QED
    BY <1>1, <2>1
<1>5. \E x \in Level : n <= Size(x) /\ \A k \in Level : k < x => Size(k) < n
  BY <1>4
<1>6. Buddies!LevelOf(n) = CHOOSE x \in Level : n <= Size(x) /\ \A k \in Level : k < x => Size(k) < n
  BY DEF Buddies!LevelOf, Level, Size
<1> QED
  BY <1>5, <1>6

LEMMA IndexFacts ==
    ASSUME NEW o \in Units, NEW k \in Level
    PROVE  /\ At(k, o) \in 0 .. Count(k) - 1
           /\ k < Top => Buddy(At(k, o)) \in 0 .. Count(k) - 1
<1>1. At(k, o) \in 0 .. Count(k) - 1
  BY UnitsFacts
<1>2. ASSUME k < Top PROVE Buddy(At(k, o)) \in 0 .. Count(k) - 1
  <2>1. k + 1 \in Level
    BY <1>2, BuddyConstants
  <2>2. Count(k) = 2 * Count(k + 1) /\ Count(k + 1) \in Nat
    BY <1>2, <2>1, CountFacts
  <2> DEFINE i == At(k, o)
             c == Count(k + 1)
  <2>3. i \in Nat /\ i < 2 * c /\ c \in Nat
    BY <1>1, <2>2
  <2> HIDE DEF i, c
  <2>4. Buddy(i) \in Nat /\ Buddy(i) < 2 * c
    BY <2>3, BuddyFacts
  <2> QED
    BY <2>2, <2>3, <2>4 DEF i, c
<1> QED
  BY <1>1, <1>2

-----------------------------------------------------------------------------
(* The invariant of the pool *)

\* When an assertion has failed, allocate() had nothing left from some level,
\* below the top, upwards.
FailsEmpty(bits, f) ==
    /\ f # "deallocate"
    /\ f = "allocate" =>
         \E l \in Level \ {Top} : \A k \in l .. Top : bits[k] = {}

BuddyInv ==
    /\ Buddies!TypeOK
    /\ Tiles(mBitset, live)
    /\ Merged(mBitset)
    /\ FailsEmpty(mBitset, failed)

\* The type invariant, in the terms of the lemmas.
LEMMA BuddyTypes ==
    Buddies!TypeOK
      <=> /\ mBitset \in [Level -> SUBSET Units]
          /\ \A l \in Level : mBitset[l] \subseteq 0 .. Count(l) - 1
          /\ live \subseteq [offset : Units, size : 1 .. Buddies!MaxBlockSize]
          /\ heap \in 0 .. MaxHeap
          /\ failed \in {"no", "allocate", "deallocate"}
BY DEF Buddies!TypeOK, Level, Units, Count

LEMMA CountInUnits == \A l \in Level : 0 .. Count(l) - 1 \subseteq Units
<1> TAKE l \in Level
<1>1. Count(l) \in Nat /\ Count(0) \in Nat /\ Count(l) <= Count(0) /\ Units = 0 .. Count(0) - 1
  BY CountFacts, UnitsFacts, BuddyConstants
<1> QED
  BY <1>1

LEMMA BuddyInit == Buddies!Init => BuddyInv
<1> SUFFICES ASSUME Buddies!Init PROVE BuddyInv
  OBVIOUS
<1>1. /\ mBitset = [l \in Level |-> IF l = Top THEN 0 .. TopBlocks - 1 ELSE {}]
      /\ live = {} /\ heap = 0 /\ failed = "no"
  BY DEF Buddies!Init, Level, Top
<1>2. \A l \in Level : mBitset[l] = IF l = Top THEN 0 .. Count(Top) - 1 ELSE {}
  BY <1>1, CountFacts
<1>3. Buddies!TypeOK
  <2>1. 0 .. TopBlocks - 1 \subseteq Units
    BY CountInUnits, CountFacts, BuddyConstants
  <2>2. mBitset \in [Level -> SUBSET Units]
    <3>1. \A l \in Level : (IF l = Top THEN 0 .. TopBlocks - 1 ELSE {}) \in SUBSET Units
      BY <2>1
    <3> QED
      BY <1>1, <3>1, Zenon
  <2>3. \A l \in Level : mBitset[l] \subseteq 0 .. Count(l) - 1
    BY <1>2
  <2>4. heap \in 0 .. MaxHeap
    BY <1>1, BuddyConstants
  <2> QED
    BY <1>1, <2>2, <2>3, <2>4, BuddyTypes
<1>4. Tiles(mBitset, live)
  <2>1. \A u \in Units : At(Top, u) \in mBitset[Top]
    <3> TAKE u \in Units
    <3>1. Top \in Level
      BY BuddyConstants
    <3>2. At(Top, u) \in 0 .. Count(Top) - 1
      BY <3>1, IndexFacts
    <3> QED
      BY <1>2, <3>1, <3>2
  <2>2. \A k \in Level : k # Top => mBitset[k] = {}
    BY <1>2
  <2> QED
    BY <1>1, <2>1, <2>2, BuddyConstants DEF Tiles
<1>5. Merged(mBitset)
  <2>1. \A k \in Level : k < Top => mBitset[k] = {}
    BY <1>2, BuddyConstants
  <2> QED
    BY <2>1 DEF Merged
<1>6. FailsEmpty(mBitset, failed)
  BY <1>1 DEF FailsEmpty
<1> QED
  BY <1>3, <1>4, <1>5, <1>6 DEF BuddyInv

\* allocate() finds a block on the first level that has one.
LEMMA FirstFreeFacts ==
    ASSUME Buddies!TypeOK, NEW l \in Level, Buddies!HasFree(l)
    PROVE  /\ Buddies!FirstFree(l) \in Level /\ l <= Buddies!FirstFree(l)
           /\ mBitset[Buddies!FirstFree(l)] # {}
<1> DEFINE S == {k \in Level : l <= k /\ mBitset[k] # {}}
<1>1. l .. Top = {k \in Level : l <= k} /\ Level \subseteq Nat
  BY BuddyConstants
<1>2. S \in SUBSET Nat /\ S # {}
  BY <1>1 DEF Buddies!HasFree, Top
<1>3. PICK k \in S : \A j \in S : k <= j
  <2> HIDE DEF S
  <2> QED
    BY <1>2, LeastExists
<1>4. \A j \in l .. Top : j < k => mBitset[j] = {}
  <2> SUFFICES ASSUME NEW j \in l .. Top, j < k, mBitset[j] # {} PROVE FALSE
    OBVIOUS
  <2>1. j \in S
    BY <1>1
  <2>2. k <= j
    BY <1>3, <2>1
  <2> QED
    BY <1>1, <2>2
<1> DEFINE First(x) == mBitset[x] # {} /\ \A j \in l .. Top : j < x => mBitset[j] = {}
<1>5. k \in l .. Top /\ First(k)
  BY <1>1, <1>4
<1>6. Buddies!FirstFree(l) = CHOOSE x \in l .. Top : First(x)
  BY DEF Buddies!FirstFree, Top
<1> DEFINE m == Buddies!FirstFree(l)
<1>7. m \in l .. Top /\ First(m)
  <2> HIDE DEF First, m
  <2> QED
    BY <1>5, <1>6 DEF m
<1> QED
  BY <1>1, <1>7

LEMMA LowestFacts ==
    ASSUME NEW bits \in SUBSET Nat, bits # {}
    PROVE  Buddies!Lowest(bits) \in bits
<1>1. \E i \in bits : \A j \in bits : i <= j
  BY LeastExists
<1> QED
  BY <1>1 DEF Buddies!Lowest

LEMMA TakeBlockStep ==
    ASSUME BuddyInv, NEW n \in 1 .. Buddies!MaxBlockSize, Buddies!HasFree(Buddies!LevelOf(n)),
           Buddies!TakeBlock(n)
    PROVE  /\ mBitset' \in [Level -> SUBSET Units]
           /\ \A l \in Level : mBitset'[l] \subseteq 0 .. Count(l) - 1
           /\ live' \subseteq [offset : Units, size : 1 .. Buddies!MaxBlockSize]
           /\ Tiles(mBitset', live')
           /\ Merged(mBitset')
<1> DEFINE l == Buddies!LevelOf(n)
           m == Buddies!FirstFree(l)
           index == Buddies!Lowest(mBitset[m])
           o == index * Size(m)
           b == [offset |-> o, size |-> n]
<1>0. /\ mBitset \in [Level -> SUBSET Units]
      /\ \A k \in Level : mBitset[k] \subseteq 0 .. Count(k) - 1
      /\ live \subseteq [offset : Units, size : 1 .. Buddies!MaxBlockSize]
      /\ Tiles(mBitset, live) /\ Merged(mBitset)
  BY BuddyTypes DEF BuddyInv
<1>1. /\ mBitset' = [k \in Level |->
                CASE k = m            -> mBitset[k] \ {index}
                  [] k \in l .. m - 1 -> mBitset[k] \cup {o \div Size(k) + 1}
                  [] OTHER            -> mBitset[k]]
      /\ live' = live \cup {b}
  BY DEF Buddies!TakeBlock, Level, Size
<1>2. l \in Level /\ m \in Level /\ l <= m /\ mBitset[m] # {} /\ LevelBlock(b) = l
  BY LevelOfFacts, FirstFreeFacts DEF BuddyInv, LevelBlock
<1> HIDE DEF l, m
<1>3. index \in mBitset[m] /\ index \in 0 .. Count(m) - 1
  <2>1. mBitset[m] \subseteq 0 .. Count(m) - 1 /\ mBitset[m] \in SUBSET Nat
    BY <1>0, <1>2
  <2> QED
    BY <1>2, <2>1, LowestFacts
<1> HIDE DEF index
<1>4. o \in Units /\ At(m, o) = index
  BY <1>2, <1>3, UnitsFacts
<1>5. \A k \in Level : k \in l .. m - 1 <=> l <= k /\ k < m
  BY <1>2, BuddyConstants
<1>6. \A k \in Level : k < m => o \div Size(k) + 1 = Buddy(At(k, o)) /\ k < Top
  <2> TAKE k \in Level
  <2> SUFFICES ASSUME k < m PROVE o \div Size(k) + 1 = Buddy(At(k, o)) /\ k < Top
    OBVIOUS
  <2>1. index \in Nat /\ k < Top
    BY <1>2, <1>3, BuddyConstants
  <2>2. Buddy(At(k, o)) = At(k, o) + 1
    BY <1>2, <2>1, StartIsEven
  <2> QED
    BY <2>1, <2>2 DEF At
<1> HIDE DEF o
<1>7. \A k \in Level :
         mBitset'[k] = IF k = m THEN mBitset[k] \ {At(m, o)}
                       ELSE IF l <= k /\ k < m THEN mBitset[k] \cup {Buddy(At(k, o))}
                       ELSE mBitset[k]
  <2> TAKE k \in Level
  <2>1. mBitset'[k] = CASE k = m            -> mBitset[k] \ {index}
                        [] k \in l .. m - 1 -> mBitset[k] \cup {o \div Size(k) + 1}
                        [] OTHER            -> mBitset[k]
    BY <1>1
  <2>2. k \in l .. m - 1 <=> l <= k /\ k < m
    BY <1>5
  <2>3. l <= k /\ k < m => o \div Size(k) + 1 = Buddy(At(k, o)) /\ k # m
    BY <1>2, <1>6, BuddyConstants
  <2>4. CASE k = m
    BY <1>4, <2>1, <2>4
  <2>5. CASE k # m /\ l <= k /\ k < m
    BY <2>1, <2>2, <2>3, <2>5
  <2>6. CASE k # m /\ ~(l <= k /\ k < m)
    BY <2>1, <2>2, <2>6
  <2> QED
    BY <2>4, <2>5, <2>6
<1>8. \A k \in Level : k < m => Buddy(At(k, o)) \in 0 .. Count(k) - 1
  BY <1>4, <1>6, IndexFacts
<1>9. \A k \in Level : mBitset'[k] \subseteq 0 .. Count(k) - 1
  BY <1>0, <1>7, <1>8
<1>10. mBitset' \in [Level -> SUBSET Units]
  <2>1. \A k \in Level : mBitset'[k] \in SUBSET Units
    BY <1>9, CountInUnits
  <2>2. DOMAIN mBitset' = Level /\ mBitset' = [k \in Level |-> mBitset'[k]]
    BY <1>1
  <2> QED
    BY <2>1, <2>2
<1>11. live' \subseteq [offset : Units, size : 1 .. Buddies!MaxBlockSize]
  BY <1>0, <1>1, <1>4
<1>12. Splits(mBitset, live, l, m, o, b, mBitset', live')
  <2>1. b.offset = o /\ live' = live \cup {b}
    BY <1>1
  <2>2. At(m, o) \in mBitset[m]
    BY <1>3, <1>4
  <2>3. \A k \in Level, i \in Nat :
          i \in mBitset'[k] <=> IF k = m THEN i \in mBitset[k] /\ i # At(m, o)
                               ELSE i \in mBitset[k] \/ (l <= k /\ k < m /\ i = Buddy(At(k, o)))
    BY <1>7
  <2> HIDE DEF b
  <2> QED
    BY <1>2, <1>4, <2>1, <2>2, <2>3 DEF Splits
<1>13. Tiles(mBitset', live')
  BY <1>0, <1>12, SplitTiles
<1>14. Merged(mBitset')
  <2> SUFFICES ASSUME NEW k \in Level, NEW i \in mBitset'[k], k < Top, Buddy(i) \in mBitset'[k]
               PROVE  FALSE
    BY DEF Merged
  <2>1. i \in Nat /\ o \in Nat /\ At(k, o) \in Nat
    <3>1. o \in Nat
      BY <1>4, UnitsFacts
    <3>2. At(k, o) \in Nat
      BY <3>1, AtFacts
    <3>3. i \in 0 .. Count(k) - 1
      BY <1>9
    <3> QED
      BY <3>1, <3>2, <3>3
  <2>2. ~(i \in mBitset[k] /\ Buddy(i) \in mBitset[k])
    BY <1>0 DEF Merged
  <2>3. l <= k /\ k < m /\ (i = Buddy(At(k, o)) \/ Buddy(i) = Buddy(At(k, o)))
    BY <1>7, <2>2
  <2>4. (i = Buddy(At(k, o)) /\ Buddy(i) = At(k, o)) \/ i = At(k, o)
    BY <2>1, <2>3, BuddyFacts
  <2>5. At(k, o) \in mBitset'[k] /\ At(k, o) # Buddy(At(k, o))
    BY <2>1, <2>4, BuddyFacts
  <2>6. At(k, o) \in mBitset[k]
    BY <1>2, <1>7, <2>3, <2>5, BuddyConstants
  <2>7. k = m
    BY <1>0, <1>2, <1>3, <1>4, <2>6 DEF Tiles
  <2> QED
    BY <1>2, <2>3, <2>7, BuddyConstants
<1> QED
  BY <1>9, <1>10, <1>11, <1>13, <1>14

\* deallocate() merges up to the first level where the buddy is not free.
LEMMA LastLevelFacts ==
    ASSUME NEW l \in Level, NEW o
    PROVE  /\ Buddies!LastLevel(l, o) \in Level /\ l <= Buddies!LastLevel(l, o)
           /\ ~Buddies!MergesAt(o, Buddies!LastLevel(l, o))
           /\ \A k \in Level : l <= k /\ k < Buddies!LastLevel(l, o) => Buddies!MergesAt(o, k)
<1> DEFINE Merges(k) == Buddies!MergesAt(o, k)
           S == {k \in Level : l <= k /\ ~Merges(k)}
<1>1. l .. Top = {k \in Level : l <= k} /\ Level \subseteq Nat
      /\ \A m \in Level : l .. m - 1 = {k \in Level : l <= k /\ k < m}
  BY BuddyConstants
<1>2. S \in SUBSET Nat /\ S # {}
  <2>1. ~Merges(Top)
    BY BuddyConstants DEF Buddies!MergesAt, Top
  <2>2. Top \in S
    BY <2>1, BuddyConstants
  <2> QED
    BY <1>1, <2>2
<1> HIDE DEF Merges
<1>3. PICK k \in S : \A j \in S : k <= j
  <2> HIDE DEF S
  <2> QED
    BY <1>2, LeastExists
<1>4. \A j \in l .. k - 1 : Merges(j)
  <2> SUFFICES ASSUME NEW j \in l .. k - 1, ~Merges(j) PROVE FALSE
    OBVIOUS
  <2>1. j \in S /\ j < k
    BY <1>1
  <2>2. k <= j
    BY <1>3, <2>1
  <2> QED
    BY <1>1, <2>1, <2>2
<1> DEFINE Last(x) == ~Merges(x) /\ \A j \in l .. x - 1 : Merges(j)
<1>5. k \in l .. Top /\ Last(k)
  BY <1>1, <1>4
<1>6. Buddies!LastLevel(l, o) = CHOOSE x \in l .. Top : Last(x)
  BY DEF Buddies!LastLevel, Top, Merges
<1> DEFINE m == Buddies!LastLevel(l, o)
<1>7. m \in l .. Top /\ Last(m)
  <2> HIDE DEF Last, m
  <2> QED
    BY <1>5, <1>6 DEF m
<1> HIDE DEF m
<1>8. m \in Level /\ l <= m /\ ~Merges(m) /\ \A k2 \in Level : l <= k2 /\ k2 < m => Merges(k2)
  BY <1>1, <1>7
<1> QED
  BY <1>8 DEF m, Merges

LEMMA DeallocateStep ==
    ASSUME BuddyInv, NEW b \in live, Buddies!Deallocate(b)
    PROVE  /\ mBitset' \in [Level -> SUBSET Units]
           /\ \A l \in Level : mBitset'[l] \subseteq 0 .. Count(l) - 1
           /\ live' \subseteq [offset : Units, size : 1 .. Buddies!MaxBlockSize]
           /\ failed' = "no"
           /\ Tiles(mBitset', live')
           /\ Merged(mBitset')
<1> DEFINE l == Buddies!LevelOf(b.size)
           o == b.offset
           m == Buddies!LastLevel(l, o)
<1>0. /\ mBitset \in [Level -> SUBSET Units]
      /\ \A k \in Level : mBitset[k] \subseteq 0 .. Count(k) - 1
      /\ live \subseteq [offset : Units, size : 1 .. Buddies!MaxBlockSize]
      /\ Tiles(mBitset, live) /\ Merged(mBitset)
  BY BuddyTypes DEF BuddyInv
<1>1. /\ mBitset' = [k \in Level |->
                CASE k = m            -> mBitset[k] \cup {At(k, o)}
                  [] k \in l .. m - 1 -> mBitset[k] \ {Buddy(At(k, o))}
                  [] OTHER            -> mBitset[k]]
      /\ live' = live \ {b}
      /\ failed' = IF \E k \in l .. m : At(k, o) \in mBitset[k]
                    THEN "deallocate" ELSE "no"
  <2>1. mBitset' = [k \in Level |->
                CASE k = m            -> mBitset[k] \cup {At(k, o)}
                  [] k \in l .. m - 1 -> mBitset[k] \ {Buddy(At(k, o))}
                  [] OTHER            -> mBitset[k]]
    BY DEF Buddies!Deallocate, Level, Size, At, Buddy
  <2>2. live' = live \ {b}
    BY DEF Buddies!Deallocate
  <2>3. failed' = IF \E k \in l .. m : At(k, o) \in mBitset[k]
                  THEN "deallocate" ELSE "no"
    BY DEF Buddies!Deallocate, Size, At
  <2> QED
    BY <2>1, <2>2, <2>3
<1>2. l \in Level /\ LevelBlock(b) = l /\ o \in Units
  BY <1>0, LevelOfFacts DEF LevelBlock
<1>3. \A k \in Level : Buddies!MergesAt(o, k) <=> k < Top /\ Buddy(At(k, o)) \in mBitset[k]
  BY DEF Buddies!MergesAt, Top, At, Size, Buddy
<1> HIDE DEF l, o
<1>4. /\ m \in Level /\ l <= m /\ ~Buddies!MergesAt(o, m)
      /\ \A k \in Level : l <= k /\ k < m => Buddies!MergesAt(o, k)
  BY <1>2, LastLevelFacts
<1> HIDE DEF m
<1>5. \A k \in Level : k \in l .. m - 1 <=> l <= k /\ k < m
  BY <1>2, <1>4, BuddyConstants
<1>6. /\ \A k \in Level : l <= k /\ k < m => Buddy(At(k, o)) \in mBitset[k]
      /\ m < Top => Buddy(At(m, o)) \notin mBitset[m]
  BY <1>3, <1>4
<1>7. \A k \in Level :
         mBitset'[k] = IF k = m THEN mBitset[k] \cup {At(m, o)}
                       ELSE IF l <= k /\ k < m THEN mBitset[k] \ {Buddy(At(k, o))}
                       ELSE mBitset[k]
  <2> TAKE k \in Level
  <2>1. mBitset'[k] = CASE k = m            -> mBitset[k] \cup {At(k, o)}
                        [] k \in l .. m - 1 -> mBitset[k] \ {Buddy(At(k, o))}
                        [] OTHER            -> mBitset[k]
    BY <1>1
  <2>2. (k \in l .. m - 1 <=> l <= k /\ k < m) /\ m \notin l .. m - 1
    BY <1>4, <1>5, BuddyConstants
  <2>4. CASE k = m
    BY <2>1, <2>2, <2>4
  <2>5. CASE k # m /\ l <= k /\ k < m
    BY <2>1, <2>2, <2>5
  <2>6. CASE k # m /\ ~(l <= k /\ k < m)
    BY <2>1, <2>2, <2>6
  <2> QED
    BY <2>4, <2>5, <2>6
<1>8. At(m, o) \in 0 .. Count(m) - 1
  BY <1>2, <1>4, IndexFacts
<1>9. \A k \in Level : mBitset'[k] \subseteq 0 .. Count(k) - 1
  BY <1>0, <1>7, <1>8
<1>10. mBitset' \in [Level -> SUBSET Units]
  <2>1. \A k \in Level : mBitset'[k] \in SUBSET Units
    BY <1>9, CountInUnits
  <2>2. DOMAIN mBitset' = Level /\ mBitset' = [k \in Level |-> mBitset'[k]]
    BY <1>1
  <2> QED
    BY <2>1, <2>2
<1>11. live' \subseteq [offset : Units, size : 1 .. Buddies!MaxBlockSize]
  BY <1>0, <1>1
<1>12. failed' = "no"
  <2>1. Covers(b, o)
    BY <1>2 DEF Covers, o
  <2>2. \A k \in Level : At(k, o) \notin mBitset[k]
    BY <1>0, <1>2, <2>1 DEF Tiles
  <2>3. \A k \in l .. m : k \in Level
    BY <1>2, <1>4, BuddyConstants
  <2> QED
    BY <1>1, <2>2, <2>3
<1>13. Joins(mBitset, live, l, m, o, b, mBitset', live')
  <2>1. b.offset = o /\ live' = live \ {b}
    BY <1>1 DEF o
  <2>2. \A k \in Level, i \in Nat :
          i \in mBitset'[k] <=> IF k = m THEN i \in mBitset[k] \/ i = At(m, o)
                             ELSE i \in mBitset[k] /\ ~(l <= k /\ k < m /\ i = Buddy(At(k, o)))
    BY <1>7
  <2> QED
    BY <1>2, <1>4, <1>6, <2>1, <2>2 DEF Joins
<1>14. Tiles(mBitset', live')
  BY <1>0, <1>13, JoinTiles
<1>15. Merged(mBitset')
  <2> SUFFICES ASSUME NEW k \in Level, NEW i \in mBitset'[k], k < Top, Buddy(i) \in mBitset'[k]
               PROVE  FALSE
    BY DEF Merged
  <2>1. i \in Nat /\ At(k, o) \in Nat
    <3>1. o \in Nat
      BY <1>2, UnitsFacts
    <3>2. At(k, o) \in Nat
      BY <3>1, AtFacts
    <3>3. i \in 0 .. Count(k) - 1
      BY <1>9
    <3> QED
      BY <3>2, <3>3
  <2>2. ~(i \in mBitset[k] /\ Buddy(i) \in mBitset[k])
    BY <1>0 DEF Merged
  <2>3. k = m /\ (i = At(k, o) \/ Buddy(i) = At(k, o))
    BY <1>7, <2>2
  <2>4. i # Buddy(i)
    BY <2>1, BuddyFacts
  <2>5. CASE i = At(k, o)
    BY <1>6, <1>7, <2>3, <2>4, <2>5
  <2>6. CASE Buddy(i) = At(k, o) /\ i # At(k, o)
    <3>2. Buddy(Buddy(i)) = i
      BY <2>1, BuddyFacts
    <3>3. i \in mBitset[m] \cup {At(m, o)} /\ i # At(m, o)
      BY <1>4, <1>7, <2>3, <2>6
    <3>1. i = Buddy(At(k, o)) /\ i \in mBitset[k]
      BY <2>3, <2>6, <3>2, <3>3
    <3> QED
      BY <1>6, <2>3, <3>1
  <2> QED
    BY <2>3, <2>5, <2>6
<1> QED
  BY <1>9, <1>10, <1>11, <1>12, <1>14, <1>15

LEMMA BuddyStep == BuddyInv /\ [Buddies!Next]_(Buddies!vars) => BuddyInv'
<1> SUFFICES ASSUME BuddyInv, [Buddies!Next]_(Buddies!vars) PROVE BuddyInv'
  OBVIOUS
<1>0. /\ mBitset \in [Level -> SUBSET Units]
      /\ \A l \in Level : mBitset[l] \subseteq 0 .. Count(l) - 1
      /\ live \subseteq [offset : Units, size : 1 .. Buddies!MaxBlockSize]
      /\ heap \in 0 .. MaxHeap
      /\ failed \in {"no", "allocate", "deallocate"}
      /\ Tiles(mBitset, live) /\ Merged(mBitset)
      /\ FailsEmpty(mBitset, failed)
  BY BuddyTypes DEF BuddyInv
<1>1. SUFFICES /\ mBitset' \in [Level -> SUBSET Units]
               /\ \A l \in Level : mBitset'[l] \subseteq 0 .. Count(l) - 1
               /\ live' \subseteq [offset : Units, size : 1 .. Buddies!MaxBlockSize]
               /\ heap' \in 0 .. MaxHeap
               /\ failed' \in {"no", "allocate", "deallocate"}
               /\ Tiles(mBitset', live') /\ Merged(mBitset')
               /\ FailsEmpty(mBitset', failed')
  BY DEF BuddyInv, Buddies!TypeOK, Level, Units, Count
<1>n. failed' = "no" => FailsEmpty(mBitset', failed')
  BY DEF FailsEmpty
<1>2. ASSUME NEW n \in 1 .. MaxSize, failed = "no", Buddies!Allocate(n)
      PROVE  <1>1!1
  <2>1. n \in 1 .. Buddies!MaxBlockSize
    BY <1>2, BuddyConstants DEF Buddies!Allocate
  <2> QED
    BY <1>0, <1>2, <1>n, <2>1, TakeBlockStep DEF Buddies!Allocate
<1>3. ASSUME NEW n \in 1 .. MaxSize, Buddies!Exhausted(n) PROVE <1>1!1
  <2> DEFINE l == Buddies!LevelOf(n)
  <2>1. /\ n <= Buddies!MaxBlockSize /\ ~Buddies!HasFree(l)
        /\ failed' = IF l < Top THEN "allocate" ELSE "no"
        /\ UNCHANGED <<mBitset, live, heap>>
    BY <1>3 DEF Buddies!Exhausted, Top
  <2>2. l \in Level
    BY <2>1, LevelOfFacts, BuddyConstants
  <2> HIDE DEF l
  <2>3. \A k \in l .. Top : mBitset[k] = {}
    BY <2>1 DEF Buddies!HasFree, Top
  <2>4. FailsEmpty(mBitset', failed')
    BY <2>1, <2>2, <2>3, BuddyConstants DEF FailsEmpty
  <2> QED
    BY <1>0, <2>1, <2>4
<1>4. ASSUME NEW n \in 1 .. MaxSize, failed = "no", Buddies!FallbackNew(n)
      PROVE  <1>1!1
  BY <1>0, <1>4, <1>n, BuddyConstants DEF Buddies!FallbackNew
<1>5. ASSUME NEW b \in live, Buddies!Deallocate(b) PROVE <1>1!1
  <2>1. heap' = heap
    BY <1>5 DEF Buddies!Deallocate
  <2> QED
    BY <1>0, <1>5, <1>n, <2>1, DeallocateStep
<1>6. ASSUME failed = "no", Buddies!FallbackDelete PROVE <1>1!1
  BY <1>0, <1>6, <1>n, BuddyConstants DEF Buddies!FallbackDelete
<1>7. ASSUME UNCHANGED Buddies!vars PROVE <1>1!1
  BY <1>0, <1>7 DEF Buddies!vars
<1> QED
  BY <1>2, <1>3, <1>4, <1>5, <1>6, <1>7 DEF Buddies!Next

LEMMA BuddyInvariant == Buddies!Spec => []BuddyInv
BY BuddyInit, BuddyStep, PTL DEF Buddies!Spec

-----------------------------------------------------------------------------
(* What the invariant says of the pool *)

LEMMA BuddiesCardinality == \A S : Buddies!Cardinality(S) = Cardinality(S)
BY DEF Cardinality, Buddies!Cardinality

LEMMA AtMostOne ==
    ASSUME NEW S, \A x, y \in S : x = y
    PROVE  IF S = {} THEN Cardinality(S) = 0 ELSE Cardinality(S) = 1
<1>1. CASE S = {}
  BY <1>1, FS_EmptySet
<1>2. CASE S # {}
  <2>1. PICK x : x \in S
    BY <1>2
  <2>2. S = {x}
    BY <2>1
  <2> QED
    BY <1>2, <2>2, FS_Singleton
<1> QED
  BY <1>1, <1>2

LEMMA LiveCovers ==
    ASSUME BuddyInv, NEW b \in live
    PROVE  /\ LevelBlock(b) \in Level /\ b.offset \in Units
           /\ \A u \in Nat : u \in Buddies!LiveUnits(b) <=> Covers(b, u)
<1>1. b \in [offset : Units, size : 1 .. Buddies!MaxBlockSize]
  BY BuddyTypes DEF BuddyInv
<1>2. LevelBlock(b) \in Level
  BY <1>1, LevelOfFacts DEF LevelBlock
<1>3. b.offset \in Units /\ b.offset \in Nat
  BY <1>1, UnitsFacts
<1>4. At(LevelBlock(b), b.offset) \in Nat
  BY <1>2, <1>3, AtFacts
<1>5. Buddies!LiveUnits(b) = Buddies!Units(LevelBlock(b), At(LevelBlock(b), b.offset))
  BY DEF Buddies!LiveUnits, LevelBlock, At, Size
<1>6. ASSUME NEW u \in Nat PROVE u \in Buddies!LiveUnits(b) <=> Covers(b, u)
  <2>1. u \in Buddies!Units(LevelBlock(b), At(LevelBlock(b), b.offset))
          <=> At(LevelBlock(b), u) = At(LevelBlock(b), b.offset)
    BY <1>2, <1>4, UnitsFacts
  <2> QED
    BY <1>5, <2>1 DEF Covers
<1> QED
  BY <1>2, <1>3, <1>6

LEMMA PoolIsTiled == BuddyInv => Buddies!Tiled
<1> SUFFICES ASSUME BuddyInv, NEW u \in Units
             PROVE  Cardinality({b \in live : u \in Buddies!LiveUnits(b)})
                      + Cardinality({f \in Buddies!FreeBlocks : u \in Buddies!Units(f[1], f[2])}) = 1
  BY BuddiesCardinality DEF Buddies!Tiled, Units
<1> DEFINE L == {b \in live : u \in Buddies!LiveUnits(b)}
           F == {f \in Buddies!FreeBlocks : u \in Buddies!Units(f[1], f[2])}
<1>1. u \in Nat /\ Units \subseteq Nat
  BY UnitsFacts
<1>2. \A b : b \in L <=> b \in live /\ Covers(b, u)
  BY <1>1, LiveCovers
<1>3. \A f : f \in F <=> \E k \in Level : f = <<k, At(k, u)>> /\ At(k, u) \in mBitset[k]
  <2>1. ASSUME NEW f \in F
        PROVE  \E k \in Level : f = <<k, At(k, u)>> /\ At(k, u) \in mBitset[k]
    <3>1. /\ f \in Level \X Units /\ f[2] \in mBitset[f[1]]
          /\ u \in Buddies!Units(f[1], f[2])
      BY DEF Buddies!FreeBlocks, Level, Units
    <3>4. f \in Level \X Units
      BY <3>1
    <3>5. f[1] \in Level /\ f[2] \in Units /\ f = <<f[1], f[2]>>
      BY <3>4
    <3>2. f[1] \in Level /\ f[2] \in Nat /\ f = <<f[1], f[2]>>
      BY <1>1, <3>5
    <3>3. At(f[1], u) = f[2]
      BY <1>1, <3>1, <3>2, UnitsFacts
    <3> QED
      BY <3>1, <3>2, <3>3
  <2>2. ASSUME NEW k \in Level, At(k, u) \in mBitset[k]
        PROVE  <<k, At(k, u)>> \in F
    <3>1. At(k, u) \in Units /\ At(k, u) \in Nat
      BY <1>1, <2>2, AtFacts, BuddyTypes DEF BuddyInv
    <3>2. u \in Buddies!Units(k, At(k, u))
      BY <1>1, <3>1, UnitsFacts
    <3> DEFINE f == <<k, At(k, u)>>
    <3>3. f[1] = k /\ f[2] = At(k, u) /\ f \in Level \X Units
      BY <3>1
    <3> HIDE DEF f
    <3>4. f \in F
      BY <2>2, <3>2, <3>3 DEF Buddies!FreeBlocks, Level, Units
    <3> QED
      BY <3>4 DEF f
  <2> QED
    BY <2>1, <2>2
<1>4. /\ (\E b \in live : Covers(b, u)) \/ \E k \in Level : At(k, u) \in mBitset[k]
      /\ \A b, c \in live : Covers(b, u) /\ Covers(c, u) => b = c
      /\ \A j, k \in Level : At(j, u) \in mBitset[j] /\ At(k, u) \in mBitset[k] => j = k
      /\ \A b \in live, k \in Level : ~(Covers(b, u) /\ At(k, u) \in mBitset[k])
  BY DEF BuddyInv, Tiles
<1> HIDE DEF L, F
<1>5. \A x, y \in L : x = y
  BY <1>2, <1>4
<1>6. \A x, y \in F : x = y
  BY <1>3, <1>4
<1>7. (L # {} \/ F # {}) /\ (L = {} \/ F = {})
  <2>1. L # {} \/ F # {}
    BY <1>2, <1>3, <1>4
  <2>2. L = {} \/ F = {}
    BY <1>2, <1>3, <1>4
  <2> QED
    BY <2>1, <2>2
<1>8. Cardinality(L) + Cardinality(F) = 1
  BY <1>5, <1>6, <1>7, AtMostOne
<1> QED
  BY <1>8 DEF L, F

\* A block that only free blocks cover, none of them larger, is free itself:
\* otherwise both of its halves would be, by the same argument.
LEMMA FreeIsMerged ==
    ASSUME BuddyInv
    PROVE  \A k \in Level : \A i \in 0 .. Count(k) - 1 :
              (\A u \in Units : At(k, u) = i => \E j \in 0 .. k : At(j, u) \in mBitset[j])
                => i \in mBitset[k]
<1> DEFINE Full(k, i) == \A u \in Units : At(k, u) = i => \E j \in 0 .. k : At(j, u) \in mBitset[j]
           S == {k \in Nat : k <= Top => \A i \in 0 .. Count(k) - 1 : Full(k, i) => i \in mBitset[k]}
<1>1. 0 \in S
  <2> SUFFICES ASSUME NEW i \in 0 .. Count(0) - 1, Full(0, i) PROVE i \in mBitset[0]
    OBVIOUS
  <2>1. i \in Units /\ At(0, i) = i
    BY UnitsFacts, AtFacts
  <2>2. PICK j \in 0 .. 0 : At(j, i) \in mBitset[j]
    BY <2>1
  <2>3. j = 0
    OBVIOUS
  <2> QED
    BY <2>1, <2>2, <2>3
<1>2. ASSUME NEW k \in Nat, k \in S PROVE k + 1 \in S
  <2> SUFFICES ASSUME k + 1 <= Top, NEW i \in 0 .. Count(k + 1) - 1, Full(k + 1, i),
                      i \notin mBitset[k + 1]
               PROVE  FALSE
    OBVIOUS
  <2>1. k \in Level /\ k < Top /\ k <= Top /\ k + 1 \in Level
    BY BuddyConstants
  <2>2. Count(k) = 2 * Count(k + 1) /\ Count(k + 1) \in Nat /\ i \in Nat
    BY <2>1, CountFacts
  <2>3. ASSUME NEW c \in {2 * i, 2 * i + 1} PROVE c \in mBitset[k]
    <3>1. c \in Nat /\ c \in 0 .. Count(k) - 1 /\ c \div 2 = i
      BY <2>2
    <3>2. Full(k, c)
      <4> SUFFICES ASSUME NEW u \in Units, At(k, u) = c
                   PROVE  \E j \in 0 .. k : At(j, u) \in mBitset[j]
        OBVIOUS
      <4>1. u \in Nat
        BY UnitsFacts
      <4>2. At(k + 1, u) = i
        BY <2>1, <3>1, <4>1, AtFacts
      <4>3. PICK j \in 0 .. k + 1 : At(j, u) \in mBitset[j]
        BY <4>2
      <4>4. j # k + 1
        BY <4>2, <4>3
      <4>5. j \in 0 .. k
        BY <4>4
      <4> QED
        BY <4>3, <4>5
    <3> HIDE DEF Full
    <3> QED
      BY <1>2, <2>1, <3>1, <3>2
  <2>4. Buddy(2 * i) = 2 * i + 1
    BY <2>2, BuddyFacts
  <2>5. 2 * i \in mBitset[k] /\ Buddy(2 * i) \in mBitset[k]
    BY <2>3, <2>4
  <2> QED
    BY <2>1, <2>5 DEF BuddyInv, Merged
<1> HIDE DEF S
<1>3. \A k \in Nat : k \in S
  BY <1>1, <1>2, SetInduction
<1> QED
  <2> TAKE k \in Level
  <2>1. k \in Nat /\ k <= Top
    BY BuddyConstants
  <2> QED
    BY <1>3, <2>1 DEF S

LEMMA PoolRefusesWhenFull == BuddyInv => Buddies!RefusedOnlyWhenFull
<1> SUFFICES ASSUME BuddyInv, NEW l \in Level, ~Buddies!HasFree(l),
                    NEW i \in 0 .. Count(l) - 1,
                    \A b \in live : Buddies!LiveUnits(b) \cap Buddies!Units(l, i) = {}
             PROVE  FALSE
  BY DEF Buddies!RefusedOnlyWhenFull, Buddies!Full, Level, Count
<1>1. \A k \in Level : l <= k => mBitset[k] = {}
  <2>1. \A k \in Level : l <= k => k \in l .. Top
    BY BuddyConstants
  <2> QED
    BY <2>1 DEF Buddies!HasFree, Top
<1>2. i \in Nat
  OBVIOUS
<1>3. ASSUME NEW u \in Units, At(l, u) = i
      PROVE  \E j \in 0 .. l : At(j, u) \in mBitset[j]
  <2>1. u \in Nat
    BY UnitsFacts
  <2>2. u \in Buddies!Units(l, i)
    BY <1>2, <1>3, <2>1, UnitsFacts
  <2>3. \A b \in live : ~Covers(b, u)
    BY <2>1, <2>2, LiveCovers
  <2>4. PICK j \in Level : At(j, u) \in mBitset[j]
    BY <2>3 DEF BuddyInv, Tiles
  <2>5. ~(l <= j)
    BY <1>1, <2>4
  <2>6. j \in 0 .. l
    BY <2>5, BuddyConstants
  <2> QED
    BY <2>4, <2>6
<1>4. i \in mBitset[l]
  BY <1>3, FreeIsMerged
<1> QED
  BY <1>1, <1>4, BuddyConstants

LEMMA PoolFailsWhenFull == BuddyInv => Buddies!FailsOnlyWhenFull
<1> SUFFICES ASSUME BuddyInv
             PROVE  Buddies!FailsOnlyWhenFull
  OBVIOUS
<1>1. FailsEmpty(mBitset, failed)
  BY DEF BuddyInv
<1>2. ASSUME NEW l \in Level, \A k \in l .. Top : mBitset[k] = {}
      PROVE  Buddies!Full(l)
  <2>1. ~Buddies!HasFree(l)
    BY <1>2 DEF Buddies!HasFree, Top
  <2> QED
    BY <2>1, PoolRefusesWhenFull DEF Buddies!RefusedOnlyWhenFull, Level
<1> QED
  BY <1>1, <1>2 DEF FailsEmpty, Buddies!FailsOnlyWhenFull, Level, Top

\* Every variable of the buddy pool keeps its type: no bit is set beyond the
\* blocks of its level, and blocks handed out begin inside the pool.
THEOREM BuddyTypeCorrect == Buddies!Spec => []Buddies!TypeOK
<1>1. BuddyInv => Buddies!TypeOK
  BY DEF BuddyInv
<1> QED
  BY <1>1, BuddyInvariant, PTL

\* Through any splits and merges, each unit of the pool is in exactly one block,
\* free or handed out, allocate() refuses only what does not fit between the
\* blocks that are handed out, and an assertion fails only then.
THEOREM BuddiesAreSound == Buddies!Spec => []BuddiesSound
<1>1. BuddyInv => BuddiesSound
  BY PoolIsTiled, PoolRefusesWhenFull, PoolFailsWhenFull DEF BuddiesSound
<1> QED
  BY <1>1, BuddyInvariant, PTL

(***************************************************************************)
(* All of them                                                             *)
(***************************************************************************)

\* In the composition each component does what it does alone.
LEMMA EachAlone ==
    SequentialSpec => Spec /\ Buddies!Spec /\ Ring!Spec /\ Chunks!Spec /\ Locks!Spec
<1>1. SequentialInit => Init /\ Buddies!Init /\ Ring!Init /\ Chunks!Init /\ Locks!Init
  BY DEF SequentialInit
<1>2. ASSUME [SequentialNext]_<<used, vars, buddies, ring, chunks, locks>>
      PROVE  /\ [Next]_vars
             /\ [Buddies!Next]_(Buddies!vars)
             /\ [Ring!Next]_(Ring!vars)
             /\ [Chunks!Next]_(Chunks!vars)
             /\ [Locks!Next]_(Locks!vars)
  <2>1. UNCHANGED buddies => UNCHANGED Buddies!vars
    BY DEF Buddies!vars, buddies
  <2>2. UNCHANGED ring => UNCHANGED Ring!vars
    BY DEF Ring!vars, ring
  <2>4. UNCHANGED chunks => UNCHANGED Chunks!vars
    BY DEF Chunks!vars, Chunks!small, Chunks!large, chunks
  <2>5. UNCHANGED locks => UNCHANGED Locks!vars
    BY DEF Locks!vars, locks
  <2>3. /\ Next \/ UNCHANGED vars
        /\ Buddies!Next \/ UNCHANGED buddies
        /\ Ring!Next \/ UNCHANGED ring
        /\ Chunks!Next \/ UNCHANGED chunks
        /\ Locks!Next \/ UNCHANGED locks
    BY <1>2, Zenon DEF SequentialNext
  <2> QED
    BY <2>1, <2>2, <2>3, <2>4, <2>5, Zenon
<1> QED
  BY <1>1, <1>2, PTL DEF SequentialSpec, Spec, Buddies!Spec, Ring!Spec, Chunks!Spec, Locks!Spec

\* The variables of all components keep their types.
THEOREM AllTypesCorrect == SequentialSpec => []AllTypeOK
<1>1. SequentialSpec => [](Buddies!TypeOK /\ Ring!TypeOK /\ Chunks!TypeOK /\ Locks!TypeOK)
  BY EachAlone, BuddyTypeCorrect, RingTypeCorrect, PoolTypeCorrect, LockTypeCorrect, PTL
<1>2. Buddies!TypeOK /\ Ring!TypeOK /\ Chunks!TypeOK /\ Locks!TypeOK => AllTypeOK
  BY DEF AllTypeOK
<1> QED
  BY <1>1, <1>2, PTL

\* And their properties hold together.
THEOREM AllAreSound ==
    SequentialSpec => [](BuddiesSound /\ RingSound /\ PoolsSound /\ ReportsWhatRootReaches)
BY EachAlone, BuddiesAreSound, RingIsSound, PoolsAreSound, CheckerReports, PTL
=============================================================================
