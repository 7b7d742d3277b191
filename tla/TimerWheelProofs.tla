-------------------------- MODULE TimerWheelProofs --------------------------
(* The timer wheel runs every task once, on its tick and in order, proved   *)
(* for any number of buckets, any delays and any number of tasks and ticks. *)
EXTENDS TimerWheel, Integers, SequenceTheorems, TLAPS

(***************************************************************************)
(* The inductive invariant.                                                *)
(***************************************************************************)

\* Between ticks nothing is kept outside of the buckets.
Typed ==
    /\ TypeOK
    /\ pc = "task" => position < Len(mEntries2)
    /\ pc = "idle" => mEntries2 = << >> /\ mEntries3 = << >> /\ position = 0

\* DueTick(), as a function.
DueOf == [task \in DOMAIN added |-> DueTick(task)]

\* What n whole rounds take.
Rounds(n) == num_buckets * n

\* When the bucket that is d buckets after bucket a is.
Distance(a, b) == IF b >= a THEN b - a ELSE b - a + num_buckets

\* How many ticks from the latest one a bucket is run for the next time.
NextRun ==
    [b \in Bucket |->
       CASE pc = "idle"                        -> Distance(mActiveIndex, b) + 1
         [] pc # "idle" /\ b = mActiveIndex    -> num_buckets
         [] pc # "idle" /\ b # mActiveIndex    -> Distance(mActiveIndex, b)]

\* The entries of mEntries2 that have not been dealt with yet.
Done == IF pc = "task" THEN position + 1 ELSE position
Remaining == Done + 1 .. Len(mEntries2)

\* Wherever an entry waits, it will be run on the tick that it is due.
OnTime ==
    /\ \A b \in Bucket : \A k \in 1 .. Len(mEntries[b]) :
         /\ mEntries[b][k].mTask \in 1 .. Len(added)
         /\ DueOf[mEntries[b][k].mTask] =
                ticks + NextRun[b] + Rounds(mEntries[b][k].mCount)
    /\ \A k \in 1 .. Len(mEntries2) :
         /\ mEntries2[k].mTask \in 1 .. Len(added)
         /\ DueOf[mEntries2[k].mTask] = ticks + Rounds(mEntries2[k].mCount)
    /\ \A k \in 1 .. Len(mEntries3) :
         /\ mEntries3[k].mTask \in 1 .. Len(added)
         /\ DueOf[mEntries3[k].mTask] =
                ticks + num_buckets + Rounds(mEntries3[k].mCount)
    /\ \A k \in 1 .. Len(fired) :
         /\ fired[k].task \in 1 .. Len(added)
         /\ fired[k].tick = DueOf[fired[k].task] /\ fired[k].tick <= ticks

\* Entries that wait for the same tick wait in the order they were added.
Ascending(entries) ==
    \A j, k \in 1 .. Len(entries) :
        j < k /\ entries[j].mCount = entries[k].mCount =>
            entries[j].mTask < entries[k].mTask

Ordered ==
    /\ \A b \in Bucket : Ascending(mEntries[b])
    /\ Ascending(mEntries2) /\ Ascending(mEntries3)
    /\ \A j \in 1 .. Len(mEntries3) : \A k \in Remaining :
         mEntries3[j].mCount + 1 = mEntries2[k].mCount =>
             mEntries3[j].mTask < mEntries2[k].mTask

\* What is added during a tick comes after all that the tick began with.
NewestLast ==
    pc # "idle" =>
        \A j \in 1 .. Len(mEntries[mActiveIndex]) :
            /\ \A k \in 1 .. Len(mEntries2) :
                 mEntries2[k].mTask < mEntries[mActiveIndex][j].mTask
            /\ \A k \in 1 .. Len(mEntries3) :
                 mEntries3[k].mTask < mEntries[mActiveIndex][j].mTask

\* And what has been run on this tick came before what is left to run.
FiredInOrder ==
    /\ \A j \in 1 .. Len(fired) : \A k \in Remaining :
         fired[j].tick = ticks /\ mEntries2[k].mCount = 0 =>
             fired[j].task < mEntries2[k].mTask
    /\ \A j, k \in 1 .. Len(fired) :
         j < k /\ fired[j].tick = fired[k].tick => fired[j].task < fired[k].task

\* No task is lost.
Kept(task) ==
    \/ \E k \in 1 .. Len(fired) : fired[k].task = task
    \/ \E b \in Bucket : \E k \in 1 .. Len(mEntries[b]) :
         mEntries[b][k].mTask = task
    \/ \E k \in Remaining : mEntries2[k].mTask = task
    \/ \E k \in 1 .. Len(mEntries3) : mEntries3[k].mTask = task

NoneLost == \A task \in 1 .. Len(added) : Kept(task)

(***************************************************************************)
(* Arithmetic.                                                             *)
(***************************************************************************)

LEMMA RoundsFacts ==
    /\ Rounds(0) = 0
    /\ \A n \in Nat : Rounds(n) \in Nat /\ Rounds(n + 1) = Rounds(n) + num_buckets
<1> USE TimerWheelAssumption DEF Rounds
<1>1. ASSUME NEW n \in Nat
      PROVE  num_buckets * n \in Nat
             /\ num_buckets * (n + 1) = num_buckets * n + num_buckets
  OBVIOUS
<1> QED
  BY <1>1

\* A delay is its rounds and its remainder.
LEMMA Division ==
    ASSUME NEW d \in Nat
    PROVE  /\ d % num_buckets \in Nat /\ d % num_buckets < num_buckets
           /\ d \div num_buckets \in Nat
           /\ d = Rounds(d \div num_buckets) + (d % num_buckets)
<1>1. num_buckets \in Nat /\ num_buckets > 0
  BY TimerWheelAssumption
<1>2. d % num_buckets \in Nat /\ d % num_buckets < num_buckets
  BY <1>1
<1>3. d \div num_buckets \in Nat
  BY <1>1
<1>4. d = num_buckets * (d \div num_buckets) + (d % num_buckets)
  BY <1>1
<1> QED
  BY <1>2, <1>3, <1>4 DEF Rounds

\* The bucket that add() selects.
LEMMA Wrapped ==
    ASSUME NEW a \in Bucket, NEW r \in Nat, r < num_buckets
    PROVE  /\ (a + r) % num_buckets \in Bucket
           /\ Distance(a, (a + r) % num_buckets) = r
<1>1. /\ num_buckets \in Nat \ {0} /\ a \in Nat /\ a < num_buckets
  BY TimerWheelAssumption DEF Bucket
<1>2. (a + r) % num_buckets = IF a + r < num_buckets THEN a + r
                              ELSE a + r - num_buckets
  BY <1>1
<1> QED
  BY <1>1, <1>2 DEF Bucket, Distance

(***************************************************************************)
(* Types.                                                                  *)
(***************************************************************************)

\* Two sequences of entries, one behind the other.
LEMMA Joined ==
    ASSUME NEW s \in Seq(Entry), NEW t \in Seq(Entry)
    PROVE  /\ s \o t \in Seq(Entry)
           /\ Len(s \o t) = Len(s) + Len(t)
           /\ Len(s) \in Nat /\ Len(t) \in Nat
           /\ \A k \in 1 .. Len(s) : (s \o t)[k] = s[k]
           /\ \A k \in Len(s) + 1 .. Len(s) + Len(t) :
                (s \o t)[k] = t[k - Len(s)]
BY ConcatProperties

\* An entry appended to a sequence of them.
LEMMA Appended ==
    ASSUME NEW s \in Seq(Entry), NEW e \in Entry
    PROVE  /\ Append(s, e) \in Seq(Entry)
           /\ Len(Append(s, e)) = Len(s) + 1 /\ Len(s) \in Nat
           /\ \A k \in 1 .. Len(s) : Append(s, e)[k] = s[k]
           /\ Append(s, e)[Len(s) + 1] = e
BY AppendProperties

LEMMA Constants ==
    /\ num_buckets \in Nat \ {0} /\ MaxTasks \in Nat /\ MaxTicks \in Nat
    /\ 0 \in Bucket
    /\ \A b \in Bucket : b \in Nat /\ b < num_buckets
    /\ \A b \in Bucket : b + 1 # num_buckets => b + 1 \in Bucket
    /\ \A d \in Delays : d \in Nat
BY TimerWheelAssumption DEF Bucket

\* An entry that stays for another round.
LEMMA Decremented ==
    ASSUME NEW e \in Entry, e.mCount # 0
    PROVE  /\ [e EXCEPT !.mCount = @ - 1] \in Entry
           /\ [e EXCEPT !.mCount = @ - 1].mCount = e.mCount - 1
           /\ [e EXCEPT !.mCount = @ - 1].mTask = e.mTask
           /\ e.mCount - 1 \in Nat
<1>1. e.mCount \in Nat /\ e.mTask \in 1 .. MaxTasks /\ e.mCount - 1 \in Nat
  BY DEF Entry
<1>2. [e EXCEPT !.mCount = @ - 1] = [mCount |-> e.mCount - 1, mTask |-> e.mTask]
  BY DEF Entry
<1> QED
  BY <1>1, <1>2 DEF Entry

\* What add() makes of a delay.
BucketFor(delay) == (mActiveIndex + (delay % num_buckets)) % num_buckets
EntryFor(delay) == [mCount |-> delay \div num_buckets, mTask |-> Len(added) + 1]

LEMMA AddFacts ==
    ASSUME Typed, NEW delay \in Delays, Add(delay)
    PROVE  /\ BucketFor(delay) \in Bucket
           /\ Distance(mActiveIndex, BucketFor(delay)) = delay % num_buckets
           /\ EntryFor(delay) \in Entry
           /\ EntryFor(delay).mCount = delay \div num_buckets
           /\ EntryFor(delay).mTask = Len(added) + 1
           /\ Len(added) \in Nat
           /\ Len(added') = Len(added) + 1
           /\ added' \in Seq([tick : Nat, delay : Delays, inside : BOOLEAN])
           /\ \A k \in 1 .. Len(added) : added'[k] = added[k]
           /\ added'[Len(added) + 1] =
                [tick |-> ticks, delay |-> delay, inside |-> pc = "task"]
           /\ mEntries' = [mEntries EXCEPT ![BucketFor(delay)] =
                                            Append(@, EntryFor(delay))]
<1>1. delay \in Nat /\ mActiveIndex \in Bucket /\ ticks \in Nat
  BY Constants DEF Typed, TypeOK
<1>2. /\ delay % num_buckets \in Nat /\ delay % num_buckets < num_buckets
      /\ delay \div num_buckets \in Nat
  BY <1>1, Division
<1>3. /\ BucketFor(delay) \in Bucket
      /\ Distance(mActiveIndex, BucketFor(delay)) = delay % num_buckets
  BY <1>1, <1>2, Wrapped DEF BucketFor
<1>4. /\ added \in Seq([tick : Nat, delay : Delays, inside : BOOLEAN])
      /\ Len(added) < MaxTasks /\ Len(added) \in Nat
  BY DEF Add, Typed, TypeOK
<1>5. /\ EntryFor(delay) \in Entry
      /\ EntryFor(delay).mCount = delay \div num_buckets
      /\ EntryFor(delay).mTask = Len(added) + 1
  BY <1>2, <1>4, Constants DEF EntryFor, Entry
<1>6. [tick |-> ticks, delay |-> delay, inside |-> pc = "task"]
        \in [tick : Nat, delay : Delays, inside : BOOLEAN]
  BY <1>1
<1>7. /\ Len(added') = Len(added) + 1
      /\ added' \in Seq([tick : Nat, delay : Delays, inside : BOOLEAN])
      /\ \A k \in 1 .. Len(added) : added'[k] = added[k]
      /\ added'[Len(added) + 1] =
           [tick |-> ticks, delay |-> delay, inside |-> pc = "task"]
  BY <1>4, <1>6, AppendProperties DEF Add
<1>8. mEntries' = [mEntries EXCEPT ![BucketFor(delay)] = Append(@, EntryFor(delay))]
  BY DEF Add, BucketFor, EntryFor
<1> QED
  BY <1>3, <1>4, <1>5, <1>7, <1>8

\* Each bucket before and after add().
LEMMA AddedTo ==
    ASSUME Typed, NEW delay \in Delays, Add(delay), NEW b \in Bucket
    PROVE  /\ mEntries'[b] \in Seq(Entry)
           /\ b # BucketFor(delay) => mEntries'[b] = mEntries[b]
           /\ b = BucketFor(delay) =>
                /\ Len(mEntries'[b]) = Len(mEntries[b]) + 1
                /\ \A k \in 1 .. Len(mEntries[b]) : mEntries'[b][k] = mEntries[b][k]
                /\ mEntries'[b][Len(mEntries[b]) + 1] = EntryFor(delay)
           /\ Len(mEntries[b]) \in Nat
<1>1. mEntries \in [Bucket -> Seq(Entry)] /\ mEntries[b] \in Seq(Entry)
  BY DEF Typed, TypeOK
<1>2. EntryFor(delay) \in Entry
  BY AddFacts
<1>3. mEntries' = [mEntries EXCEPT ![BucketFor(delay)] = Append(@, EntryFor(delay))]
  BY AddFacts
<1>4. CASE b = BucketFor(delay)
  <2>1. mEntries'[b] = Append(mEntries[b], EntryFor(delay))
    BY <1>1, <1>3, <1>4
  <2> QED
    BY <1>1, <1>2, <1>4, <2>1, Appended
<1>5. CASE b # BucketFor(delay)
  BY <1>1, <1>3, <1>5
<1> QED
  BY <1>4, <1>5

LEMMA TypedInit == Init => Typed
BY Constants DEF Init, Typed, TypeOK

LEMMA TypedStep == Typed /\ [Next]_vars => Typed'
<1> SUFFICES ASSUME Typed, [Next]_vars
             PROVE  Typed'
  OBVIOUS
<1> USE DEF Typed, TypeOK
<1>1. ASSUME NEW delay \in Delays, Add(delay)
      PROVE  Typed'
  <2>1. mEntries' \in [Bucket -> Seq(Entry)]
    <3>1. \A b \in Bucket : mEntries'[b] \in Seq(Entry)
      BY <1>1, AddedTo
    <3>2. mEntries' = [b \in Bucket |-> mEntries'[b]]
      BY <1>1 DEF Add
    <3> QED
      BY <3>1, <3>2
  <2>2. added' \in Seq([tick : Nat, delay : Delays, inside : BOOLEAN])
    BY <1>1, AddFacts
  <2> QED
    BY <1>1, <2>1, <2>2 DEF Add
<1>2. CASE StartTick
  BY <1>2, Constants DEF StartTick
<1>3. CASE CallTask
  <2>1. /\ Current \in Entry /\ position < Len(mEntries2)
    BY <1>3 DEF CallTask, Current
  <2>2. [tick |-> ticks, task |-> Current.mTask] \in [tick : Nat, task : 1 .. MaxTasks]
    BY <2>1 DEF Entry
  <2>3. fired' \in Seq([tick : Nat, task : 1 .. MaxTasks])
    BY <1>3, <2>2 DEF CallTask
  <2> QED
    BY <1>3, <2>1, <2>3 DEF CallTask
<1>4. CASE TaskReturns
  BY <1>4 DEF TaskReturns
<1>5. CASE ExecuteLater
  <2>1. /\ Current \in Entry /\ position < Len(mEntries2) /\ Current.mCount # 0
    BY <1>5 DEF ExecuteLater, Current
  <2>2. [Current EXCEPT !.mCount = @ - 1] \in Entry
    BY <2>1, Decremented
  <2>3. mEntries3' \in Seq(Entry)
    BY <1>5, <2>2, Appended DEF ExecuteLater
  <2> QED
    BY <1>5, <2>1, <2>3 DEF ExecuteLater
<1>6. CASE EndTick
  <2>1. mEntries3 \o mEntries[mActiveIndex] \in Seq(Entry)
    BY Joined
  <2>2. mEntries' \in [Bucket -> Seq(Entry)]
    BY <1>6, <2>1 DEF EndTick
  <2>3. mActiveIndex' \in Bucket
    BY <1>6, Constants DEF EndTick
  <2> QED
    BY <1>6, <2>2, <2>3 DEF EndTick
<1>7. CASE UNCHANGED vars
  BY <1>7 DEF vars
<1> QED
  BY <1>1, <1>2, <1>3, <1>4, <1>5, <1>6, <1>7 DEF Next, Tick, Over

\* Every variable keeps its type, in particular the active index and the
\* position their bounds.
THEOREM TypeCorrect == Spec => []TypeOK
<1>1. Typed => TypeOK
  BY DEF Typed
<1> QED
  BY <1>1, TypedInit, TypedStep, PTL DEF Spec

(***************************************************************************)
(* Every task on its tick.                                                 *)
(***************************************************************************)

Added == [tick : Nat, delay : Delays, inside : BOOLEAN]

\* When a task is due, spelled out.
DueFor(a) == IF ~a.inside THEN a.tick + a.delay + 1
             ELSE IF a.delay % num_buckets # 0 THEN a.tick + a.delay
                  ELSE a.tick + a.delay + num_buckets

LEMMA DueForAdded == \A a \in Added : DueFor(a) \in Nat
<1>1. ASSUME NEW a \in Added
      PROVE  DueFor(a) \in Nat
  <2>1. a.tick \in Nat /\ a.delay \in Nat /\ num_buckets \in Nat
    BY Constants DEF Added
  <2> QED
    BY <2>1 DEF DueFor
<1> QED
  BY <1>1

LEMMA DueOfTask ==
    ASSUME added \in Seq(Added), NEW task \in 1 .. Len(added)
    PROVE  /\ added[task] \in Added
           /\ DueOf[task] = DueTick(task)
           /\ DueOf[task] = DueFor(added[task])
           /\ DueOf[task] \in Nat
<1>1. DOMAIN added = 1 .. Len(added) /\ added[task] \in Added
  BY ElementOfSeq
<1>2. added[task].inside \in BOOLEAN
  BY <1>1 DEF Added
<1>3. DueOf[task] = DueTick(task)
  BY <1>1 DEF DueOf
<1>4. DueOf[task] = DueFor(added[task])
  BY <1>2, <1>3 DEF DueTick, DueFor
<1> QED
  BY <1>1, <1>3, <1>4, DueForAdded

LEMMA DueOfTaskNext ==
    ASSUME added' \in Seq(Added), NEW task \in 1 .. Len(added')
    PROVE  DueOf'[task] = DueFor(added'[task])
<1>1. DOMAIN added' = 1 .. Len(added') /\ added'[task] \in Added
  BY ElementOfSeq
<1>2. added'[task].inside \in BOOLEAN
  BY <1>1 DEF Added
<1>3. DueOf'[task] = DueTick(task)'
  BY <1>1 DEF DueOf
<1> QED
  BY <1>2, <1>3 DEF DueTick, DueFor

\* It does not change.
LEMMA DueKept ==
    ASSUME Typed, [Next]_vars
    PROVE  \A task \in 1 .. Len(added) :
               task \in 1 .. Len(added') /\ DueOf'[task] = DueOf[task]
<1>1. CASE UNCHANGED added
  BY <1>1 DEF DueOf, DueTick
<1>2. ASSUME NEW delay \in Delays, Add(delay), NEW task \in 1 .. Len(added)
      PROVE  task \in 1 .. Len(added') /\ DueOf'[task] = DueOf[task]
  <2>1. /\ Len(added) \in Nat /\ Len(added') = Len(added) + 1
        /\ added'[task] = added[task]
    BY <1>2, AddFacts
  <2>2. added \in Seq(Added) /\ added' \in Seq(Added)
    BY <1>2, AddFacts DEF Typed, TypeOK, Added
  <2>3. task \in 1 .. Len(added')
    BY <2>1
  <2> QED
    BY <2>1, <2>2, <2>3, DueOfTask, DueOfTaskNext
<1>3. UNCHANGED added \/ \E delay \in Delays : Add(delay)
  BY DEF Next, Tick, StartTick, CallTask, TaskReturns, ExecuteLater, EndTick, Over, vars
<1> QED
  BY <1>1, <1>2, <1>3

\* A new task is put where it will be run on its tick.
LEMMA NewDue ==
    ASSUME Typed, NEW delay \in Delays, Add(delay)
    PROVE  DueOf'[Len(added) + 1] =
               ticks + NextRun[BucketFor(delay)] + Rounds(delay \div num_buckets)
<1>1. /\ delay \in Nat /\ ticks \in Nat /\ num_buckets \in Nat \ {0}
      /\ pc \in {"idle", "task"} /\ mActiveIndex \in Bucket
  BY Constants DEF Typed, TypeOK, Add
<1>2. /\ delay % num_buckets \in Nat /\ delay % num_buckets < num_buckets
      /\ Rounds(delay \div num_buckets) \in Nat
      /\ delay = Rounds(delay \div num_buckets) + (delay % num_buckets)
  BY <1>1, Division, RoundsFacts
<1>3. added' \in Seq(Added)
  BY AddFacts DEF Added
<1>4. Len(added) + 1 \in 1 .. Len(added')
  <2>1. Len(added) \in Nat /\ Len(added') = Len(added) + 1
    BY AddFacts
  <2> QED
    BY <2>1
<1>5. added'[Len(added) + 1] =
        [tick |-> ticks, delay |-> delay, inside |-> pc = "task"]
  BY AddFacts
<1>6. DueOf'[Len(added) + 1] =
         IF pc # "task" THEN ticks + delay + 1
         ELSE IF delay % num_buckets # 0 THEN ticks + delay
              ELSE ticks + delay + num_buckets
  <2>1. DueOf'[Len(added) + 1] = DueFor(added'[Len(added) + 1])
    BY <1>3, <1>4, DueOfTaskNext
  <2>2. /\ added'[Len(added) + 1].tick = ticks
        /\ added'[Len(added) + 1].delay = delay
        /\ added'[Len(added) + 1].inside = (pc = "task")
    BY <1>5
  <2> QED
    BY <2>1, <2>2 DEF DueFor
<1>7. /\ BucketFor(delay) \in Bucket
      /\ Distance(mActiveIndex, BucketFor(delay)) = delay % num_buckets
  BY AddFacts
<1>8. CASE pc = "idle"
  <2>1. NextRun[BucketFor(delay)] = (delay % num_buckets) + 1
    BY <1>7, <1>8 DEF NextRun
  <2> QED
    BY <1>1, <1>2, <1>6, <1>8, <2>1
<1>9. CASE pc = "task"
  <2>1. CASE delay % num_buckets = 0
    <3>1. BucketFor(delay) = mActiveIndex
      BY <1>1, <1>7, <2>1, Constants DEF Distance
    <3>2. NextRun[BucketFor(delay)] = num_buckets
      BY <1>7, <1>9, <3>1 DEF NextRun
    <3> QED
      BY <1>1, <1>2, <1>6, <1>9, <2>1, <3>2
  <2>2. CASE delay % num_buckets # 0
    <3>1. BucketFor(delay) # mActiveIndex
      BY <1>1, <1>7, <2>2, Constants DEF Distance
    <3>2. NextRun[BucketFor(delay)] = delay % num_buckets
      BY <1>7, <1>9, <3>1 DEF NextRun
    <3> QED
      BY <1>1, <1>2, <1>6, <1>9, <2>2, <3>2
  <2> QED
    BY <2>1, <2>2
<1> QED
  BY <1>1, <1>8, <1>9

\* What a tick does to the buckets.
LEMMA StartTickFacts ==
    ASSUME Typed, StartTick
    PROVE  /\ mActiveIndex \in Bucket /\ mEntries2' = mEntries[mActiveIndex]
           /\ Len(mEntries'[mActiveIndex]) = 0 /\ Len(mEntries3') = 0
           /\ \A b \in Bucket : b # mActiveIndex => mEntries'[b] = mEntries[b]
           /\ NextRun[mActiveIndex] = 1
           /\ \A b \in Bucket : b # mActiveIndex => NextRun[b] = NextRun'[b] + 1
           /\ \A b \in Bucket : NextRun'[b] \in Nat
           /\ ticks \in Nat /\ ticks' = ticks + 1 /\ added' = added /\ fired' = fired
           /\ Len(mEntries2') \in Nat
<1>1. /\ mActiveIndex \in Bucket /\ mEntries \in [Bucket -> Seq(Entry)]
      /\ ticks \in Nat /\ mEntries2 = << >> /\ mEntries3 = << >>
      /\ pc = "idle" /\ pc' = "loop" /\ mActiveIndex' = mActiveIndex
  BY Constants DEF Typed, TypeOK, StartTick
<1>2. /\ mEntries'[mActiveIndex] = << >> /\ mEntries3' = << >>
      /\ mEntries2' = mEntries[mActiveIndex] /\ mEntries[mActiveIndex] \in Seq(Entry)
      /\ \A b \in Bucket : b # mActiveIndex => mEntries'[b] = mEntries[b]
  BY <1>1 DEF StartTick
<1>3. NextRun[mActiveIndex] = 1
  BY <1>1, Constants DEF NextRun, Distance
<1>4. ASSUME NEW b \in Bucket
      PROVE  NextRun'[b] \in Nat /\ (b # mActiveIndex => NextRun[b] = NextRun'[b] + 1)
  <2>1. Distance(mActiveIndex, b) \in Nat /\ num_buckets \in Nat
    BY <1>1, Constants DEF Distance
  <2>2. NextRun[b] = Distance(mActiveIndex, b) + 1
    BY <1>1 DEF NextRun
  <2>3. NextRun'[b] = IF b = mActiveIndex THEN num_buckets
                      ELSE Distance(mActiveIndex, b)
    BY <1>1 DEF NextRun, Distance
  <2> QED
    BY <2>1, <2>2, <2>3
<1>5. ticks' = ticks + 1 /\ added' = added /\ fired' = fired
  BY DEF StartTick
<1>6. Len(mEntries2') \in Nat
  BY <1>2
<1> QED
  BY <1>1, <1>2, <1>3, <1>4, <1>5, <1>6

LEMMA EndTickFacts ==
    ASSUME Typed, EndTick
    PROVE  /\ mActiveIndex \in Bucket
           /\ mEntries'[mActiveIndex] = mEntries3 \o mEntries[mActiveIndex]
           /\ mEntries3 \in Seq(Entry) /\ mEntries[mActiveIndex] \in Seq(Entry)
           /\ Len(mEntries2') = 0 /\ Len(mEntries3') = 0
           /\ \A b \in Bucket : b # mActiveIndex => mEntries'[b] = mEntries[b]
           /\ NextRun[mActiveIndex] = num_buckets
           /\ \A b \in Bucket : NextRun'[b] = NextRun[b]
           /\ ticks' = ticks /\ added' = added /\ fired' = fired
           /\ position = Len(mEntries2) /\ pc = "loop"
<1>1. /\ mActiveIndex \in Bucket /\ mEntries \in [Bucket -> Seq(Entry)]
      /\ mEntries3 \in Seq(Entry)
      /\ pc = "loop" /\ pc' = "idle" /\ position = Len(mEntries2)
  BY DEF Typed, TypeOK, EndTick
<1>2. /\ mEntries'[mActiveIndex] = mEntries3 \o mEntries[mActiveIndex]
      /\ \A b \in Bucket : b # mActiveIndex => mEntries'[b] = mEntries[b]
      /\ mEntries2' = << >> /\ mEntries3' = << >>
      /\ ticks' = ticks /\ added' = added /\ fired' = fired
  BY <1>1 DEF EndTick
<1>3. NextRun[mActiveIndex] = num_buckets
  BY <1>1 DEF NextRun
<1>4. ASSUME NEW b \in Bucket
      PROVE  NextRun'[b] = NextRun[b]
  <2>1. NextRun[b] = IF b = mActiveIndex THEN num_buckets
                     ELSE Distance(mActiveIndex, b)
    BY <1>1 DEF NextRun
  <2>2. NextRun'[b] = Distance(mActiveIndex', b) + 1
    BY <1>1 DEF NextRun, Distance
  <2>3. mActiveIndex' = IF mActiveIndex + 1 = num_buckets THEN 0 ELSE mActiveIndex + 1
    BY DEF EndTick
  <2>4. /\ b \in Nat /\ b < num_buckets /\ mActiveIndex \in Nat
        /\ mActiveIndex < num_buckets /\ num_buckets \in Nat
    BY <1>1, Constants
  <2> QED
    BY <2>1, <2>2, <2>3, <2>4 DEF Distance
<1> QED
  BY <1>1, <1>2, <1>3, <1>4

\* While the tasks of a tick are run, the buckets stay where they are.
LEMMA NextRunUnchanged ==
    ASSUME Typed, mActiveIndex' = mActiveIndex, (pc = "idle") = (pc' = "idle")
    PROVE  NextRun' = NextRun
BY DEF NextRun, Distance

\* The elements of the sequences.
LEMMA Elements ==
    ASSUME Typed
    PROVE  /\ \A b \in Bucket : \A k \in 1 .. Len(mEntries[b]) :
                /\ mEntries[b][k] \in Entry
                /\ mEntries[b][k].mCount \in Nat
                /\ Rounds(mEntries[b][k].mCount) \in Nat
           /\ \A k \in 1 .. Len(mEntries2) :
                /\ mEntries2[k] \in Entry
                /\ mEntries2[k].mCount \in Nat
                /\ Rounds(mEntries2[k].mCount) \in Nat
           /\ \A k \in 1 .. Len(mEntries3) : mEntries3[k] \in Entry
           /\ \A k \in 1 .. Len(fired) : fired[k].tick \in Nat
<1>1. ASSUME NEW s \in Seq(Entry), NEW k \in 1 .. Len(s)
      PROVE  s[k] \in Entry /\ s[k].mCount \in Nat /\ Rounds(s[k].mCount) \in Nat
  <2>1. s[k] \in Entry
    BY <1>1, ElementOfSeq
  <2> QED
    BY <2>1, RoundsFacts DEF Entry
<1>2. ASSUME NEW k \in 1 .. Len(fired)
      PROVE  fired[k].tick \in Nat
  <2>1. fired \in Seq([tick : Nat, task : 1 .. MaxTasks])
    BY DEF Typed, TypeOK
  <2>2. fired[k] \in [tick : Nat, task : 1 .. MaxTasks]
    BY <1>2, <2>1, ElementOfSeq
  <2> QED
    BY <2>2
<1>3. /\ \A b \in Bucket : mEntries[b] \in Seq(Entry)
      /\ mEntries2 \in Seq(Entry) /\ mEntries3 \in Seq(Entry)
  BY DEF Typed, TypeOK
<1> QED
  BY <1>1, <1>2, <1>3

LEMMA OnTimeInit == Init => OnTime
<1> SUFFICES ASSUME Init PROVE OnTime
  OBVIOUS
<1>1. /\ \A b \in Bucket : Len(mEntries[b]) = 0
      /\ Len(mEntries2) = 0 /\ Len(mEntries3) = 0 /\ Len(fired) = 0
  BY DEF Init
<1> QED
  BY <1>1 DEF OnTime

LEMMA OnTimeStep == Typed /\ OnTime /\ [Next]_vars => OnTime'
<1> SUFFICES ASSUME Typed, OnTime, [Next]_vars
             PROVE  OnTime'
  OBVIOUS
<1>0. /\ \A task \in 1 .. Len(added) :
            task \in 1 .. Len(added') /\ DueOf'[task] = DueOf[task]
      /\ ticks \in Nat /\ num_buckets \in Nat
  BY DueKept, Constants DEF Typed, TypeOK
<1>1. ASSUME NEW delay \in Delays, Add(delay)
      PROVE  OnTime'
  <2>1. /\ UNCHANGED <<mEntries2, mEntries3, ticks, fired, mActiveIndex, pc>>
        /\ NextRun' = NextRun
    BY <1>1, NextRunUnchanged DEF Add
  <2>2. ASSUME NEW b \in Bucket, NEW k \in 1 .. Len(mEntries'[b])
        PROVE  /\ mEntries'[b][k].mTask \in 1 .. Len(added')
               /\ DueOf'[mEntries'[b][k].mTask] =
                      ticks + NextRun[b] + Rounds(mEntries'[b][k].mCount)
    <3>1. CASE b = BucketFor(delay) /\ k = Len(mEntries[b]) + 1
      <4>1. mEntries'[b][k] = EntryFor(delay)
        BY <1>1, <3>1, AddedTo
      <4>2. /\ EntryFor(delay).mTask = Len(added) + 1
            /\ EntryFor(delay).mCount = delay \div num_buckets
            /\ Len(added') = Len(added) + 1 /\ Len(added) \in Nat
        BY <1>1, AddFacts
      <4> QED
        BY <1>1, <3>1, <4>1, <4>2, NewDue
    <3>2. CASE ~(b = BucketFor(delay) /\ k = Len(mEntries[b]) + 1)
      <4>1. k \in 1 .. Len(mEntries[b]) /\ mEntries'[b][k] = mEntries[b][k]
        <5>1. /\ Len(mEntries[b]) \in Nat
              /\ b # BucketFor(delay) => mEntries'[b] = mEntries[b]
              /\ b = BucketFor(delay) =>
                   /\ Len(mEntries'[b]) = Len(mEntries[b]) + 1
                   /\ \A j \in 1 .. Len(mEntries[b]) :
                        mEntries'[b][j] = mEntries[b][j]
          BY <1>1, AddedTo
        <5> QED
          BY <2>2, <3>2, <5>1
      <4> QED
        BY <1>0, <4>1 DEF OnTime
    <3> QED
      BY <3>1, <3>2
  <2> QED
    BY <1>0, <2>1, <2>2 DEF OnTime
<1>2. CASE StartTick
  <2>1. ASSUME NEW b \in Bucket, NEW k \in 1 .. Len(mEntries'[b])
        PROVE  /\ mEntries'[b][k].mTask \in 1 .. Len(added')
               /\ DueOf'[mEntries'[b][k].mTask] =
                      ticks' + NextRun'[b] + Rounds(mEntries'[b][k].mCount)
    <3>1. b # mActiveIndex /\ mEntries'[b] = mEntries[b]
      BY <1>2, <2>1, StartTickFacts
    <3>2. /\ mEntries[b][k].mTask \in 1 .. Len(added)
          /\ DueOf[mEntries[b][k].mTask] =
                 ticks + NextRun[b] + Rounds(mEntries[b][k].mCount)
      BY <2>1, <3>1 DEF OnTime
    <3>3. NextRun[b] = NextRun'[b] + 1 /\ ticks' = ticks + 1 /\ NextRun'[b] \in Nat
      BY <1>2, <3>1, StartTickFacts
    <3>4. Rounds(mEntries[b][k].mCount) \in Nat
      BY <2>1, <3>1, Elements
    <3>5. DueOf'[mEntries[b][k].mTask] = DueOf[mEntries[b][k].mTask]
      BY <1>0, <3>2
    <3>6. ticks + NextRun[b] = ticks' + NextRun'[b]
      BY <1>0, <3>3
    <3> QED
      BY <1>0, <3>1, <3>2, <3>5, <3>6
  <2>2. ASSUME NEW k \in 1 .. Len(mEntries2')
        PROVE  /\ mEntries2'[k].mTask \in 1 .. Len(added')
               /\ DueOf'[mEntries2'[k].mTask] = ticks' + Rounds(mEntries2'[k].mCount)
    <3>1. /\ mActiveIndex \in Bucket /\ mEntries2' = mEntries[mActiveIndex]
          /\ NextRun[mActiveIndex] = 1 /\ ticks' = ticks + 1
      BY <1>2, StartTickFacts
    <3>2. /\ mEntries2'[k].mTask \in 1 .. Len(added)
          /\ DueOf[mEntries2'[k].mTask] = ticks + 1 + Rounds(mEntries2'[k].mCount)
      BY <2>2, <3>1 DEF OnTime
    <3> QED
      BY <1>0, <3>1, <3>2
  <2>3. Len(mEntries3') = 0 /\ fired' = fired /\ ticks' = ticks + 1
    BY <1>2, StartTickFacts
  <2>4. \A k \in 1 .. Len(fired') :
          /\ fired'[k].task \in 1 .. Len(added')
          /\ fired'[k].tick = DueOf'[fired'[k].task] /\ fired'[k].tick <= ticks'
    <3>2. \A k \in 1 .. Len(fired) : fired[k].tick \in Nat
      BY Elements
    <3> QED
      BY <1>0, <2>3, <3>2 DEF OnTime
  <2> QED
    BY <2>1, <2>2, <2>3, <2>4 DEF OnTime
<1>3. CASE CallTask
  <2>1. /\ UNCHANGED <<mEntries, mEntries2, mEntries3, ticks, mActiveIndex>>
        /\ NextRun' = NextRun /\ added' = added
    BY <1>3, NextRunUnchanged DEF CallTask
  <2>2. /\ position + 1 \in 1 .. Len(mEntries2) /\ Current = mEntries2[position + 1]
        /\ Current.mCount = 0
    BY <1>3 DEF CallTask, Current, Typed, TypeOK
  <2>3. Current.mTask \in 1 .. Len(added) /\ DueOf[Current.mTask] = ticks
    <3>1. /\ Current.mTask \in 1 .. Len(added)
          /\ DueOf[Current.mTask] = ticks + Rounds(Current.mCount)
      BY <2>2 DEF OnTime
    <3>2. Rounds(Current.mCount) = 0
      BY <2>2, RoundsFacts
    <3> QED
      BY <1>0, <3>1, <3>2
  <2>4. /\ Len(fired') = Len(fired) + 1 /\ Len(fired) \in Nat
        /\ \A k \in 1 .. Len(fired) : fired'[k] = fired[k]
        /\ fired'[Len(fired) + 1] = [tick |-> ticks, task |-> Current.mTask]
    <3>1. fired \in Seq([tick : Nat, task : 1 .. MaxTasks])
      BY DEF Typed, TypeOK
    <3> QED
      BY <1>3, <3>1, AppendProperties DEF CallTask
  <2>5. \A k \in 1 .. Len(fired') :
          /\ fired'[k].task \in 1 .. Len(added')
          /\ fired'[k].tick = DueOf'[fired'[k].task] /\ fired'[k].tick <= ticks'
    BY <1>0, <2>1, <2>3, <2>4 DEF OnTime
  <2> QED
    BY <1>0, <2>1, <2>5 DEF OnTime
<1>4. CASE TaskReturns
  <2>1. /\ UNCHANGED <<mEntries, mEntries2, mEntries3, ticks, mActiveIndex, fired>>
        /\ NextRun' = NextRun /\ added' = added
    BY <1>4, NextRunUnchanged DEF TaskReturns
  <2> QED
    BY <1>0, <2>1 DEF OnTime
<1>5. CASE ExecuteLater
  <2>1. /\ UNCHANGED <<mEntries, mEntries2, ticks, mActiveIndex, fired>>
        /\ NextRun' = NextRun /\ added' = added
    BY <1>5, NextRunUnchanged DEF ExecuteLater
  <2>2. /\ position + 1 \in 1 .. Len(mEntries2) /\ Current = mEntries2[position + 1]
        /\ Current.mCount # 0 /\ Current \in Entry /\ mEntries3 \in Seq(Entry)
    BY <1>5 DEF ExecuteLater, Current, Typed, TypeOK
  <2> DEFINE later == [Current EXCEPT !.mCount = @ - 1]
  <2>3. /\ later \in Entry /\ later.mTask = Current.mTask
        /\ later.mCount \in Nat /\ Current.mCount = later.mCount + 1
    <3>1. Current.mCount \in Nat
      BY <2>2 DEF Entry
    <3> QED
      BY <2>2, <3>1, Decremented
  <2>4. /\ Len(mEntries3') = Len(mEntries3) + 1 /\ Len(mEntries3) \in Nat
        /\ \A k \in 1 .. Len(mEntries3) : mEntries3'[k] = mEntries3[k]
        /\ mEntries3'[Len(mEntries3) + 1] = later
    <3>1. mEntries3' = Append(mEntries3, later)
      BY <1>5 DEF ExecuteLater
    <3> HIDE DEF later
    <3> QED
      BY <2>2, <2>3, <3>1, Appended
  <2> HIDE DEF later
  <2>5. /\ later.mTask \in 1 .. Len(added)
        /\ DueOf[later.mTask] = ticks + num_buckets + Rounds(later.mCount)
    <3>1. /\ Current.mTask \in 1 .. Len(added)
          /\ DueOf[Current.mTask] = ticks + Rounds(Current.mCount)
      BY <2>2 DEF OnTime
    <3>2. Rounds(Current.mCount) = Rounds(later.mCount) + num_buckets
          /\ Rounds(later.mCount) \in Nat
      BY <2>3, RoundsFacts
    <3> QED
      BY <1>0, <2>3, <3>1, <3>2
  <2>6. \A k \in 1 .. Len(mEntries3') :
          /\ mEntries3'[k].mTask \in 1 .. Len(added')
          /\ DueOf'[mEntries3'[k].mTask] =
                 ticks' + num_buckets + Rounds(mEntries3'[k].mCount)
    <3>1. ASSUME NEW k \in 1 .. Len(mEntries3)
          PROVE  /\ mEntries3[k].mTask \in 1 .. Len(added)
                 /\ DueOf[mEntries3[k].mTask] =
                        ticks + num_buckets + Rounds(mEntries3[k].mCount)
      BY DEF OnTime
    <3>2. ASSUME NEW k \in 1 .. Len(mEntries3'), k # Len(mEntries3) + 1
          PROVE  k \in 1 .. Len(mEntries3)
      BY <2>4, <3>2
    <3> QED
      BY <1>0, <2>1, <2>4, <2>5, <3>1, <3>2
  <2> QED
    BY <1>0, <2>1, <2>6 DEF OnTime
<1>6. CASE EndTick
  <2>1. ASSUME NEW b \in Bucket, NEW k \in 1 .. Len(mEntries'[b])
        PROVE  /\ mEntries'[b][k].mTask \in 1 .. Len(added')
               /\ DueOf'[mEntries'[b][k].mTask] =
                      ticks' + NextRun'[b] + Rounds(mEntries'[b][k].mCount)
    <3>0. NextRun'[b] = NextRun[b] /\ ticks' = ticks
      BY <1>6, EndTickFacts
    <3>1. CASE b = mActiveIndex
      <4>1. /\ mEntries'[b] = mEntries3 \o mEntries[b] /\ NextRun[b] = num_buckets
            /\ mEntries3 \in Seq(Entry) /\ mEntries[b] \in Seq(Entry)
        BY <1>6, <3>1, EndTickFacts
      <4>2. /\ Len(mEntries'[b]) = Len(mEntries3) + Len(mEntries[b])
            /\ Len(mEntries3) \in Nat /\ Len(mEntries[b]) \in Nat
            /\ \A j \in 1 .. Len(mEntries3) : mEntries'[b][j] = mEntries3[j]
            /\ \A j \in Len(mEntries3) + 1 .. Len(mEntries3) + Len(mEntries[b]) :
                 mEntries'[b][j] = mEntries[b][j - Len(mEntries3)]
        BY <4>1, Joined
      <4>3. CASE k \in 1 .. Len(mEntries3)
        BY <1>0, <3>0, <4>1, <4>2, <4>3 DEF OnTime
      <4>4. CASE k \notin 1 .. Len(mEntries3)
        <5>1. /\ k - Len(mEntries3) \in 1 .. Len(mEntries[b])
              /\ mEntries'[b][k] = mEntries[b][k - Len(mEntries3)]
          BY <2>1, <4>2, <4>4
        <5>2. /\ mEntries'[b][k].mTask \in 1 .. Len(added)
              /\ DueOf[mEntries'[b][k].mTask] =
                     ticks + NextRun[b] + Rounds(mEntries'[b][k].mCount)
          BY <5>1 DEF OnTime
        <5> QED
          BY <1>0, <3>0, <5>2
      <4> QED
        BY <4>3, <4>4
    <3>2. CASE b # mActiveIndex
      <4>1. mEntries'[b] = mEntries[b]
        BY <1>6, <3>2, EndTickFacts
      <4> QED
        BY <1>0, <2>1, <3>0, <4>1 DEF OnTime
    <3> QED
      BY <3>1, <3>2
  <2>2. Len(mEntries2') = 0 /\ Len(mEntries3') = 0 /\ fired' = fired /\ ticks' = ticks
    BY <1>6, EndTickFacts
  <2> QED
    BY <1>0, <2>1, <2>2 DEF OnTime
<1>7. CASE UNCHANGED vars
  <2>1. UNCHANGED <<mEntries, mEntries2, mEntries3, ticks, added, fired>>
    BY <1>7 DEF vars
  <2>2. NextRun' = NextRun
    BY <1>7, NextRunUnchanged DEF vars
  <2> QED
    BY <1>0, <2>1, <2>2 DEF OnTime
<1> QED
  BY <1>1, <1>2, <1>3, <1>4, <1>5, <1>6, <1>7 DEF Next, Tick, Over

(***************************************************************************)
(* The order of the tasks.                                                 *)
(***************************************************************************)

\* What the steps that deal with one entry do to it.
LEMMA CurrentFacts ==
    ASSUME Typed, pc = "loop", position < Len(mEntries2)
    PROVE  /\ position + 1 \in 1 .. Len(mEntries2) /\ position + 1 \in Remaining
           /\ Current = mEntries2[position + 1] /\ Current \in Entry
           /\ Current.mCount \in Nat /\ Current.mTask \in Nat
           /\ Remaining = position + 1 .. Len(mEntries2)
           /\ position \in Nat /\ Len(mEntries2) \in Nat
           /\ Remaining \subseteq 1 .. Len(mEntries2)
<1>1. position \in Nat /\ Len(mEntries2) \in Nat
  BY DEF Typed, TypeOK
<1>2. position + 1 \in 1 .. Len(mEntries2) /\ Remaining = position + 1 .. Len(mEntries2)
  BY <1>1 DEF Remaining, Done
<1>3. Current = mEntries2[position + 1] /\ Current \in Entry
  BY <1>2, Elements DEF Current
<1>4. Current.mCount \in Nat /\ Current.mTask \in Nat
  BY <1>3 DEF Entry
<1> QED
  BY <1>1, <1>2, <1>3, <1>4

LEMMA CallTaskFacts ==
    ASSUME Typed, CallTask
    PROVE  /\ UNCHANGED <<mEntries, mEntries2, mEntries3, mActiveIndex, ticks, added>>
           /\ pc = "loop" /\ pc' # "idle" /\ position < Len(mEntries2)
           /\ Current.mCount = 0
           /\ Remaining' = position + 2 .. Len(mEntries2)
           /\ Len(fired') = Len(fired) + 1 /\ Len(fired) \in Nat
           /\ \A k \in 1 .. Len(fired) : fired'[k] = fired[k]
           /\ fired'[Len(fired) + 1].tick = ticks
           /\ fired'[Len(fired) + 1].task = Current.mTask
<1>1. fired \in Seq([tick : Nat, task : 1 .. MaxTasks]) /\ position \in Nat
  BY DEF Typed, TypeOK
<1>2. /\ Len(fired') = Len(fired) + 1 /\ Len(fired) \in Nat
      /\ \A k \in 1 .. Len(fired) : fired'[k] = fired[k]
      /\ fired'[Len(fired) + 1] = [tick |-> ticks, task |-> Current.mTask]
  BY <1>1, AppendProperties DEF CallTask
<1>3. /\ UNCHANGED <<mEntries, mEntries2, mEntries3, mActiveIndex, ticks, added>>
      /\ pc = "loop" /\ pc' # "idle" /\ position < Len(mEntries2) /\ Current.mCount = 0
  BY DEF CallTask
<1>4. Remaining' = position + 2 .. Len(mEntries2)
  BY <1>1 DEF CallTask, Remaining, Done
<1> QED
  BY <1>2, <1>3, <1>4

LEMMA ExecuteLaterFacts ==
    ASSUME Typed, ExecuteLater
    PROVE  /\ UNCHANGED <<mEntries, mEntries2, mActiveIndex, ticks, added, fired>>
           /\ pc = "loop" /\ pc' = pc /\ position < Len(mEntries2)
           /\ Remaining' = position + 2 .. Len(mEntries2)
           /\ Len(mEntries3') = Len(mEntries3) + 1 /\ Len(mEntries3) \in Nat
           /\ \A k \in 1 .. Len(mEntries3) : mEntries3'[k] = mEntries3[k]
           /\ mEntries3'[Len(mEntries3) + 1].mCount + 1 = Current.mCount
           /\ mEntries3'[Len(mEntries3) + 1].mCount \in Nat
           /\ mEntries3'[Len(mEntries3) + 1].mTask = Current.mTask
<1>1. mEntries3 \in Seq(Entry) /\ position \in Nat
  BY DEF Typed, TypeOK
<1>2. /\ UNCHANGED <<mEntries, mEntries2, mActiveIndex, ticks, added, fired>>
      /\ pc = "loop" /\ pc' = pc /\ position < Len(mEntries2) /\ Current.mCount # 0
  BY DEF ExecuteLater
<1>3. Remaining' = position + 2 .. Len(mEntries2)
  BY <1>1 DEF ExecuteLater, Remaining, Done
<1> DEFINE later == [Current EXCEPT !.mCount = @ - 1]
<1>4. /\ later \in Entry /\ later.mTask = Current.mTask
      /\ later.mCount = Current.mCount - 1 /\ Current.mCount - 1 \in Nat
      /\ Current.mCount \in Nat
  BY <1>2, CurrentFacts, Decremented
<1>5. mEntries3' = Append(mEntries3, later)
  BY DEF ExecuteLater
<1> HIDE DEF later
<1>6. /\ Len(mEntries3') = Len(mEntries3) + 1 /\ Len(mEntries3) \in Nat
      /\ \A k \in 1 .. Len(mEntries3) : mEntries3'[k] = mEntries3[k]
      /\ mEntries3'[Len(mEntries3) + 1] = later
  BY <1>1, <1>4, <1>5, Appended
<1> QED
  BY <1>2, <1>3, <1>4, <1>6

LEMMA OrderedInit == Init => Ordered /\ NewestLast /\ FiredInOrder /\ NoneLost
<1> SUFFICES ASSUME Init
             PROVE  Ordered /\ NewestLast /\ FiredInOrder /\ NoneLost
  OBVIOUS
<1>1. /\ \A b \in Bucket : Len(mEntries[b]) = 0
      /\ Len(mEntries2) = 0 /\ Len(mEntries3) = 0 /\ Len(fired) = 0
      /\ Len(added) = 0 /\ pc = "idle"
  BY DEF Init
<1>2. Ordered
  BY <1>1 DEF Ordered, Ascending
<1>3. FiredInOrder
  BY <1>1 DEF FiredInOrder
<1>4. NewestLast
  BY <1>1 DEF NewestLast
<1>5. NoneLost
  BY <1>1 DEF NoneLost, Kept
<1> QED
  BY <1>2, <1>3, <1>4, <1>5

LEMMA OrderedStep ==
    Typed /\ OnTime /\ Ordered /\ NewestLast /\ [Next]_vars => Ordered'
<1> SUFFICES ASSUME Typed, OnTime, Ordered, NewestLast, [Next]_vars
             PROVE  Ordered'
  OBVIOUS
<1>0. mEntries \in [Bucket -> Seq(Entry)] /\ mActiveIndex \in Bucket
  BY DEF Typed, TypeOK
<1>1. ASSUME NEW delay \in Delays, Add(delay)
      PROVE  Ordered'
  <2>1. ASSUME NEW b \in Bucket
        PROVE  Ascending(mEntries'[b])
    <3>1. Ascending(mEntries[b])
      BY DEF Ordered
    <3>2. CASE b # BucketFor(delay)
      BY <1>1, <3>1, <3>2, AddedTo
    <3>3. CASE b = BucketFor(delay)
      <4>1. /\ Len(mEntries[b]) \in Nat
            /\ Len(mEntries'[b]) = Len(mEntries[b]) + 1
            /\ \A k \in 1 .. Len(mEntries[b]) : mEntries'[b][k] = mEntries[b][k]
            /\ mEntries'[b][Len(mEntries[b]) + 1].mTask = Len(added) + 1
            /\ Len(added) \in Nat
        BY <1>1, <3>3, AddedTo, AddFacts
      <4>2. \A k \in 1 .. Len(mEntries[b]) : mEntries[b][k].mTask \in 1 .. Len(added)
        BY DEF OnTime
      <4>3. SUFFICES ASSUME NEW j \in 1 .. Len(mEntries'[b]),
                            NEW k \in 1 .. Len(mEntries'[b]),
                            j < k, mEntries'[b][j].mCount = mEntries'[b][k].mCount
                     PROVE  mEntries'[b][j].mTask < mEntries'[b][k].mTask
        BY DEF Ascending
      <4>4. j \in 1 .. Len(mEntries[b])
        BY <4>1, <4>3
      <4>5. CASE k \in 1 .. Len(mEntries[b])
        BY <3>1, <4>1, <4>3, <4>4, <4>5 DEF Ascending
      <4>6. CASE k = Len(mEntries[b]) + 1
        BY <4>1, <4>2, <4>4, <4>6
      <4> QED
        BY <4>1, <4>3, <4>5, <4>6
    <3> QED
      BY <3>2, <3>3
  <2>2. UNCHANGED <<mEntries2, mEntries3>> /\ Remaining' = Remaining
    BY <1>1 DEF Add, Remaining, Done
  <2> QED
    BY <2>1, <2>2 DEF Ordered, Ascending
<1>2. CASE StartTick
  <2>1. /\ mEntries2' = mEntries[mActiveIndex] /\ Len(mEntries3') = 0
        /\ Len(mEntries'[mActiveIndex]) = 0
        /\ \A b \in Bucket : b # mActiveIndex => mEntries'[b] = mEntries[b]
    BY <1>2, StartTickFacts
  <2>2. \A b \in Bucket : Ascending(mEntries'[b])
    BY <2>1 DEF Ordered, Ascending
  <2>3. Ascending(mEntries2') /\ Ascending(mEntries3')
    BY <1>0, <2>1 DEF Ordered, Ascending
  <2> QED
    BY <2>1, <2>2, <2>3 DEF Ordered, Ascending
<1>3. CASE CallTask
  <2>1. /\ UNCHANGED <<mEntries, mEntries2, mEntries3>>
        /\ Remaining' \subseteq Remaining
    BY <1>3, CallTaskFacts, CurrentFacts
  <2> QED
    BY <2>1 DEF Ordered, Ascending
<1>4. CASE TaskReturns
  <2>1. UNCHANGED <<mEntries, mEntries2, mEntries3>> /\ Remaining' = Remaining
    BY <1>4 DEF TaskReturns, Remaining, Done
  <2> QED
    BY <2>1 DEF Ordered, Ascending
<1>5. CASE ExecuteLater
  <2>1. /\ UNCHANGED <<mEntries, mEntries2>> /\ Remaining' \subseteq Remaining
        /\ Remaining' = position + 2 .. Len(mEntries2)
        /\ position + 1 \in Remaining /\ position + 1 \in 1 .. Len(mEntries2)
        /\ position \in Nat /\ Current = mEntries2[position + 1]
        /\ Len(mEntries2) \in Nat
    BY <1>5, ExecuteLaterFacts, CurrentFacts
  <2>2. /\ Len(mEntries3') = Len(mEntries3) + 1 /\ Len(mEntries3) \in Nat
        /\ \A k \in 1 .. Len(mEntries3) : mEntries3'[k] = mEntries3[k]
        /\ mEntries3'[Len(mEntries3) + 1].mCount + 1 = Current.mCount
        /\ mEntries3'[Len(mEntries3) + 1].mCount \in Nat
        /\ mEntries3'[Len(mEntries3) + 1].mTask = Current.mTask
    BY <1>5, ExecuteLaterFacts
  <2>3. Ascending(mEntries3')
    <3>1. SUFFICES ASSUME NEW j \in 1 .. Len(mEntries3'), NEW k \in 1 .. Len(mEntries3'),
                          j < k, mEntries3'[j].mCount = mEntries3'[k].mCount
                   PROVE  mEntries3'[j].mTask < mEntries3'[k].mTask
      BY DEF Ascending
    <3>2. j \in 1 .. Len(mEntries3)
      BY <2>2, <3>1
    <3>3. CASE k \in 1 .. Len(mEntries3)
      BY <2>2, <3>1, <3>2, <3>3 DEF Ordered, Ascending
    <3>4. CASE k = Len(mEntries3) + 1
      <4>1. mEntries3[j].mCount + 1 = mEntries2[position + 1].mCount
        BY <2>1, <2>2, <3>1, <3>2, <3>4
      <4> QED
        BY <2>1, <2>2, <3>2, <3>4, <4>1 DEF Ordered
    <3> QED
      BY <2>2, <3>1, <3>3, <3>4
  <2>4. ASSUME NEW j \in 1 .. Len(mEntries3'), NEW k \in Remaining',
               mEntries3'[j].mCount + 1 = mEntries2[k].mCount
        PROVE  mEntries3'[j].mTask < mEntries2[k].mTask
    <3>1. CASE j \in 1 .. Len(mEntries3)
      BY <2>1, <2>2, <2>4, <3>1 DEF Ordered
    <3>2. CASE j = Len(mEntries3) + 1
      <4>1. /\ k \in 1 .. Len(mEntries2) /\ position + 1 < k
            /\ mEntries2[position + 1].mCount = mEntries2[k].mCount
        BY <2>1, <2>2, <2>4, <3>2
      <4> QED
        BY <2>1, <2>2, <3>2, <4>1 DEF Ordered, Ascending
    <3> QED
      BY <2>2, <2>4, <3>1, <3>2
  <2> QED
    BY <2>1, <2>3, <2>4 DEF Ordered, Ascending
<1>6. CASE EndTick
  <2>1. /\ mEntries'[mActiveIndex] = mEntries3 \o mEntries[mActiveIndex]
        /\ mEntries3 \in Seq(Entry) /\ mEntries[mActiveIndex] \in Seq(Entry)
        /\ Len(mEntries2') = 0 /\ Len(mEntries3') = 0 /\ pc = "loop"
        /\ \A b \in Bucket : b # mActiveIndex => mEntries'[b] = mEntries[b]
    BY <1>6, EndTickFacts
  <2> DEFINE stay == mEntries3
             come == mEntries[mActiveIndex]
             both == mEntries'[mActiveIndex]
  <2>2. /\ Len(both) = Len(stay) + Len(come) /\ Len(stay) \in Nat /\ Len(come) \in Nat
        /\ \A j \in 1 .. Len(stay) : both[j] = stay[j]
        /\ \A j \in Len(stay) + 1 .. Len(stay) + Len(come) :
             both[j] = come[j - Len(stay)]
    BY <2>1, Joined
  <2>3. /\ Ascending(stay) /\ Ascending(come)
        /\ \A j \in 1 .. Len(come) : \A k \in 1 .. Len(stay) :
             stay[k].mTask < come[j].mTask
    BY <1>0, <2>1 DEF Ordered, NewestLast
  <2>4. Ascending(both)
    <3> HIDE DEF stay, come, both
    <3> SUFFICES ASSUME NEW j \in 1 .. Len(both), NEW k \in 1 .. Len(both),
                        j < k, both[j].mCount = both[k].mCount
                 PROVE  both[j].mTask < both[k].mTask
      BY DEF Ascending
    <3>1. CASE k \in 1 .. Len(stay)
      <4>1. j \in 1 .. Len(stay)
        BY <3>1
      <4> QED
        BY <2>2, <2>3, <3>1, <4>1 DEF Ascending
    <3>2. CASE j \notin 1 .. Len(stay)
      <4>1. /\ j - Len(stay) \in 1 .. Len(come) /\ k - Len(stay) \in 1 .. Len(come)
            /\ j \in Len(stay) + 1 .. Len(stay) + Len(come)
            /\ k \in Len(stay) + 1 .. Len(stay) + Len(come)
            /\ j - Len(stay) < k - Len(stay)
        BY <2>2, <3>2
      <4> QED
        BY <2>2, <2>3, <4>1 DEF Ascending
    <3>3. CASE j \in 1 .. Len(stay) /\ k \notin 1 .. Len(stay)
      <4>1. /\ k - Len(stay) \in 1 .. Len(come)
            /\ k \in Len(stay) + 1 .. Len(stay) + Len(come)
        BY <2>2, <3>3
      <4> QED
        BY <2>2, <2>3, <3>3, <4>1
    <3> QED
      BY <3>1, <3>2, <3>3
  <2>5. \A b \in Bucket : Ascending(mEntries'[b])
    BY <2>1, <2>4 DEF Ordered
  <2> QED
    BY <2>1, <2>5 DEF Ordered, Ascending
<1>7. CASE UNCHANGED vars
  <2>1. UNCHANGED <<mEntries, mEntries2, mEntries3>> /\ Remaining' = Remaining
    BY <1>7 DEF vars, Remaining, Done
  <2> QED
    BY <2>1 DEF Ordered, Ascending
<1> QED
  BY <1>1, <1>2, <1>3, <1>4, <1>5, <1>6, <1>7 DEF Next, Tick, Over

LEMMA NewestStep ==
    Typed /\ OnTime /\ NewestLast /\ [Next]_vars => NewestLast'
<1> SUFFICES ASSUME Typed, OnTime, NewestLast, [Next]_vars
             PROVE  NewestLast'
  OBVIOUS
<1>0. mEntries \in [Bucket -> Seq(Entry)] /\ mActiveIndex \in Bucket
  BY DEF Typed, TypeOK
<1>1. ASSUME NEW delay \in Delays, Add(delay), pc # "idle"
      PROVE  NewestLast'
  <2> DEFINE a == mActiveIndex
  <2>1. UNCHANGED <<mEntries2, mEntries3, mActiveIndex, pc>>
    BY <1>1 DEF Add
  <2>2. /\ Len(mEntries[a]) \in Nat /\ Len(added) \in Nat
        /\ a # BucketFor(delay) => mEntries'[a] = mEntries[a]
        /\ a = BucketFor(delay) =>
             /\ Len(mEntries'[a]) = Len(mEntries[a]) + 1
             /\ \A k \in 1 .. Len(mEntries[a]) : mEntries'[a][k] = mEntries[a][k]
             /\ mEntries'[a][Len(mEntries[a]) + 1].mTask = Len(added) + 1
    BY <1>0, <1>1, AddedTo, AddFacts
  <2>3. /\ \A k \in 1 .. Len(mEntries2) : mEntries2[k].mTask \in 1 .. Len(added)
        /\ \A k \in 1 .. Len(mEntries3) : mEntries3[k].mTask \in 1 .. Len(added)
    BY DEF OnTime
  <2>4. ASSUME NEW j \in 1 .. Len(mEntries'[a])
        PROVE  /\ \A k \in 1 .. Len(mEntries2) :
                    mEntries2[k].mTask < mEntries'[a][j].mTask
               /\ \A k \in 1 .. Len(mEntries3) :
                    mEntries3[k].mTask < mEntries'[a][j].mTask
    <3>1. CASE j \in 1 .. Len(mEntries[a])
      <4>1. mEntries'[a][j] = mEntries[a][j]
        BY <2>2, <3>1
      <4> QED
        BY <1>1, <3>1, <4>1 DEF NewestLast
    <3>2. CASE j = Len(mEntries[a]) + 1 /\ a = BucketFor(delay)
      BY <2>2, <2>3, <3>2
    <3> QED
      BY <2>2, <2>4, <3>1, <3>2
  <2> QED
    BY <2>1, <2>4 DEF NewestLast
<1>2. CASE StartTick
  <2>1. Len(mEntries'[mActiveIndex]) = 0 /\ mActiveIndex' = mActiveIndex
    BY <1>2, StartTickFacts DEF StartTick
  <2> QED
    BY <2>1 DEF NewestLast
<1>3. CASE CallTask \/ TaskReturns \/ UNCHANGED vars
  <2>1. /\ UNCHANGED <<mEntries, mEntries2, mEntries3, mActiveIndex>>
        /\ pc = "idle" => pc' = "idle"
    BY <1>3 DEF CallTask, TaskReturns, vars
  <2> QED
    BY <2>1 DEF NewestLast
<1>4. CASE ExecuteLater
  <2>1. /\ UNCHANGED <<mEntries, mEntries2, mActiveIndex>> /\ pc = "loop"
        /\ position + 1 \in 1 .. Len(mEntries2) /\ Current = mEntries2[position + 1]
    BY <1>4, ExecuteLaterFacts, CurrentFacts
  <2>2. /\ Len(mEntries3') = Len(mEntries3) + 1 /\ Len(mEntries3) \in Nat
        /\ \A k \in 1 .. Len(mEntries3) : mEntries3'[k] = mEntries3[k]
        /\ mEntries3'[Len(mEntries3) + 1].mTask = Current.mTask
    BY <1>4, ExecuteLaterFacts
  <2>3. ASSUME NEW j \in 1 .. Len(mEntries[mActiveIndex]), NEW k \in 1 .. Len(mEntries3')
        PROVE  mEntries3'[k].mTask < mEntries[mActiveIndex][j].mTask
    <3>1. CASE k \in 1 .. Len(mEntries3)
      BY <2>1, <2>2, <3>1 DEF NewestLast
    <3>2. CASE k = Len(mEntries3) + 1
      BY <2>1, <2>2, <3>2 DEF NewestLast
    <3> QED
      BY <2>2, <2>3, <3>1, <3>2
  <2> QED
    BY <2>1, <2>3 DEF NewestLast
<1>5. CASE EndTick
  BY <1>5 DEF EndTick, NewestLast
<1>6. ASSUME NEW delay \in Delays, Add(delay), pc = "idle"
      PROVE  NewestLast'
  BY <1>6 DEF Add, NewestLast
<1> QED
  BY <1>1, <1>2, <1>3, <1>4, <1>5, <1>6 DEF Next, Tick, Over

LEMMA FiredStep ==
    Typed /\ OnTime /\ Ordered /\ FiredInOrder /\ [Next]_vars => FiredInOrder'
<1> SUFFICES ASSUME Typed, OnTime, Ordered, FiredInOrder, [Next]_vars
             PROVE  FiredInOrder'
  OBVIOUS
<1>1. CASE (\E delay \in Delays : Add(delay)) \/ TaskReturns \/ UNCHANGED vars
  <2>1. UNCHANGED <<mEntries2, fired, ticks>> /\ Remaining' = Remaining
    BY <1>1 DEF Add, TaskReturns, vars, Remaining, Done
  <2> QED
    BY <2>1 DEF FiredInOrder
<1>2. CASE StartTick
  <2>1. fired' = fired /\ ticks' = ticks + 1 /\ ticks \in Nat
    BY <1>2, StartTickFacts
  <2>2. \A j \in 1 .. Len(fired) : fired[j].tick \in Nat /\ fired[j].tick <= ticks
    BY Elements DEF OnTime
  <2>3. \A j \in 1 .. Len(fired') : fired'[j].tick # ticks'
    BY <2>1, <2>2
  <2> QED
    BY <2>1, <2>3 DEF FiredInOrder
<1>3. CASE CallTask
  <2>1. /\ mEntries2' = mEntries2 /\ ticks' = ticks
        /\ Remaining' = position + 2 .. Len(mEntries2)
        /\ Remaining = position + 1 .. Len(mEntries2)
        /\ position \in Nat /\ Len(mEntries2) \in Nat
        /\ position + 1 \in Remaining /\ position + 1 \in 1 .. Len(mEntries2)
        /\ Current = mEntries2[position + 1] /\ Current.mCount = 0
    BY <1>3, CallTaskFacts, CurrentFacts
  <2>2. /\ Len(fired') = Len(fired) + 1 /\ Len(fired) \in Nat
        /\ \A k \in 1 .. Len(fired) : fired'[k] = fired[k]
        /\ fired'[Len(fired) + 1].tick = ticks
        /\ fired'[Len(fired) + 1].task = Current.mTask
    BY <1>3, CallTaskFacts
  <2>3. ASSUME NEW j \in 1 .. Len(fired'), NEW k \in Remaining',
               fired'[j].tick = ticks, mEntries2[k].mCount = 0
        PROVE  fired'[j].task < mEntries2[k].mTask
    <3>1. k \in Remaining /\ k \in 1 .. Len(mEntries2) /\ position + 1 < k
      BY <2>1, <2>3
    <3>2. CASE j \in 1 .. Len(fired)
      BY <2>2, <2>3, <3>1, <3>2 DEF FiredInOrder
    <3>3. CASE j = Len(fired) + 1
      BY <2>1, <2>2, <2>3, <3>1, <3>3 DEF Ordered, Ascending
    <3> QED
      BY <2>2, <2>3, <3>2, <3>3
  <2>4. ASSUME NEW j \in 1 .. Len(fired'), NEW k \in 1 .. Len(fired'),
               j < k, fired'[j].tick = fired'[k].tick
        PROVE  fired'[j].task < fired'[k].task
    <3>1. j \in 1 .. Len(fired)
      BY <2>2, <2>4
    <3>2. CASE k \in 1 .. Len(fired)
      BY <2>2, <2>4, <3>1, <3>2 DEF FiredInOrder
    <3>3. CASE k = Len(fired) + 1
      BY <2>1, <2>2, <2>4, <3>1, <3>3 DEF FiredInOrder
    <3> QED
      BY <2>2, <2>4, <3>2, <3>3
  <2> QED
    BY <2>1, <2>3, <2>4 DEF FiredInOrder
<1>4. CASE ExecuteLater
  <2>1. /\ UNCHANGED <<mEntries2, fired, ticks>> /\ Remaining' \subseteq Remaining
    BY <1>4, ExecuteLaterFacts, CurrentFacts
  <2> QED
    BY <2>1 DEF FiredInOrder
<1>5. CASE EndTick
  <2>1. fired' = fired /\ Len(mEntries2') = 0 /\ position' = 0 /\ pc' = "idle"
    BY <1>5, EndTickFacts DEF EndTick
  <2>2. Remaining' = {}
    BY <2>1 DEF Remaining, Done
  <2> QED
    BY <2>1, <2>2 DEF FiredInOrder
<1> QED
  BY <1>1, <1>2, <1>3, <1>4, <1>5 DEF Next, Tick, Over

LEMMA NoneLostStep == Typed /\ NoneLost /\ [Next]_vars => NoneLost'
<1> SUFFICES ASSUME Typed, NoneLost, [Next]_vars
             PROVE  NoneLost'
  OBVIOUS
<1>0. mEntries \in [Bucket -> Seq(Entry)] /\ mActiveIndex \in Bucket
  BY DEF Typed, TypeOK
<1>1. ASSUME NEW delay \in Delays, Add(delay)
      PROVE  NoneLost'
  <2>1. /\ UNCHANGED <<mEntries2, mEntries3, fired>> /\ Remaining' = Remaining
        /\ Len(added') = Len(added) + 1 /\ Len(added) \in Nat
        /\ BucketFor(delay) \in Bucket /\ EntryFor(delay).mTask = Len(added) + 1
    BY <1>1, AddFacts DEF Add, Remaining, Done
  <2>2. \A b \in Bucket : \A k \in 1 .. Len(mEntries[b]) :
           k \in 1 .. Len(mEntries'[b]) /\ mEntries'[b][k] = mEntries[b][k]
    <3>1. ASSUME NEW b \in Bucket, NEW k \in 1 .. Len(mEntries[b])
          PROVE  k \in 1 .. Len(mEntries'[b]) /\ mEntries'[b][k] = mEntries[b][k]
      <4>1. /\ Len(mEntries[b]) \in Nat
            /\ b # BucketFor(delay) => mEntries'[b] = mEntries[b]
            /\ b = BucketFor(delay) =>
                 /\ Len(mEntries'[b]) = Len(mEntries[b]) + 1
                 /\ \A j \in 1 .. Len(mEntries[b]) : mEntries'[b][j] = mEntries[b][j]
        BY <1>1, AddedTo
      <4> QED
        BY <3>1, <4>1
    <3> QED
      BY <3>1
  <2>3. \E k \in 1 .. Len(mEntries'[BucketFor(delay)]) :
           mEntries'[BucketFor(delay)][k].mTask = Len(added) + 1
    <3> DEFINE b == BucketFor(delay)
    <3>1. /\ Len(mEntries'[b]) = Len(mEntries[b]) + 1 /\ Len(mEntries[b]) \in Nat
          /\ mEntries'[b][Len(mEntries[b]) + 1] = EntryFor(delay)
      BY <1>1, <2>1, AddedTo
    <3>2. Len(mEntries[b]) + 1 \in 1 .. Len(mEntries'[b])
      BY <3>1
    <3> QED
      BY <2>1, <3>1, <3>2
  <2>4. ASSUME NEW task \in 1 .. Len(added')
        PROVE  Kept(task)'
    <3>1. CASE task = Len(added) + 1
      BY <2>1, <2>3, <3>1 DEF Kept
    <3>2. CASE task # Len(added) + 1
      <4>1. task \in 1 .. Len(added)
        BY <2>1, <2>4, <3>2
      <4>2. Kept(task)
        BY <4>1 DEF NoneLost
      <4> QED
        BY <2>1, <2>2, <4>2 DEF Kept
    <3> QED
      BY <3>1, <3>2
  <2> QED
    BY <2>4 DEF NoneLost
<1>2. CASE StartTick
  <2>1. /\ added' = added /\ fired' = fired /\ mEntries2' = mEntries[mActiveIndex]
        /\ \A b \in Bucket : b # mActiveIndex => mEntries'[b] = mEntries[b]
    BY <1>2, StartTickFacts
  <2>2. /\ Remaining' = 1 .. Len(mEntries2') /\ Remaining = {} /\ Len(mEntries3) = 0
    BY <1>2 DEF StartTick, Typed, Remaining, Done
  <2>3. ASSUME NEW task \in 1 .. Len(added)
        PROVE  Kept(task)'
    <3>1. \/ \E k \in 1 .. Len(fired) : fired[k].task = task
          \/ \E b \in Bucket : \E k \in 1 .. Len(mEntries[b]) :
               mEntries[b][k].mTask = task
      BY <2>2 DEF NoneLost, Kept
    <3>2. CASE \E k \in 1 .. Len(fired) : fired[k].task = task
      BY <2>1, <3>2 DEF Kept
    <3>3. ASSUME NEW b \in Bucket, NEW k \in 1 .. Len(mEntries[b]),
                 mEntries[b][k].mTask = task
          PROVE  Kept(task)'
      <4>1. CASE b = mActiveIndex
        BY <2>1, <2>2, <3>3, <4>1 DEF Kept
      <4>2. CASE b # mActiveIndex
        BY <2>1, <3>3, <4>2 DEF Kept
      <4> QED
        BY <4>1, <4>2
    <3> QED
      BY <3>1, <3>2, <3>3
  <2> QED
    BY <2>1, <2>3 DEF NoneLost
<1>3. CASE CallTask
  <2>1. /\ UNCHANGED <<mEntries, mEntries2, mEntries3, added>>
        /\ Remaining' = position + 2 .. Len(mEntries2)
        /\ Remaining = position + 1 .. Len(mEntries2)
        /\ position \in Nat /\ Len(mEntries2) \in Nat
        /\ Current = mEntries2[position + 1]
    BY <1>3, CallTaskFacts, CurrentFacts
  <2>2. /\ Len(fired') = Len(fired) + 1 /\ Len(fired) \in Nat
        /\ \A k \in 1 .. Len(fired) : fired'[k] = fired[k]
        /\ fired'[Len(fired) + 1].task = Current.mTask
    BY <1>3, CallTaskFacts
  <2>3. /\ \A k \in 1 .. Len(fired) : k \in 1 .. Len(fired')
        /\ Len(fired) + 1 \in 1 .. Len(fired')
    BY <2>2
  <2>4. \A k \in Remaining : k = position + 1 \/ k \in Remaining'
    BY <2>1
  <2>5. ASSUME NEW task \in 1 .. Len(added)
        PROVE  Kept(task)'
    <3>1. Kept(task)
      BY DEF NoneLost
    <3> QED
      BY <2>1, <2>2, <2>3, <2>4, <3>1 DEF Kept
  <2> QED
    BY <2>1, <2>5 DEF NoneLost
<1>4. CASE TaskReturns \/ UNCHANGED vars
  <2>1. /\ UNCHANGED <<mEntries, mEntries2, mEntries3, added, fired>>
        /\ Remaining' = Remaining
    BY <1>4 DEF TaskReturns, vars, Remaining, Done
  <2> QED
    BY <2>1 DEF NoneLost, Kept
<1>5. CASE ExecuteLater
  <2>1. /\ UNCHANGED <<mEntries, mEntries2, added, fired>>
        /\ Remaining' = position + 2 .. Len(mEntries2)
        /\ Remaining = position + 1 .. Len(mEntries2)
        /\ position \in Nat /\ Len(mEntries2) \in Nat
        /\ Current = mEntries2[position + 1]
    BY <1>5, ExecuteLaterFacts, CurrentFacts
  <2>2. /\ Len(mEntries3') = Len(mEntries3) + 1 /\ Len(mEntries3) \in Nat
        /\ \A k \in 1 .. Len(mEntries3) : mEntries3'[k] = mEntries3[k]
        /\ mEntries3'[Len(mEntries3) + 1].mTask = Current.mTask
    BY <1>5, ExecuteLaterFacts
  <2>3. /\ \A k \in 1 .. Len(mEntries3) : k \in 1 .. Len(mEntries3')
        /\ Len(mEntries3) + 1 \in 1 .. Len(mEntries3')
    BY <2>2
  <2>4. \A k \in Remaining : k = position + 1 \/ k \in Remaining'
    BY <2>1
  <2>5. ASSUME NEW task \in 1 .. Len(added)
        PROVE  Kept(task)'
    <3>1. Kept(task)
      BY DEF NoneLost
    <3> QED
      BY <2>1, <2>2, <2>3, <2>4, <3>1 DEF Kept
  <2> QED
    BY <2>1, <2>5 DEF NoneLost
<1>6. CASE EndTick
  <2>1. /\ mEntries'[mActiveIndex] = mEntries3 \o mEntries[mActiveIndex]
        /\ mEntries3 \in Seq(Entry) /\ mEntries[mActiveIndex] \in Seq(Entry)
        /\ added' = added /\ fired' = fired
        /\ \A b \in Bucket : b # mActiveIndex => mEntries'[b] = mEntries[b]
    BY <1>6, EndTickFacts
  <2>2. Remaining = {}
    <3>1. position \in Nat /\ position = Len(mEntries2) /\ pc = "loop"
      BY <1>6 DEF Typed, TypeOK, EndTick
    <3> QED
      BY <3>1 DEF Remaining, Done
  <2> DEFINE both == mEntries'[mActiveIndex]
             come == mEntries[mActiveIndex]
  <2>3. /\ Len(both) = Len(mEntries3) + Len(come)
        /\ Len(mEntries3) \in Nat /\ Len(come) \in Nat
        /\ \A j \in 1 .. Len(mEntries3) : both[j] = mEntries3[j]
        /\ \A j \in Len(mEntries3) + 1 .. Len(mEntries3) + Len(come) :
             both[j] = come[j - Len(mEntries3)]
    BY <2>1, Joined
  <2> HIDE DEF both, come
  <2>4. \A k \in 1 .. Len(mEntries3) : k \in 1 .. Len(both)
    BY <2>3
  <2>5. ASSUME NEW k \in 1 .. Len(come)
        PROVE  \E j \in 1 .. Len(both) : both[j] = come[k]
    <3>1. /\ Len(mEntries3) + k \in 1 .. Len(both)
          /\ Len(mEntries3) + k \in Len(mEntries3) + 1 .. Len(mEntries3) + Len(come)
          /\ (Len(mEntries3) + k) - Len(mEntries3) = k
      BY <2>3
    <3> QED
      BY <2>3, <3>1
  <2>6. SUFFICES ASSUME NEW task \in 1 .. Len(added),
                        \/ \E b \in Bucket : \E k \in 1 .. Len(mEntries[b]) :
                             mEntries[b][k].mTask = task
                        \/ \E k \in 1 .. Len(mEntries3) : mEntries3[k].mTask = task
                 PROVE  \E b \in Bucket : \E k \in 1 .. Len(mEntries'[b]) :
                            mEntries'[b][k].mTask = task
    BY <2>1, <2>2 DEF NoneLost, Kept
  <2>7. CASE \E k \in 1 .. Len(mEntries3) : mEntries3[k].mTask = task
    BY <1>0, <2>3, <2>4, <2>7 DEF both
  <2>8. ASSUME NEW b \in Bucket, NEW k \in 1 .. Len(mEntries[b]),
               mEntries[b][k].mTask = task
        PROVE  \E j \in 1 .. Len(mEntries'[b]) : mEntries'[b][j].mTask = task
    <3>1. CASE b = mActiveIndex
      BY <2>5, <2>8, <3>1 DEF both, come
    <3>2. CASE b # mActiveIndex
      BY <2>1, <2>8, <3>2
    <3> QED
      BY <3>1, <3>2
  <2> QED
    BY <2>6, <2>7, <2>8
<1> QED
  BY <1>1, <1>2, <1>3, <1>4, <1>5, <1>6 DEF Next, Tick, Over

(***************************************************************************)
(* The theorems.                                                           *)
(***************************************************************************)

WheelInv == Typed /\ OnTime /\ Ordered /\ NewestLast /\ FiredInOrder /\ NoneLost

LEMMA WheelInvariant == Spec => []WheelInv
<1>1. Init => WheelInv
  BY TypedInit, OnTimeInit, OrderedInit DEF WheelInv
<1>2. WheelInv /\ [Next]_vars => WheelInv'
  BY TypedStep, OnTimeStep, OrderedStep, NewestStep, FiredStep, NoneLostStep
  DEF WheelInv
<1> QED
  BY <1>1, <1>2, PTL DEF Spec

\* Tasks of the same tick run in the order of add().
THEOREM SameTickAlwaysInOrder == Spec => []SameTickInOrder
<1>1. Typed /\ FiredInOrder => SameTickInOrder
  <2>1. Typed => DOMAIN fired = 1 .. Len(fired)
    BY DEF Typed, TypeOK
  <2> QED
    BY <2>1 DEF FiredInOrder, SameTickInOrder
<1> QED
  BY <1>1, WheelInvariant, PTL DEF WheelInv

\* Every task runs exactly once, on its tick.
THEOREM AlwaysOnceOnItsTick == Spec => []RunsOnceOnItsTick
<1>1. ASSUME WheelInv
      PROVE  RunsOnceOnItsTick
  <2>1. /\ DOMAIN fired = 1 .. Len(fired) /\ DOMAIN added = 1 .. Len(added)
        /\ added \in Seq(Added) /\ ticks \in Nat /\ Typed /\ Len(fired) \in Nat
    BY <1>1 DEF WheelInv, Typed, TypeOK, Added
  <2>2. \A i \in DOMAIN fired : fired[i].tick = DueTick(fired[i].task)
    BY <1>1, <2>1, DueOfTask DEF WheelInv, OnTime
  <2>3. ASSUME NEW i \in DOMAIN fired, NEW j \in DOMAIN fired,
               fired[i].task = fired[j].task
        PROVE  i = j
    <3>1. fired[i].tick = fired[j].tick
      BY <2>2, <2>3
    <3>2. fired[i].task \in 1 .. Len(added)
      BY <1>1, <2>1 DEF WheelInv, OnTime
    <3>3. /\ i < j => fired[i].task < fired[j].task
          /\ j < i => fired[j].task < fired[i].task
      BY <1>1, <2>1, <3>1 DEF WheelInv, FiredInOrder
    <3>4. fired[i].task \in Int /\ i \in Int /\ j \in Int
      BY <2>1, <3>2
    <3> QED
      BY <2>3, <3>3, <3>4
  <2>4. ASSUME NEW task \in DOMAIN added, pc = "idle", DueTick(task) <= ticks
        PROVE  \E i \in DOMAIN fired : fired[i].task = task
    <3>1. Remaining = {} /\ Len(mEntries3) = 0
      BY <2>1, <2>4 DEF Typed, Remaining, Done
    <3>2. ASSUME NEW b \in Bucket, NEW k \in 1 .. Len(mEntries[b])
          PROVE  mEntries[b][k].mTask # task
      <4>1. DueOf[mEntries[b][k].mTask] =
               ticks + NextRun[b] + Rounds(mEntries[b][k].mCount)
        BY <1>1, <3>2 DEF WheelInv, OnTime
      <4>2. Rounds(mEntries[b][k].mCount) \in Nat
        BY <2>1, <3>2, Elements
      <4>3. NextRun[b] = Distance(mActiveIndex, b) + 1
        BY <2>4 DEF NextRun
      <4>4. Distance(mActiveIndex, b) \in Nat
        <5>1. mActiveIndex \in Bucket
          BY <2>1 DEF Typed, TypeOK
        <5> QED
          BY <5>1, Constants DEF Distance
      <4>5. DueOf[task] = DueTick(task)
        BY <2>1, DueOfTask
      <4> QED
        BY <2>1, <2>4, <4>1, <4>2, <4>3, <4>4, <4>5
    <3> QED
      BY <1>1, <2>1, <3>1, <3>2 DEF WheelInv, NoneLost, Kept
  <2> QED
    BY <2>2, <2>3, <2>4 DEF RunsOnceOnItsTick
<1> QED
  BY <1>1, WheelInvariant, PTL
=============================================================================
