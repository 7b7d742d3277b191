------------------------ MODULE ParallelMemcpyProofs ------------------------
(* The barriers of ParallelMemcpy, proved for any number of threads.        *)
EXTENDS ParallelMemcpy, FiniteSetTheorems, TLAPS

At(label) == {t \in Threads : thread[t] = label}

(***************************************************************************)
(* The inductive invariant.                                                *)
(***************************************************************************)

\* Up to the signal control_flag counts the threads that spin, and they are
\* among those that this call has launched.
Gathering ==
    main \in {"launch", "gather", "signal"} =>
        /\ control_flag = Cardinality(At("spin"))
        /\ \A t \in 1 .. launched : thread[t] \in {"start", "spin"}
        /\ \A t \in Threads : t > launched => thread[t] \in {"none", "done"}

AllGathered ==
    /\ main \in {"gather", "signal"} => launched = num_threads
    /\ main = "signal" => \A t \in 1 .. num_threads : thread[t] = "spin"

\* After it control_flag counts the threads that are done.
Finishing ==
    main = "wait" =>
        /\ control_flag = Cardinality(At("done"))
        /\ \A t \in 1 .. num_threads :
             thread[t] \in {"spin", "copy", "finish", "done"}

\* Between two calls no thread is left.
NobodyLeft ==
    /\ main \in {"reset", "returned"} =>
           \A t \in Threads : thread[t] \in {"none", "done"}
    /\ \A t \in Threads : t > num_threads => thread[t] = "none"

Inv == TypeOK /\ Gathering /\ AllGathered /\ Finishing /\ NobodyLeft

(***************************************************************************)
(* Counting.                                                               *)
(***************************************************************************)

LEMMA AtFinite ==
    ASSUME NEW label
    PROVE  IsFiniteSet(At(label)) /\ Cardinality(At(label)) \in Nat
<1>1. IsFiniteSet(Threads)
  BY FS_Interval, ParallelMemcpyAssumption DEF Threads
<1>2. At(label) \subseteq Threads
  BY DEF At
<1> QED
  BY <1>1, <1>2, FS_Subset, FS_CardinalityType

\* A thread that reaches a label raises the count by one.
LEMMA OneMore ==
    ASSUME TypeOK, NEW label, NEW t \in Threads, thread[t] # label,
           thread' = [thread EXCEPT ![t] = label]
    PROVE  Cardinality(At(label)') = Cardinality(At(label)) + 1
<1>1. At(label)' = At(label) \cup {t} /\ t \notin At(label)
  BY DEF At, TypeOK
<1> QED
  BY <1>1, AtFinite, FS_AddElement

\* A step to another label that comes from another one leaves it alone.
LEMMA SameCount ==
    ASSUME TypeOK, NEW label, NEW other, NEW t \in Threads,
           thread[t] # label, other # label,
           thread' = [thread EXCEPT ![t] = other]
    PROVE  At(label)' = At(label)
BY DEF At, TypeOK

\* When the count reaches n, and only the first n threads are counted, they
\* all are; and when one of them is counted the count is not 0.
LEMMA AllCounted ==
    ASSUME NEW label, NEW n \in Threads, At(label) \subseteq 1 .. n,
           Cardinality(At(label)) = n
    PROVE  \A t \in 1 .. n : thread[t] = label
<1>1. IsFiniteSet(1 .. n) /\ Cardinality(1 .. n) = n
  BY FS_Interval, ParallelMemcpyAssumption DEF Threads
<1>2. At(label) = 1 .. n
  BY <1>1, FS_Subset
<1> QED
  BY <1>2 DEF At

LEMMA SomeCounted ==
    ASSUME NEW label, NEW t \in Threads, thread[t] = label
    PROVE  Cardinality(At(label)) > 0
<1>1. t \in At(label)
  BY DEF At
<1>2. Cardinality(At(label)) # 0
  BY <1>1, AtFinite, FS_EmptySet
<1> QED
  BY <1>2, AtFinite

(***************************************************************************)
(* The steps keep the invariant.                                           *)
(***************************************************************************)

LEMMA InvInit == Init => Inv
BY ParallelMemcpyAssumption
DEF Init, Inv, TypeOK, Threads, Gathering, AllGathered, Finishing, NobodyLeft

\* Every step of run() keeps the invariant.
LEMMA MainStep == Inv /\ Main => Inv'
<1> SUFFICES ASSUME Inv, Main
             PROVE  Inv'
  OBVIOUS
<1> USE ParallelMemcpyAssumption
        DEF Inv, TypeOK, Threads, Gathering, AllGathered, Finishing, NobodyLeft
<1>1. CASE Reset
  <2>1. At("spin")' = {}
    BY <1>1 DEF Reset, At
  <2>2. Cardinality(At("spin")') = 0
    BY <2>1, FS_EmptySet
  <2> QED
    BY <1>1, <2>2 DEF Reset
<1>2. CASE Launch
  <2>1. /\ launched + 1 \in Threads
        /\ thread[launched + 1] \in {"none", "done"}
        /\ thread' = [thread EXCEPT ![launched + 1] = "start"]
        /\ launched' = launched + 1
        /\ UNCHANGED <<control_flag, num_threads, main>>
    BY <1>2 DEF Launch
  <2>2. At("spin")' = At("spin")
    BY <2>1, SameCount
  <2> QED
    BY <1>2, <2>1, <2>2 DEF Launch
<1>3. CASE AllLaunched
  <2>1. At("spin")' = At("spin")
    BY <1>3 DEF AllLaunched, At
  <2> QED
    BY <1>3, <2>1 DEF AllLaunched
<1>4. CASE SeeAllStarted
  <2>1. At("spin")' = At("spin")
    BY <1>4 DEF SeeAllStarted, At
  <2>2. At("spin") \subseteq 1 .. num_threads
    BY <1>4 DEF SeeAllStarted, At
  <2>3. \A t \in 1 .. num_threads : thread[t] = "spin"
    BY <1>4, <2>2, AllCounted DEF SeeAllStarted
  <2> QED
    BY <1>4, <2>1, <2>3 DEF SeeAllStarted
<1>5. CASE SignalStart
  <2>1. At("done")' = {}
    BY <1>5 DEF SignalStart, At
  <2>2. Cardinality(At("done")') = 0
    BY <2>1, FS_EmptySet
  <2> QED
    BY <1>5, <2>2 DEF SignalStart
<1>6. CASE SeeAllFinished
  <2>1. \A t \in Threads : thread[t] = "done" => t \in 1 .. num_threads
    OBVIOUS
  <2>2. At("done") \subseteq 1 .. num_threads
    BY <2>1, Zenon DEF At
  <2>3. \A t \in 1 .. num_threads : thread[t] = "done"
    BY <1>6, <2>2, AllCounted DEF SeeAllFinished
  <2> QED
    BY <1>6, <2>3 DEF SeeAllFinished
<1> QED
  BY <1>1, <1>2, <1>3, <1>4, <1>5, <1>6 DEF Main

\* Every step of a thread keeps the invariant.
LEMMA ThreadStep ==
    ASSUME Inv, NEW t \in Threads, StartThread(t)
    PROVE  Inv'
<1> USE ParallelMemcpyAssumption
        DEF Inv, TypeOK, Threads, Gathering, AllGathered, Finishing, NobodyLeft
<1>1. CASE Started(t)
  <2>1. main \in {"launch", "gather"} /\ t \in 1 .. launched
    BY <1>1 DEF Started
  <2>2. /\ thread' = [thread EXCEPT ![t] = "spin"]
        /\ Cardinality(At("spin")') = Cardinality(At("spin")) + 1
    BY <1>1, OneMore DEF Started
  <2> QED
    BY <1>1, <2>1, <2>2 DEF Started
<1>2. CASE SeeSignal(t)
  <2>1. main = "wait"
    BY <1>2, SomeCounted DEF SeeSignal
  <2>2. thread' = [thread EXCEPT ![t] = "copy"] /\ At("done")' = At("done")
    BY <1>2, SameCount DEF SeeSignal
  <2> QED
    BY <1>2, <2>1, <2>2 DEF SeeSignal
<1>3. CASE Copy(t)
  <2>1. main = "wait"
    BY <1>3 DEF Copy
  <2>2. thread' = [thread EXCEPT ![t] = "finish"] /\ At("done")' = At("done")
    BY <1>3, SameCount DEF Copy
  <2> QED
    BY <1>3, <2>1, <2>2 DEF Copy
<1>4. CASE Finished(t)
  <2>1. main = "wait"
    BY <1>4 DEF Finished
  <2>2. /\ thread' = [thread EXCEPT ![t] = "done"]
        /\ Cardinality(At("done")') = Cardinality(At("done")) + 1
    BY <1>4, OneMore DEF Finished
  <2> QED
    BY <1>4, <2>1, <2>2 DEF Finished
<1> QED
  BY <1>1, <1>2, <1>3, <1>4 DEF StartThread

LEMMA Invariant == SafeSpec => []Inv
<1>1. Inv /\ UNCHANGED vars => Inv'
  BY DEF Inv, TypeOK, Gathering, AllGathered, Finishing, NobodyLeft, At, vars
<1>2. Inv /\ [Next]_vars => Inv'
  BY <1>1, MainStep, ThreadStep DEF Next
<1> QED
  BY InvInit, <1>2, PTL DEF SafeSpec

(***************************************************************************)
(* The theorems.                                                           *)
(***************************************************************************)

\* Every variable always has its type.
THEOREM TypeCorrect == SafeSpec => []TypeOK
<1>1. Inv => TypeOK
  BY DEF Inv
<1> QED
  BY Invariant, <1>1, PTL

\* Nobody copies before all threads of the call have started, and run() is
\* left only when all of them have finished, for any number of threads.
THEOREM BarriersHold == SafeSpec => []BarrierHolds
<1>1. ASSUME Inv
      PROVE  BarrierHolds
  <2>1. ASSUME NEW t \in Threads, thread[t] \in {"copy", "finish"}
        PROVE  main = "wait"
    BY <1>1, <2>1
    DEF Inv, TypeOK, Threads, Gathering, AllGathered, NobodyLeft
  <2> QED
    BY <1>1, <2>1 DEF Inv, BarrierHolds, Finishing, NobodyLeft
<1> QED
  BY Invariant, <1>1, PTL

\* A thread that has been overtaken is lost: run() waits for it, so that the
\* counter it spins on is never 0 again.
THEOREM OvertakenStaySo == SafeSpec => OvertakenForGood
<1>1. ASSUME Inv, [Next]_vars, NEW t \in Overtaken
      PROVE  t \in Overtaken'
  <2> USE ParallelMemcpyAssumption
  <2>0. /\ t \in Threads /\ main = "wait" /\ thread[t] = "spin"
        /\ control_flag > 0 /\ control_flag \in Nat
        /\ thread \in [Threads -> {"none", "start", "spin", "copy", "finish",
                                   "done"}]
    BY <1>1 DEF Overtaken, Inv, TypeOK
  <2>1. CASE Main
    <3>1. SeeAllFinished
      BY <2>0, <2>1 DEF Main, Reset, Launch, AllLaunched, SeeAllStarted,
                        SignalStart
    <3>2. At("done") \subseteq 1 .. num_threads /\ t \in 1 .. num_threads
      BY <1>1, <2>0 DEF Inv, TypeOK, Threads, NobodyLeft, At
    <3>3. \A u \in 1 .. num_threads : thread[u] = "done"
      BY <1>1, <2>0, <3>1, <3>2, AllCounted
      DEF SeeAllFinished, Inv, TypeOK, Finishing
    <3> QED
      BY <2>0, <3>2, <3>3
  <2>2. ASSUME NEW u \in Threads, StartThread(u)
        PROVE  t \in Overtaken'
    <3>1. /\ ~SeeSignal(u)
          /\ main' = "wait" /\ control_flag' > 0
      BY <2>0, <2>2 DEF StartThread, Started, SeeSignal, Copy, Finished
    <3>2. thread'[t] = "spin"
      BY <2>0, <2>2, <3>1 DEF StartThread, Started, Copy, Finished
    <3> QED
      BY <2>0, <3>1, <3>2 DEF Overtaken
  <2>3. CASE UNCHANGED vars
    BY <2>0, <2>3 DEF vars, Overtaken
  <2> QED
    BY <1>1, <2>1, <2>2, <2>3 DEF Next
<1>2. Inv /\ [Next]_vars => Overtaken \subseteq Overtaken'
  BY <1>1
<1> QED
  BY Invariant, <1>2, PTL DEF SafeSpec, OvertakenForGood
=============================================================================
