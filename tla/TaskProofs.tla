----------------------------- MODULE TaskProofs -----------------------------
(* What the three programs that hand tasks to other threads promise:         *)
(* TaskScheduler, proved for any set of tasks, any of them scheduled and any *)
(* of them throwing; Actor, proved for any set of tasks; and Dispatcher,     *)
(* proved for any numbers of clients and workers.                            *)
EXTENDS MCTasks, SequenceTheorems, TLAPS

Answered == {"set", "broken"}

(***************************************************************************)
(* The inductive invariant.                                                *)
(***************************************************************************)

\* A task has a future when it has been dispatched; until then its thread, if
\* it is a scheduled one, is on its way to dispatch().
FutureIfDispatched ==
    /\ \A i \in 1 .. Len(dispatched) : future[dispatched[i]] # "none"
    /\ \A t \in Tasks \ Scheduled : timer[t] = "none"
    /\ \A t \in Scheduled :
         timer[t] \in {"none", "clock", "asleep", "dispatch"} =>
             future[t] = "none"
    /\ owner = "using" => future[Quit] = "none"

\* The destructor gets past wait() only when the worker has run its task.
QuitMeansLeft ==
    /\ lifetime <=> owner \notin {"queue", "destroyed"}
    /\ future[Quit] \in Answered => worker = "left"
    /\ owner \in {"lifetime", "queue", "destroyed"} => worker = "left"

\* The task in hand is the last one of ran, and the last one of all is Quit.
LastRun ==
    /\ worker = "run" => ran # << >> /\ current = ran[Len(ran)]
    /\ worker = "left" => ran # << >> /\ ran[Len(ran)] = Quit

\* Whatever has run, and is not the task in hand, has been answered.
RunMeansAnswered ==
    \A i \in 1 .. Len(ran) :
        future[ran[i]] \in Answered \/ (worker = "run" /\ i = Len(ran))

\* Nothing runs that was not dispatched, not even on a destroyed scheduler.
NoMoreThanDispatched == Len(ran) <= Len(dispatched)

Inv == /\ TypeOK /\ FutureIfDispatched /\ QuitMeansLeft /\ LastRun
       /\ RunMeansAnswered /\ NoMoreThanDispatched /\ RunInDispatchOrder

(***************************************************************************)
(* Sequences.                                                              *)
(***************************************************************************)

\* Dispatching appends to the whole.
LEMMA AppendBehind ==
    ASSUME NEW a \in Seq(AllTasks), NEW b \in Seq(AllTasks), NEW t \in AllTasks
    PROVE  Append(a \o b, t) = a \o Append(b, t)
<1>1. a \o b \in Seq(AllTasks) /\ << t >> \in Seq(AllTasks)
  BY ConcatProperties
<1>2. Append(a \o b, t) = (a \o b) \o << t >> /\ Append(b, t) = b \o << t >>
  BY <1>1, AppendIsConcat
<1> QED
  BY <1>1, <1>2, ConcatAssociative

\* Running the head of the queue does not change the whole.
LEMMA MoveHead ==
    ASSUME NEW S, NEW a \in Seq(S), NEW q \in Seq(S), q # << >>
    PROVE  a \o q = Append(a, Head(q)) \o Tail(q)
<1>1. Len(q) \in Nat \ {0} /\ Len(q) \in 1 .. Len(q) /\ 1 \in 1 .. Len(q)
  BY EmptySeq
<1>2. /\ Head(q) = q[1] /\ Tail(q) = SubSeq(q, 2, Len(q))
      /\ Head(q) \in S /\ Tail(q) \in Seq(S)
  BY HeadTailProperties, TailIsSubSeq
<1>3. << Head(q) >> \o Tail(q) = q
  BY <1>1, <1>2, SubSeqRecursiveFirst, SubSeqFull
<1>4. Append(a, Head(q)) = a \o << Head(q) >> /\ << Head(q) >> \in Seq(S)
  BY <1>2, AppendIsConcat
<1> QED
  BY <1>2, <1>3, <1>4, ConcatAssociative

\* A prefix of a concatenation.
LEMMA PrefixOfConcat ==
    ASSUME NEW S, NEW a \in Seq(S), NEW b \in Seq(S)
    PROVE  a = SubSeq(a \o b, 1, Len(a))
<1>1. Len(a) \in Nat
  BY LenProperties
<1>2. CASE Len(a) = 0
  <2>1. a = << >>
    BY <1>1, <1>2, EmptySeq
  <2> QED
    BY <1>2, <2>1, SubSeqEmpty
<1>3. CASE Len(a) # 0
  <2>1. 1 \in 1 .. Len(a) /\ Len(a) \in 1 .. Len(a)
    BY <1>1, <1>3
  <2> QED
    BY <2>1, SubSeqOfConcat1, SubSeqFull
<1> QED
  BY <1>2, <1>3

\* What has run is the beginning of what was dispatched, and the queue has
\* nothing but what was dispatched.
LEMMA RanIsPrefix ==
    ASSUME TypeOK, RunInDispatchOrder
    PROVE  /\ Len(ran) \in Nat /\ Len(dispatched) \in Nat
           /\ owner # "destroyed" =>
                /\ Len(ran) <= Len(dispatched)
                /\ \A i \in 1 .. Len(ran) : ran[i] = dispatched[i]
                /\ \A i \in 1 .. Len(concurrent_queue) :
                     /\ Len(ran) + i \in 1 .. Len(dispatched)
                     /\ concurrent_queue[i] = dispatched[Len(ran) + i]
<1>1. Len(ran) \in Nat /\ Len(dispatched) \in Nat /\ Len(concurrent_queue) \in Nat
  BY LenProperties DEF TypeOK
<1>2. ASSUME owner # "destroyed"
      PROVE  /\ Len(ran) <= Len(dispatched)
             /\ \A i \in 1 .. Len(ran) : ran[i] = dispatched[i]
             /\ \A i \in 1 .. Len(concurrent_queue) :
                  /\ Len(ran) + i \in 1 .. Len(dispatched)
                  /\ concurrent_queue[i] = dispatched[Len(ran) + i]
  <2>1. /\ dispatched = ran \o concurrent_queue
        /\ ran \in Seq(AllTasks) /\ concurrent_queue \in Seq(AllTasks)
    BY <1>2 DEF RunInDispatchOrder, TypeOK
  <2>2. /\ Len(dispatched) = Len(ran) + Len(concurrent_queue)
        /\ \A i \in 1 .. Len(ran) + Len(concurrent_queue) :
             dispatched[i] = IF i <= Len(ran) THEN ran[i]
                                              ELSE concurrent_queue[i - Len(ran)]
    BY <2>1, ConcatProperties
  <2>3. ASSUME NEW i \in 1 .. Len(concurrent_queue)
        PROVE  /\ Len(ran) + i \in 1 .. Len(dispatched)
               /\ concurrent_queue[i] = dispatched[Len(ran) + i]
    <3>1. Len(ran) + i \in 1 .. Len(dispatched) /\ ~(Len(ran) + i <= Len(ran))
          /\ (Len(ran) + i) - Len(ran) = i
      BY <1>1, <2>2
    <3> QED
      BY <1>1, <2>2, <3>1
  <2> QED
    BY <1>1, <2>2, <2>3
<1> QED
  BY <1>1, <1>2

\* The same in any state, for what has run.
LEMMA RanAgrees ==
    ASSUME TypeOK, RunInDispatchOrder, NoMoreThanDispatched
    PROVE  \A i \in 1 .. Len(ran) :
             i \in 1 .. Len(dispatched) /\ ran[i] = dispatched[i]
<1>1. Len(ran) \in Nat /\ Len(dispatched) \in Nat
  BY LenProperties DEF TypeOK
<1>2. ASSUME owner = "destroyed", NEW i \in 1 .. Len(ran)
      PROVE  ran[i] = dispatched[i]
  <2>1. ran = SubSeq(dispatched, 1, Len(ran))
    BY <1>2 DEF RunInDispatchOrder
  <2>2. SubSeq(dispatched, 1, Len(ran))[i] = dispatched[i]
    BY <1>1, <1>2, SubSeqProperties DEF TypeOK, NoMoreThanDispatched
  <2> QED
    BY <2>1, <2>2
<1> QED
  BY <1>1, <1>2, RanIsPrefix DEF NoMoreThanDispatched

(***************************************************************************)
(* Types.                                                                  *)
(***************************************************************************)

\* Every variable starts in its type, and the rest of the invariant holds.
LEMMA InvInit == Init => Inv
<1> SUFFICES ASSUME Init
             PROVE  Inv
  OBVIOUS
<1>1. /\ << >> \in Seq(AllTasks) /\ Len(<< >>) = 0
      /\ << >> = << >> \o << >> /\ DOMAIN << >> = {}
  BY EmptySeq
<1>2. Quit \in AllTasks
  BY DEF AllTasks
<1>3. TypeOK
  BY <1>1, <1>2 DEF Init, TypeOK
<1>4. FutureIfDispatched /\ QuitMeansLeft /\ LastRun
  BY <1>1, <1>2, TaskSchedulerAssumption
  DEF Init, FutureIfDispatched, QuitMeansLeft, LastRun, Answered, AllTasks
<1>5. RunMeansAnswered /\ NoMoreThanDispatched
  BY <1>1 DEF Init, RunMeansAnswered, NoMoreThanDispatched
<1>6. RunInDispatchOrder
  BY <1>1 DEF Init, RunInDispatchOrder
<1> QED
  BY <1>3, <1>4, <1>5, <1>6 DEF Inv

\* No step takes a variable out of its type.
LEMMA TypeStep == TypeOK /\ [Next]_vars => TypeOK'
<1> USE DEF TypeOK
<1> SUFFICES ASSUME TypeOK, [Next]_vars
             PROVE  TypeOK'
  OBVIOUS
<1>0. Quit \in AllTasks /\ \A t \in Tasks : t \in AllTasks
  BY DEF AllTasks
<1>e. ASSUME NEW t \in AllTasks, Enqueue(t)
      PROVE  /\ concurrent_queue' \in Seq(AllTasks)
             /\ dispatched' \in Seq(AllTasks)
             /\ future' \in [AllTasks -> {"none", "pending", "set", "broken"}]
  BY <1>e, AppendProperties DEF Enqueue
<1>1. ASSUME NEW t \in Tasks, Dispatch(t)
      PROVE  TypeOK'
  BY <1>0, <1>1, <1>e DEF Dispatch, threads, timers
<1>2. ASSUME NEW t \in Tasks,
             Schedule(t) \/ BecomeDue(t) \/ CheckClock(t) \/ WakeUp(t)
      PROVE  TypeOK'
  <2>1. CASE Schedule(t)
    BY <2>1 DEF Schedule, threads
  <2>2. CASE BecomeDue(t)
    BY <2>2 DEF BecomeDue, threads
  <2>3. CASE CheckClock(t)
    BY <2>3 DEF CheckClock, threads
  <2>4. CASE WakeUp(t)
    BY <2>4 DEF WakeUp, threads
  <2> QED
    BY <1>2, <2>1, <2>2, <2>3, <2>4
<1>3. ASSUME NEW t \in Tasks, DispatchScheduled(t)
      PROVE  TypeOK'
  <2>1. timer' \in [Tasks -> {"none", "clock", "asleep", "dispatch",
                              "cancelled", "over"}]
        /\ misused' \subseteq Tasks
    BY <1>3 DEF DispatchScheduled
  <2> QED
    BY <1>0, <1>3, <1>e, <2>1 DEF DispatchScheduled, threads
<1>4. CASE CheckLifetime
  BY <1>4 DEF CheckLifetime, timers
<1>5. CASE Pop
  <2>1. /\ Head(concurrent_queue) \in AllTasks
        /\ Tail(concurrent_queue) \in Seq(AllTasks)
    BY <1>5, HeadTailProperties DEF Pop
  <2>2. Append(ran, Head(concurrent_queue)) \in Seq(AllTasks)
    BY <2>1, AppendProperties
  <2> QED
    BY <1>5, <2>1, <2>2 DEF Pop, timers
<1>6. CASE RunTask
  BY <1>6 DEF RunTask, timers
<1>7. CASE DispatchQuit
  BY <1>0, <1>7, <1>e DEF DispatchQuit, threads, timers
<1>8. CASE QuitDone \/ DestroyLifetime
  BY <1>8 DEF QuitDone, DestroyLifetime, threads, timers
<1>9. CASE DestroyQueue
  <2>1. future' \in [AllTasks -> {"none", "pending", "set", "broken"}]
    BY <1>9 DEF DestroyQueue
  <2> QED
    BY <1>9, <2>1, EmptySeq DEF DestroyQueue, threads, timers
<1>10. CASE Over \/ UNCHANGED vars
  BY <1>10 DEF Over, vars
<1> QED
  BY <1>1, <1>2, <1>3, <1>4, <1>5, <1>6, <1>7, <1>8, <1>9, <1>10
  DEF Next, TimerThread, Worker, Destructor

(***************************************************************************)
(* The steps, as far as the queue, what has run and the futures go: one    *)
(* task more is dispatched, the worker pops or finishes one, the queue is  *)
(* destroyed, or none of them.                                             *)
(***************************************************************************)

Dispatches(t) ==
    /\ future[t] = "none" /\ Enqueue(t)
    /\ owner # "destroyed" /\ owner' # "destroyed"
    /\ UNCHANGED <<worker, current, ran>>

Aside ==
    /\ UNCHANGED <<concurrent_queue, dispatched, ran, future>>
    /\ owner' = "destroyed" <=> owner = "destroyed"
    /\ worker' = "run" <=> worker = "run"
    /\ worker = "run" => current' = current
    /\ worker' = "left" <=> worker = "left"

\* Every step is of one of these kinds.
LEMMA StepEffects ==
    ASSUME TypeOK, FutureIfDispatched, QuitMeansLeft, [Next]_vars
    PROVE  \/ \E t \in AllTasks : Dispatches(t)
           \/ Pop \/ RunTask \/ DestroyQueue
           \/ Aside
<1>0. Quit \in AllTasks /\ \A t \in Tasks : t \in AllTasks
  BY DEF AllTasks
<1>1. ASSUME NEW t \in Tasks, Dispatch(t)
      PROVE  Dispatches(t)
  BY <1>1 DEF Dispatch, Dispatches, threads
<1>2. ASSUME NEW t \in Tasks,
             Schedule(t) \/ BecomeDue(t) \/ CheckClock(t) \/ WakeUp(t)
      PROVE  Aside
  BY <1>2 DEF Schedule, BecomeDue, CheckClock, WakeUp, Aside, threads
<1>3. ASSUME NEW t \in Tasks, DispatchScheduled(t)
      PROVE  Dispatches(t) \/ Aside
  <2>1. t \in Scheduled /\ future[t] = "none"
    BY <1>3 DEF DispatchScheduled, FutureIfDispatched
  <2> QED
    BY <1>3, <2>1 DEF DispatchScheduled, Dispatches, Aside, threads
<1>4. CASE CheckLifetime
  BY <1>4 DEF CheckLifetime, Aside, QuitMeansLeft
<1>5. CASE DispatchQuit
  <2>1. Dispatches(Quit)
    BY <1>5 DEF DispatchQuit, Dispatches, FutureIfDispatched, threads
  <2> QED
    BY <1>0, <2>1
<1>6. CASE QuitDone \/ DestroyLifetime \/ Over \/ UNCHANGED vars
  BY <1>6 DEF QuitDone, DestroyLifetime, Over, vars, Aside, threads
<1> QED
  BY <1>0, <1>1, <1>2, <1>3, <1>4, <1>5, <1>6
  DEF Next, TimerThread, Worker, Destructor

(***************************************************************************)
(* The steps keep the invariant.                                           *)
(***************************************************************************)

\* What a step leaves without a future had none before.
LEMMA FutureStep == Inv /\ TypeOK' /\ [Next]_vars => FutureIfDispatched'
<1> SUFFICES ASSUME Inv, TypeOK', [Next]_vars
             PROVE  FutureIfDispatched'
  OBVIOUS
<1> USE DEF Inv, TypeOK, FutureIfDispatched
<1>0. /\ Quit \in AllTasks /\ Quit \notin Tasks
      /\ \A t \in Tasks : t \in AllTasks
      /\ Scheduled \subseteq Tasks
      /\ Len(dispatched) \in Nat
  BY TaskSchedulerAssumption, LenProperties DEF AllTasks
<1>i. \A i \in 1 .. Len(dispatched) : dispatched[i] \in AllTasks
  BY ElementOfSeq
<1>e. ASSUME NEW t \in AllTasks, Enqueue(t)
      PROVE  /\ \A i \in 1 .. Len(dispatched') : future'[dispatched'[i]] # "none"
             /\ \A s \in AllTasks : s # t => future'[s] = future[s]
  <2>1. /\ Len(dispatched') = Len(dispatched) + 1
        /\ dispatched'[Len(dispatched) + 1] = t
        /\ \A i \in 1 .. Len(dispatched) : dispatched'[i] = dispatched[i]
    BY <1>e, AppendProperties DEF Enqueue
  <2>2. future' = [future EXCEPT ![t] = "pending"]
    BY <1>e DEF Enqueue
  <2>3. ASSUME NEW i \in 1 .. Len(dispatched')
        PROVE  future'[dispatched'[i]] # "none"
    <3>1. CASE i = Len(dispatched) + 1
      BY <2>1, <2>2, <3>1
    <3>2. CASE i # Len(dispatched) + 1
      <4>1. i \in 1 .. Len(dispatched)
        BY <1>0, <2>1, <3>2
      <4> QED
        BY <1>i, <2>1, <2>2, <4>1
    <3> QED
      BY <3>1, <3>2
  <2> QED
    BY <2>2, <2>3
<1>1. ASSUME NEW t \in Tasks, Dispatch(t)
      PROVE  FutureIfDispatched'
  BY <1>0, <1>1, <1>e DEF Dispatch, timers
<1>2. ASSUME NEW t \in Tasks,
             Schedule(t) \/ BecomeDue(t) \/ CheckClock(t) \/ WakeUp(t)
      PROVE  FutureIfDispatched'
  <2>1. CASE Schedule(t)
    BY <1>0, <2>1 DEF Schedule, threads
  <2>2. CASE BecomeDue(t)
    BY <1>0, <2>2 DEF BecomeDue, threads
  <2>3. CASE CheckClock(t)
    BY <1>0, <2>3 DEF CheckClock, threads
  <2>4. CASE WakeUp(t)
    BY <1>0, <2>4 DEF WakeUp, threads
  <2> QED
    BY <1>2, <2>1, <2>2, <2>3, <2>4
<1>3. ASSUME NEW t \in Tasks, DispatchScheduled(t)
      PROVE  FutureIfDispatched'
  <2>1. timer' = [timer EXCEPT ![t] = "over"] /\ owner' = owner
        /\ timer[t] = "dispatch" /\ t \in Scheduled
    BY <1>3 DEF DispatchScheduled
  <2>2. CASE owner = "destroyed"
    BY <1>0, <1>3, <2>1, <2>2 DEF DispatchScheduled
  <2>3. CASE owner # "destroyed"
    <3>1. Enqueue(t) /\ t # Quit
      BY <1>0, <1>3, <2>3 DEF DispatchScheduled
    <3> QED
      BY <1>0, <1>e, <2>1, <2>3, <3>1
  <2> QED
    BY <2>2, <2>3
<1>4. CASE CheckLifetime
  BY <1>4 DEF CheckLifetime, timers
<1>5. CASE Pop
  BY <1>5 DEF Pop, timers
<1>6. CASE RunTask
  <2>1. current \in AllTasks /\ future[current] # "none"
    <3>1. ran # << >> /\ current = ran[Len(ran)] /\ Len(ran) \in 1 .. Len(ran)
      BY <1>6, EmptySeq, LenProperties DEF RunTask, LastRun
    <3>2. Len(ran) \in 1 .. Len(dispatched) /\ current = dispatched[Len(ran)]
      BY <3>1, RanAgrees
    <3> QED
      BY <3>2
  <2>2. \A t \in AllTasks : future'[t] = "none" <=> future[t] = "none"
    BY <1>6, <2>1 DEF RunTask
  <2> QED
    BY <1>0, <1>6, <1>i, <2>2 DEF RunTask, timers
<1>7. CASE DispatchQuit
  BY <1>0, <1>7, <1>e DEF DispatchQuit, timers
<1>8. CASE QuitDone \/ DestroyLifetime
  BY <1>8 DEF QuitDone, DestroyLifetime, timers
<1>9. CASE DestroyQueue
  <2>1. \A i \in 1 .. Len(concurrent_queue) : future[concurrent_queue[i]] # "none"
    BY <1>9, RanIsPrefix DEF DestroyQueue
  <2>2. DOMAIN concurrent_queue = 1 .. Len(concurrent_queue)
    BY LenProperties
  <2>3. \A t \in AllTasks : future'[t] = "none" <=> future[t] = "none"
    BY <1>9, <2>1, <2>2 DEF DestroyQueue
  <2> QED
    BY <1>0, <1>9, <1>i, <2>3 DEF DestroyQueue, timers
<1>10. CASE Over \/ UNCHANGED vars
  BY <1>10 DEF Over, vars
<1> QED
  BY <1>1, <1>2, <1>3, <1>4, <1>5, <1>6, <1>7, <1>8, <1>9, <1>10
  DEF Next, TimerThread, Worker, Destructor

\* Only the worker that leaves answers the destructor's task.
LEMMA QuitStep == Inv /\ [Next]_vars => QuitMeansLeft'
<1> SUFFICES ASSUME Inv, [Next]_vars
             PROVE  QuitMeansLeft'
  OBVIOUS
<1> USE DEF Inv, TypeOK, QuitMeansLeft, Answered
<1>0. /\ Quit \in AllTasks /\ Quit \notin Tasks
      /\ \A t \in Tasks : t \in AllTasks
  BY TaskSchedulerAssumption DEF AllTasks
<1>1. ASSUME NEW t \in AllTasks, Enqueue(t)
      PROVE  future'[Quit] \in Answered => future[Quit] \in Answered
  BY <1>0, <1>1 DEF Enqueue
<1>2. ASSUME NEW t \in Tasks, Dispatch(t)
      PROVE  QuitMeansLeft'
  BY <1>0, <1>1, <1>2 DEF Dispatch, threads
<1>3. ASSUME NEW t \in Tasks,
             Schedule(t) \/ BecomeDue(t) \/ CheckClock(t) \/ WakeUp(t)
      PROVE  QuitMeansLeft'
  BY <1>3 DEF Schedule, BecomeDue, CheckClock, WakeUp, threads
<1>4. ASSUME NEW t \in Tasks, DispatchScheduled(t)
      PROVE  QuitMeansLeft'
  BY <1>0, <1>1, <1>4 DEF DispatchScheduled, threads
<1>5. CASE CheckLifetime
  BY <1>5 DEF CheckLifetime
<1>6. CASE Pop
  BY <1>6 DEF Pop
<1>7. CASE RunTask
  BY <1>0, <1>7 DEF RunTask
<1>8. CASE DispatchQuit
  BY <1>0, <1>1, <1>8 DEF DispatchQuit, threads
<1>9. CASE QuitDone \/ DestroyLifetime
  BY <1>9 DEF QuitDone, DestroyLifetime, threads
<1>10. CASE DestroyQueue
  BY <1>0, <1>10 DEF DestroyQueue, threads
<1>11. CASE Over \/ UNCHANGED vars
  BY <1>11 DEF Over, vars
<1> QED
  BY <1>2, <1>3, <1>4, <1>5, <1>6, <1>7, <1>8, <1>9, <1>10, <1>11
  DEF Next, TimerThread, Worker, Destructor

\* A task is dispatched behind the others, and for the first time.
LEMMA DispatchStep ==
    ASSUME Inv, NEW t \in AllTasks, Dispatches(t)
    PROVE  /\ Len(dispatched') = Len(dispatched) + 1
           /\ dispatched'[Len(dispatched) + 1] = t
           /\ \A i \in 1 .. Len(dispatched) :
                dispatched'[i] = dispatched[i] /\ dispatched[i] # t
<1>1. /\ Len(dispatched') = Len(dispatched) + 1
      /\ dispatched'[Len(dispatched) + 1] = t
      /\ \A i \in 1 .. Len(dispatched) : dispatched'[i] = dispatched[i]
  BY AppendProperties DEF Dispatches, Enqueue, Inv, TypeOK
<1>2. \A i \in 1 .. Len(dispatched) : dispatched[i] # t
  BY DEF Dispatches, Inv, FutureIfDispatched
<1> QED
  BY <1>1, <1>2

\* What runs next is the next of those dispatched.
LEMMA PopStep ==
    ASSUME Inv, Pop
    PROVE  /\ owner # "destroyed"
           /\ Len(ran) \in Nat /\ Len(ran') = Len(ran) + 1
           /\ ran'[Len(ran) + 1] = current'
           /\ \A i \in 1 .. Len(ran) : ran'[i] = ran[i]
           /\ Len(ran) + 1 <= Len(dispatched)
<1>1. owner # "destroyed" /\ concurrent_queue # << >>
  BY DEF Inv, Pop, QuitMeansLeft
<1>2. /\ Len(concurrent_queue) \in Nat /\ Len(concurrent_queue) # 0
      /\ Head(concurrent_queue) \in AllTasks
  BY <1>1, EmptySeq, LenProperties, HeadTailProperties DEF Inv, TypeOK
<1>3. Len(ran) \in Nat /\ Len(ran) + 1 <= Len(dispatched)
  BY <1>1, <1>2, RanIsPrefix DEF Inv
<1>4. /\ Len(ran') = Len(ran) + 1
      /\ ran'[Len(ran) + 1] = Head(concurrent_queue)
      /\ \A i \in 1 .. Len(ran) : ran'[i] = ran[i]
  BY <1>2, AppendProperties DEF Pop, Inv, TypeOK
<1> QED
  BY <1>1, <1>3, <1>4 DEF Pop

\* The worker keeps hold of what it runs.
LEMMA LastRunStep == Inv /\ [Next]_vars => LastRun'
<1> SUFFICES ASSUME Inv, [Next]_vars
             PROVE  LastRun'
  OBVIOUS
<1> USE DEF Inv, LastRun
<1>1. CASE \E t \in AllTasks : Dispatches(t)
  BY <1>1 DEF Dispatches
<1>2. CASE Pop
  <2>1. ran' # << >> /\ current' = ran'[Len(ran')]
    BY <1>2, PopStep, EmptySeq
  <2> QED
    BY <1>2, <2>1 DEF Pop
<1>3. CASE RunTask
  BY <1>3 DEF RunTask
<1>4. CASE DestroyQueue
  BY <1>4 DEF DestroyQueue, threads
<1>5. CASE Aside
  BY <1>5 DEF Aside
<1> QED
  BY <1>1, <1>2, <1>3, <1>4, <1>5, StepEffects

\* The worker answers what it has run before it pops again.
LEMMA AnswerStep == Inv /\ [Next]_vars => RunMeansAnswered'
<1> SUFFICES ASSUME Inv, [Next]_vars
             PROVE  RunMeansAnswered'
  OBVIOUS
<1> USE DEF Inv, RunMeansAnswered, Answered
<1>0. /\ Len(ran) \in Nat
      /\ \A i \in 1 .. Len(ran) : ran[i] \in AllTasks
  BY LenProperties, ElementOfSeq DEF TypeOK
<1>1. ASSUME NEW t \in AllTasks, Dispatches(t)
      PROVE  RunMeansAnswered'
  <2>1. \A i \in 1 .. Len(ran) : ran[i] # t
    BY <1>1, RanAgrees, DispatchStep
  <2> QED
    BY <1>0, <1>1, <2>1 DEF Dispatches, Enqueue, TypeOK
<1>2. CASE Pop
  <2>1. \A i \in 1 .. Len(ran) : future[ran[i]] \in Answered
    BY <1>2 DEF Pop
  <2>2. worker' = "run" /\ future' = future
    BY <1>2 DEF Pop
  <2>3. ASSUME NEW i \in 1 .. Len(ran'), i # Len(ran')
        PROVE  i \in 1 .. Len(ran) /\ ran'[i] = ran[i]
    BY <1>2, <2>3, PopStep
  <2> QED
    BY <2>1, <2>2, <2>3
<1>3. CASE RunTask
  <2>1. current = ran[Len(ran)]
    BY <1>3 DEF RunTask, LastRun
  <2>2. \A i \in 1 .. Len(ran) : future'[ran[i]] \in Answered
    BY <1>0, <1>3, <2>1 DEF RunTask, TypeOK
  <2> QED
    BY <1>3, <2>2 DEF RunTask
<1>4. CASE DestroyQueue
  <2>1. worker = "left"
    BY <1>4 DEF DestroyQueue, QuitMeansLeft
  <2> QED
    BY <1>0, <1>4, <2>1 DEF DestroyQueue, threads
<1>5. CASE Aside
  BY <1>5 DEF Aside
<1> QED
  BY <1>1, <1>2, <1>3, <1>4, <1>5, StepEffects

\* A task enters the queue at one end, once, and is run from the other.
LEMMA OrderStep ==
    Inv /\ [Next]_vars => NoMoreThanDispatched' /\ RunInDispatchOrder'
<1> SUFFICES ASSUME Inv, [Next]_vars
             PROVE  NoMoreThanDispatched' /\ RunInDispatchOrder'
  OBVIOUS
<1>0. /\ Len(ran) \in Nat /\ Len(dispatched) \in Nat
      /\ DOMAIN dispatched = 1 .. Len(dispatched)
      /\ ran \in Seq(AllTasks) /\ concurrent_queue \in Seq(AllTasks)
  BY LenProperties DEF Inv, TypeOK
<1>i. /\ owner # "destroyed" => dispatched = ran \o concurrent_queue
      /\ Len(ran) <= Len(dispatched)
      /\ \A i, j \in 1 .. Len(dispatched) :
           dispatched[i] = dispatched[j] => i = j
  BY <1>0 DEF Inv, NoMoreThanDispatched, RunInDispatchOrder
<1>1. ASSUME NEW t \in AllTasks, Dispatches(t)
      PROVE  NoMoreThanDispatched' /\ RunInDispatchOrder'
  <2>1. /\ ran' = ran /\ owner # "destroyed" /\ owner' # "destroyed"
        /\ dispatched' = Append(dispatched, t)
        /\ concurrent_queue' = Append(concurrent_queue, t)
    BY <1>1 DEF Dispatches, Enqueue
  <2>2. dispatched' = ran' \o concurrent_queue'
    BY <1>0, <1>i, <2>1, AppendBehind
  <2>3. /\ dispatched' \in Seq(AllTasks)
        /\ Len(dispatched') = Len(dispatched) + 1
        /\ dispatched'[Len(dispatched) + 1] = t
        /\ \A i \in 1 .. Len(dispatched) :
             dispatched'[i] = dispatched[i] /\ dispatched[i] # t
    BY <1>1, <2>1, DispatchStep, AppendProperties DEF Inv, TypeOK
  <2>4. DOMAIN dispatched' = 1 .. Len(dispatched) + 1
    BY <2>3, LenProperties
  <2>5. ASSUME NEW i \in 1 .. Len(dispatched) + 1,
               NEW j \in 1 .. Len(dispatched) + 1,
               dispatched'[i] = dispatched'[j]
        PROVE  i = j
    <3> DEFINE n == Len(dispatched)
    <3>1. i \in 1 .. n \/ i = n + 1
      BY <1>0
    <3>2. j \in 1 .. n \/ j = n + 1
      BY <1>0
    <3> QED
      BY <1>i, <2>3, <2>5, <3>1, <3>2, Zenon
  <2>6. Len(ran') <= Len(dispatched')
    BY <1>0, <1>i, <2>1, <2>3
  <2> QED
    BY <2>1, <2>2, <2>4, <2>5, <2>6, Zenon
    DEF NoMoreThanDispatched, RunInDispatchOrder
<1>2. CASE Pop
  <2>1. ran' \o concurrent_queue' = ran \o concurrent_queue
    BY <1>0, <1>2, MoveHead DEF Pop
  <2>2. dispatched' = dispatched /\ owner' = owner /\ owner # "destroyed"
    BY <1>2, PopStep DEF Pop
  <2>3. Len(ran') <= Len(dispatched)
    BY <1>2, PopStep
  <2> QED
    BY <1>0, <1>i, <2>1, <2>2, <2>3
    DEF NoMoreThanDispatched, RunInDispatchOrder
<1>3. CASE RunTask \/ Aside
  BY <1>3 DEF RunTask, Aside, Inv, NoMoreThanDispatched, RunInDispatchOrder
<1>4. CASE DestroyQueue
  <2>1. ran = SubSeq(dispatched, 1, Len(ran))
    BY <1>0, <1>4, <1>i, PrefixOfConcat DEF DestroyQueue
  <2> QED
    BY <1>0, <1>4, <1>i, <2>1
    DEF DestroyQueue, threads, NoMoreThanDispatched, RunInDispatchOrder
<1> QED
  BY <1>1, <1>2, <1>3, <1>4, StepEffects DEF Inv

LEMMA Invariant == SafeSpec => []Inv
<1>1. Inv /\ [Next]_vars => Inv'
  BY TypeStep, FutureStep, QuitStep, LastRunStep, AnswerStep, OrderStep
  DEF Inv
<1> QED
  BY InvInit, <1>1, PTL DEF SafeSpec

(***************************************************************************)
(* The theorems.                                                           *)
(***************************************************************************)

\* Every variable of the scheduler always has its type.
THEOREM TypeCorrect == SafeSpec => []TypeOK
<1>1. Inv => TypeOK
  BY DEF Inv
<1> QED
  BY Invariant, <1>1, PTL

\* Tasks run one by one in the order of dispatch(), none twice.
THEOREM RunsInDispatchOrder == SafeSpec => []RunInDispatchOrder
<1>1. Inv => RunInDispatchOrder
  BY DEF Inv
<1> QED
  BY Invariant, <1>1, PTL

\* When the destructor gets past wait(), every task dispatched before its own
\* has been answered by the worker, and the worker has left: the last that it
\* ran is Quit, which is in only one place of dispatched.
THEOREM DestructorDrains == SafeSpec => []QuitDrains
<1>1. ASSUME Inv
      PROVE  QuitDrains
  <2> SUFFICES ASSUME owner \in {"lifetime", "queue", "destroyed"},
                      NEW j \in DOMAIN dispatched, dispatched[j] = Quit,
                      NEW i \in 1 .. j - 1
               PROVE  /\ dispatched[i] \in Elements(ran)
                      /\ future[dispatched[i]] \in {"set", "broken"}
    BY <1>1 DEF QuitDrains, Inv, QuitMeansLeft
  <2>1. /\ Len(ran) \in Nat /\ Len(dispatched) \in Nat
        /\ DOMAIN ran = 1 .. Len(ran)
        /\ DOMAIN dispatched = 1 .. Len(dispatched)
    BY <1>1, LenProperties DEF Inv, TypeOK
  <2>2. worker = "left" /\ ran # << >> /\ ran[Len(ran)] = Quit
    BY <1>1 DEF Inv, QuitMeansLeft, LastRun
  <2>3. Len(ran) \in 1 .. Len(ran)
    BY <1>1, <2>1, <2>2, EmptySeq DEF Inv, TypeOK
  <2>4. Len(ran) \in DOMAIN dispatched /\ dispatched[Len(ran)] = Quit
    BY <1>1, <2>1, <2>2, <2>3, RanAgrees DEF Inv
  <2>5. j = Len(ran)
    BY <1>1, <2>4 DEF Inv, RunInDispatchOrder
  <2>6. i \in 1 .. Len(ran) /\ ran[i] = dispatched[i]
    BY <1>1, <2>1, <2>5, RanAgrees DEF Inv
  <2>7. future[ran[i]] \in {"set", "broken"}
    BY <1>1, <2>2, <2>6 DEF Inv, RunMeansAnswered, Answered
  <2> QED
    BY <2>1, <2>6, <2>7 DEF Elements
<1> QED
  BY Invariant, <1>1, PTL

(***************************************************************************)
(* The scheduler implements a FIFO channel.                                *)
(***************************************************************************)

\* The channel closes when the worker has run the destructor's task, and is
\* closed when the destructor is past its wait().
Phase == IF owner \in {"lifetime", "queue", "destroyed"} THEN "closed"
         ELSE IF worker = "left" THEN "closing" ELSE "open"

Channel == INSTANCE FifoChannel WITH Value <- AllTasks, sent <- dispatched,
                                     delivered <- ran, phase <- Phase

\* The next of those dispatched is at the head of the queue.
LEMMA HeadIsNext ==
    ASSUME Inv, Pop
    PROVE  /\ Len(ran) < Len(dispatched)
           /\ dispatched[Len(ran) + 1] = Head(concurrent_queue)
<1>1. owner # "destroyed" /\ concurrent_queue # << >>
  BY DEF Inv, Pop, QuitMeansLeft
<1>2. /\ Len(concurrent_queue) \in Nat \ {0}
      /\ Head(concurrent_queue) = concurrent_queue[1]
  BY <1>1, EmptySeq, LenProperties, HeadTailProperties DEF Inv, TypeOK
<1>3. /\ Len(ran) \in Nat /\ Len(dispatched) \in Nat
      /\ \A i \in 1 .. Len(concurrent_queue) :
           /\ Len(ran) + i \in 1 .. Len(dispatched)
           /\ concurrent_queue[i] = dispatched[Len(ran) + i]
  BY <1>1, RanIsPrefix DEF Inv
<1>4. 1 \in 1 .. Len(concurrent_queue)
  BY <1>2
<1> QED
  BY <1>2, <1>3, <1>4

\* dispatch() sends, Pop delivers, running Quit closes and QuitDone finishes;
\* all other steps leave the channel as it is.
LEMMA ChannelStep == Inv /\ [Next]_vars => [Channel!Next]_Channel!vars
<1> SUFFICES ASSUME Inv, [Next]_vars
             PROVE  [Channel!Next]_Channel!vars
  OBVIOUS
<1> USE DEF Channel!Next, Channel!vars, Phase
<1>1. ASSUME NEW t \in AllTasks, Enqueue(t), UNCHANGED <<worker, ran>>,
             owner' = owner \/ (owner = "using" /\ owner' = "waiting")
      PROVE  Channel!Send(t)
  BY <1>1 DEF Enqueue, Channel!Send
<1>2. ASSUME NEW t \in Tasks, Dispatch(t) PROVE Channel!Send(t) /\ t \in AllTasks
  BY <1>1, <1>2 DEF Dispatch, threads, AllTasks
<1>3. ASSUME NEW t \in Tasks,
             Schedule(t) \/ BecomeDue(t) \/ CheckClock(t) \/ WakeUp(t)
      PROVE  UNCHANGED Channel!vars
  BY <1>3 DEF Schedule, BecomeDue, CheckClock, WakeUp, threads
<1>4. ASSUME NEW t \in Tasks, DispatchScheduled(t)
      PROVE  (Channel!Send(t) /\ t \in AllTasks) \/ UNCHANGED Channel!vars
  BY <1>1, <1>4 DEF DispatchScheduled, threads, AllTasks
<1>5. CASE CheckLifetime
  BY <1>5 DEF CheckLifetime, Inv, QuitMeansLeft
<1>6. CASE Pop
  <2>1. Phase = "open" /\ Phase' = "open"
    BY <1>6 DEF Pop, Inv, QuitMeansLeft
  <2> QED
    BY <1>6, <2>1, HeadIsNext DEF Pop, Channel!Deliver
<1>7. CASE RunTask
  <2>1. owner \notin {"lifetime", "queue", "destroyed"}
    BY <1>7 DEF RunTask, Inv, QuitMeansLeft
  <2> QED
    BY <1>7, <2>1 DEF RunTask, Channel!Close
<1>8. CASE DispatchQuit
  <2>1. Quit \in AllTasks
    BY DEF AllTasks
  <2> QED
    BY <1>1, <1>8, <2>1 DEF DispatchQuit, threads
<1>9. CASE QuitDone
  <2>1. worker = "left"
    BY <1>9 DEF QuitDone, Inv, QuitMeansLeft, Answered
  <2> QED
    BY <1>9, <2>1 DEF QuitDone, threads, Channel!Finish
<1>10. CASE DestroyLifetime \/ DestroyQueue \/ Over \/ UNCHANGED vars
  BY <1>10 DEF DestroyLifetime, DestroyQueue, Over, vars, threads
<1> QED
  BY <1>2, <1>3, <1>4, <1>5, <1>6, <1>7, <1>8, <1>9, <1>10
  DEF Next, TimerThread, Worker, Destructor

\* Whoever dispatches, the scheduler is one FIFO channel to its worker, and it
\* delivers nothing any more once the destructor takes it apart.
THEOREM SchedulerIsAChannel == SafeSpec => Channel!SafeSpec
<1>1. Init => Channel!Init
  BY DEF Init, Channel!Init, Phase
<1> QED
  BY Invariant, ChannelStep, <1>1, PTL DEF SafeSpec, Channel!SafeSpec

(***************************************************************************)
(* Actor: the inductive invariant.  That None is no task is an assumption  *)
(* of Actor.                                                               *)
(***************************************************************************)

\* Members are destroyed after the join only, and what the destructor has set
\* is what its position says; the thread leaves only because of it.
OwnerConsistent ==
    /\ quit_ <=> user # "using"
    /\ thread = "left" => quit_
    /\ user \in {"members", "gone"} => thread = "left"

\* Where the thread is when quit_ is set decides how many calls may follow:
\* before it looks at quit_ again it can still take one task.
CallBudget ==
    quit_ =>
      /\ thread \in {"lock", "waiting", "woken", "call"} =>
             Len(called) <= ranAtQuit
      /\ thread \in {"check", "left"} => Len(called) <= ranAtQuit + 1

ActorInv == /\ None \notin Tasks
            /\ A!TypeOK /\ OwnerConsistent /\ CallBudget

\* The initial state satisfies it.
LEMMA ActorInvInit == A!Init => ActorInv
<1> SUFFICES ASSUME A!Init
             PROVE  ActorInv
  OBVIOUS
<1>1. << >> \in Seq(Tasks)
  BY EmptySeq
<1>2. A!TypeOK
  BY <1>1 DEF A!Init, A!TypeOK
<1>3. OwnerConsistent /\ CallBudget
  BY DEF A!Init, OwnerConsistent, CallBudget
<1> QED
  BY <1>2, <1>3, TaskParameters DEF ActorInv, A!ActorParameters

\* Every step preserves the types.
LEMMA ActorTypeStep == ActorInv /\ [A!Next]_A!vars => A!TypeOK'
<1> SUFFICES ASSUME ActorInv, [A!Next]_A!vars
             PROVE  A!TypeOK'
  OBVIOUS
<1> USE DEF ActorInv, OwnerConsistent, A!TypeOK
<1>1. ASSUME NEW t \in Tasks, A!Execute(t) PROVE A!TypeOK'
  BY <1>1, AppendProperties DEF A!Execute
<1>2. CASE A!CheckQuit
  BY <1>2 DEF A!CheckQuit
<1>3. CASE A!StartWait
  BY <1>3 DEF A!StartWait
<1>4. CASE A!Timeout
  BY <1>4 DEF A!Timeout
<1>5. CASE A!TakeTask
  BY <1>5, HeadTailProperties DEF A!TakeTask
<1>6. CASE A!CallTask
  BY <1>6, AppendProperties DEF A!CallTask
<1>7. CASE A!SetQuit
  BY <1>7, LenProperties DEF A!SetQuit
<1>8. CASE A!NotifyAll
  BY <1>8 DEF A!NotifyAll
<1>9. CASE A!Join
  BY <1>9 DEF A!Join
<1>10. CASE A!DestroyMembers
  BY <1>10, EmptySeq DEF A!DestroyMembers
<1>11. CASE A!Over \/ UNCHANGED A!vars
  BY <1>11 DEF A!Over, A!vars
<1> QED
  BY <1>1, <1>2, <1>3, <1>4, <1>5, <1>6, <1>7, <1>8, <1>9, <1>10, <1>11
  DEF A!Next, A!Consume, A!Destructor

\* Every step preserves the owner's part and the budget of calls.
LEMMA ActorInvStep == ActorInv /\ [A!Next]_A!vars => ActorInv'
<1> SUFFICES ASSUME ActorInv, [A!Next]_A!vars
             PROVE  OwnerConsistent' /\ CallBudget'
  BY ActorTypeStep DEF ActorInv
<1> USE DEF ActorInv, A!TypeOK, OwnerConsistent, CallBudget
<1>0. Len(called) \in Nat
  BY LenProperties
<1>1. ASSUME NEW t \in Tasks, A!Execute(t) PROVE OwnerConsistent' /\ CallBudget'
  BY <1>1 DEF A!Execute
<1>2. CASE A!CheckQuit
  BY <1>0, <1>2 DEF A!CheckQuit
<1>3. CASE A!StartWait
  BY <1>3 DEF A!StartWait
<1>4. CASE A!Timeout
  BY <1>4 DEF A!Timeout
<1>5. CASE A!TakeTask
  BY <1>0, <1>5 DEF A!TakeTask
<1>6. CASE A!CallTask
  <2>1. task \in Tasks
    BY <1>6 DEF A!CallTask
  <2>2. Len(called') = Len(called) + 1
    BY <1>6, <2>1, AppendProperties DEF A!CallTask
  <2> QED
    BY <1>0, <1>6, <2>2 DEF A!CallTask
<1>7. CASE A!SetQuit
  BY <1>0, <1>7 DEF A!SetQuit
<1>8. CASE A!NotifyAll
  BY <1>8 DEF A!NotifyAll
<1>9. CASE A!Join
  BY <1>9 DEF A!Join
<1>10. CASE A!DestroyMembers
  BY <1>10 DEF A!DestroyMembers
<1>11. CASE A!Over \/ UNCHANGED A!vars
  BY <1>11 DEF A!Over, A!vars
<1> QED
  BY <1>1, <1>2, <1>3, <1>4, <1>5, <1>6, <1>7, <1>8, <1>9, <1>10, <1>11
  DEF A!Next, A!Consume, A!Destructor

LEMMA ActorInvariant == A!SafeSpec => []ActorInv
BY ActorInvInit, ActorInvStep, PTL DEF A!SafeSpec

\* Every variable keeps its type.
THEOREM ActorTypeCorrect == A!Spec => []A!TypeOK
<1>1. ActorInv => A!TypeOK
  BY DEF ActorInv
<1> QED
  BY ActorInvariant, <1>1, PTL DEF A!Spec

\* After quit_ has been set at most one more task is called.
THEOREM OneCallAfterQuit == A!Spec => []FewCallsAfterQuit
<1>1. ActorInv => FewCallsAfterQuit
  <2> SUFFICES ASSUME ActorInv, quit_
               PROVE  Len(called) + Len(A!InHand) <= ranAtQuit + 1
    BY DEF FewCallsAfterQuit, A!FewCallsAfterQuit
  <2>1. Len(called) \in Nat /\ ranAtQuit \in Nat
    BY LenProperties DEF ActorInv, A!TypeOK
  <2>2. CASE thread = "call"
    <3>1. Len(A!InHand) = 1
      BY <2>2 DEF ActorInv, A!TypeOK, A!InHand
    <3> QED
      BY <2>1, <2>2, <3>1 DEF ActorInv, CallBudget
  <2>3. CASE thread # "call"
    <3>1. Len(A!InHand) = 0
      BY <2>3 DEF ActorInv, A!TypeOK, A!InHand
    <3> QED
      BY <2>1, <2>3, <3>1 DEF ActorInv, CallBudget, A!TypeOK
  <2> QED
    BY <2>2, <2>3
<1> QED
  BY ActorInvariant, <1>1, PTL DEF A!Spec

(***************************************************************************)
(* Actor: the order of the calls.                                          *)
(***************************************************************************)

\* Queueing appends to the whole.
LEMMA JobAppended ==
    ASSUME NEW a \in Seq(Tasks), NEW b \in Seq(Tasks), NEW t \in Tasks
    PROVE  Append(a \o b, t) = a \o Append(b, t)
<1>1. a \o b \in Seq(Tasks) /\ << t >> \in Seq(Tasks)
  BY ConcatProperties
<1>2. Append(a \o b, t) = (a \o b) \o << t >> /\ Append(b, t) = b \o << t >>
  BY <1>1, AppendIsConcat
<1> QED
  BY <1>1, <1>2, ConcatAssociative

\* The head of the queue, put in hand, and the tail are the queue.
LEMMA HeadAndTail ==
    ASSUME NEW q \in Seq(Tasks), q # << >>
    PROVE  << Head(q) >> \o Tail(q) = q
<1>1. Len(q) \in Nat \ {0} /\ Len(q) \in 1 .. Len(q) /\ 1 \in 1 .. Len(q)
  BY EmptySeq
<1>2. Head(q) = q[1] /\ Tail(q) = SubSeq(q, 2, Len(q))
  BY HeadTailProperties, TailIsSubSeq
<1> QED
  BY <1>1, <1>2, SubSeqRecursiveFirst, SubSeqFull

\* What has been called, what is in hand and what is queued stay in line with
\* what has been executed.
LEMMA ActorOrderStep ==
    ActorInv /\ A!CalledInOrder /\ [A!Next]_A!vars => A!CalledInOrder'
<1> SUFFICES ASSUME ActorInv, A!CalledInOrder, [A!Next]_A!vars
             PROVE  A!CalledInOrder'
  OBVIOUS
<1>a. /\ called \in Seq(Tasks) /\ queue_ \in Seq(Tasks) /\ executed \in Seq(Tasks)
      /\ A!InHand \in Seq(Tasks) /\ Len(called) \in Nat
  BY EmptySeq, LenProperties DEF ActorInv, A!TypeOK, A!InHand
<1>1. ASSUME NEW t \in Tasks, A!Execute(t) PROVE A!CalledInOrder'
  <2>1. called \o A!InHand \in Seq(Tasks)
    BY <1>a, ConcatProperties
  <2>2. executed' = Append((called \o A!InHand) \o queue_, t)
    BY <1>1 DEF A!Execute, A!CalledInOrder
  <2>3. executed' = (called \o A!InHand) \o queue_'
    BY <1>1, <1>a, <2>1, <2>2, JobAppended DEF A!Execute
  <2> QED
    BY <1>1, <2>3 DEF A!Execute, A!CalledInOrder, A!InHand
<1>2. CASE A!CheckQuit \/ A!StartWait \/ A!Timeout
  BY <1>2 DEF A!CheckQuit, A!StartWait, A!Timeout, A!CalledInOrder, A!InHand
<1>3. CASE A!TakeTask
  <2>1. user # "gone" /\ A!InHand = << >>
    BY <1>3 DEF A!TakeTask, ActorInv, A!TypeOK, OwnerConsistent, A!InHand
  <2>2. CASE queue_ = << >>
    BY <1>3, <2>2 DEF A!TakeTask, A!CalledInOrder, A!InHand
  <2>3. CASE queue_ # << >>
    <3>1. task' = Head(queue_) /\ queue_' = Tail(queue_)
      BY <1>3, <2>3 DEF A!TakeTask
    <3>2. Head(queue_) \in Tasks /\ Tail(queue_) \in Seq(Tasks)
      BY <1>a, <2>3, HeadTailProperties
    <3>3. A!InHand' = << Head(queue_) >>
      BY <3>1, <3>2 DEF ActorInv, A!InHand
    <3>4. called \o << >> = called
      BY <1>a, ConcatEmptySeq
    <3>5. executed = called \o queue_
      BY <2>1, <3>4 DEF A!CalledInOrder
    <3>6. queue_ = << Head(queue_) >> \o Tail(queue_)
      BY <1>a, <2>3, HeadAndTail
    <3>7. << Head(queue_) >> \in Seq(Tasks)
      BY <3>2
    <3>8. (called \o << Head(queue_) >>) \o Tail(queue_)
              = called \o (<< Head(queue_) >> \o Tail(queue_))
      BY <1>a, <3>2, <3>7, ConcatAssociative
    <3> QED
      BY <1>3, <2>1, <3>1, <3>3, <3>5, <3>6, <3>8 DEF A!TakeTask,
        A!CalledInOrder
  <2> QED
    BY <2>2, <2>3
<1>4. CASE A!CallTask
  <2>1. task \in Tasks /\ user # "gone"
    BY <1>4 DEF A!CallTask, ActorInv, A!TypeOK, OwnerConsistent
  <2>2. A!InHand = << task >> /\ A!InHand' = << >>
    BY <1>4, <2>1 DEF ActorInv, A!CallTask, A!InHand
  <2>3. called' = called \o A!InHand /\ called' \in Seq(Tasks)
    BY <1>4, <1>a, <2>1, <2>2, AppendIsConcat, AppendProperties DEF A!CallTask
  <2>4. called' \o << >> = called'
    BY <2>3, ConcatEmptySeq
  <2> QED
    BY <1>4, <2>1, <2>2, <2>3, <2>4 DEF A!CallTask, A!CalledInOrder
<1>5. CASE A!SetQuit \/ A!NotifyAll \/ A!Join
  BY <1>5 DEF A!SetQuit, A!NotifyAll, A!Join, A!CalledInOrder, A!InHand
<1>6. CASE A!DestroyMembers
  <2>1. A!InHand = << >> /\ user = "members"
    BY <1>6 DEF A!DestroyMembers, ActorInv, A!TypeOK, OwnerConsistent, A!InHand
  <2>2. executed = called \o queue_
    <3>1. called \o << >> = called
      BY <1>a, ConcatEmptySeq
    <3> QED
      BY <2>1, <3>1 DEF A!CalledInOrder
  <2>3. SubSeq(executed, 1, Len(called)) = called
    <3>1. CASE Len(called) = 0
      <4>1. called = << >>
        BY <1>a, <3>1, EmptySeq
      <4> QED
        BY <3>1, <4>1, SubSeqEmpty
    <3>2. CASE Len(called) # 0
      <4>1. 1 \in 1 .. Len(called) /\ Len(called) \in 1 .. Len(called)
        BY <1>a, <3>2
      <4> QED
        BY <1>a, <2>2, <4>1, SubSeqOfConcat1, SubSeqFull
    <3> QED
      BY <3>1, <3>2
  <2> QED
    BY <1>6, <2>3 DEF A!DestroyMembers, A!CalledInOrder
<1>7. CASE A!Over \/ UNCHANGED A!vars
  BY <1>7 DEF A!Over, A!vars, A!CalledInOrder, A!InHand
<1> QED
  BY <1>1, <1>2, <1>3, <1>4, <1>5, <1>6, <1>7 DEF A!Next, A!Consume,
                                                  A!Destructor

\* Tasks are called in the order of execute(), each at most once.
THEOREM CallsInOrder == A!Spec => []CalledInOrder
<1>1. A!Init => A!CalledInOrder
  BY ConcatEmptySeq, EmptySeq DEF A!Init, A!CalledInOrder, A!InHand
<1> QED
  BY ActorInvariant, <1>1, ActorOrderStep, PTL
  DEF A!Spec, A!SafeSpec, CalledInOrder

(***************************************************************************)
(* Actor: it implements a FIFO channel.                                    *)
(***************************************************************************)

\* The channel is closed when the thread has left.
ActorPhase == IF thread = "left" THEN "closed"
              ELSE IF quit_ THEN "closing" ELSE "open"

ActorChannel == INSTANCE FifoChannel WITH Value <- Tasks, sent <- executed,
                                          delivered <- called,
                                          phase <- ActorPhase

\* The task in hand is the next of those executed.
LEMMA InHandIsNext ==
    ASSUME ActorInv, A!CalledInOrder, A!CallTask
    PROVE  /\ Len(called) < Len(executed)
           /\ executed[Len(called) + 1] = task
<1>1. /\ task \in Tasks /\ user # "gone" /\ None \notin Tasks
      /\ called \in Seq(Tasks) /\ queue_ \in Seq(Tasks)
  BY DEF ActorInv, A!CallTask, A!TypeOK, OwnerConsistent
<1>2. A!InHand = << task >>
  BY <1>1 DEF A!InHand
<1>3. /\ << task >> \in Seq(Tasks) /\ Len(<< task >>) = 1 /\ << task >>[1] = task
  BY <1>1
<1> DEFINE one == << task >>
           front == called \o one
<1>4. executed = front \o queue_
  BY <1>1, <1>2 DEF A!CalledInOrder
<1> HIDE DEF one
<1>5. /\ front \in Seq(Tasks) /\ Len(front) = Len(called) + 1
      /\ front[Len(called) + 1] = task
  BY <1>1, <1>3, ConcatProperties, LenProperties DEF one
<1> HIDE DEF front
<1>6. /\ Len(executed) = Len(front) + Len(queue_)
      /\ \A i \in 1 .. Len(front) : executed[i] = front[i]
  <2>1. Len(front) \in Nat /\ Len(queue_) \in Nat
    BY <1>1, <1>5, LenProperties
  <2>2. /\ Len(front \o queue_) = Len(front) + Len(queue_)
        /\ \A i \in 1 .. Len(front) + Len(queue_) : (front \o queue_)[i] =
               IF i <= Len(front) THEN front[i] ELSE queue_[i - Len(front)]
    BY <1>1, <1>5, ConcatProperties
  <2> QED
    BY <1>4, <2>1, <2>2
<1>7. Len(called) \in Nat /\ Len(queue_) \in Nat
  BY <1>1, LenProperties
<1> QED
  BY <1>5, <1>6, <1>7

\* execute() sends, CallTask delivers, SetQuit closes, and the thread that finds
\* quit_ finishes; all other steps leave the channel as it is.
LEMMA ActorChannelStep ==
    ActorInv /\ A!CalledInOrder /\ [A!Next]_A!vars =>
        [ActorChannel!Next]_ActorChannel!vars
<1> SUFFICES ASSUME ActorInv, A!CalledInOrder, [A!Next]_A!vars
             PROVE  [ActorChannel!Next]_ActorChannel!vars
  OBVIOUS
<1> USE DEF ActorChannel!Next, ActorChannel!vars, ActorPhase
<1>1. ASSUME NEW t \in Tasks, A!Execute(t) PROVE ActorChannel!Send(t)
  BY <1>1 DEF A!Execute, ActorChannel!Send
<1>2. CASE A!CheckQuit
  BY <1>2 DEF A!CheckQuit, ActorChannel!Finish
<1>3. CASE A!StartWait \/ A!Timeout \/ A!TakeTask
  BY <1>3 DEF A!StartWait, A!Timeout, A!TakeTask
<1>4. CASE A!CallTask
  BY <1>4, InHandIsNext DEF A!CallTask, ActorChannel!Deliver
<1>5. CASE A!SetQuit
  BY <1>5 DEF A!SetQuit, ActorInv, OwnerConsistent, ActorChannel!Close
<1>6. CASE A!NotifyAll \/ A!Join \/ A!DestroyMembers
  BY <1>6 DEF A!NotifyAll, A!Join, A!DestroyMembers
<1>7. CASE A!Over \/ UNCHANGED A!vars
  BY <1>7 DEF A!Over, A!vars
<1> QED
  BY <1>1, <1>2, <1>3, <1>4, <1>5, <1>6, <1>7
  DEF A!Next, A!Consume, A!Destructor

\* An actor is a FIFO channel to its thread.
THEOREM ActorIsAChannel == A!SafeSpec => ActorChannel!SafeSpec
<1>1. A!Init => ActorChannel!Init
  BY DEF A!Init, ActorChannel!Init, ActorPhase
<1>2. A!SafeSpec => []A!CalledInOrder
  <2>1. A!Init => A!CalledInOrder
    BY ConcatEmptySeq, EmptySeq DEF A!Init, A!CalledInOrder, A!InHand
  <2> QED
    BY ActorInvariant, <2>1, ActorOrderStep, PTL DEF A!SafeSpec
<1> QED
  BY ActorInvariant, ActorChannelStep, <1>1, <1>2, PTL
  DEF A!SafeSpec, ActorChannel!SafeSpec

(***************************************************************************)
(* Dispatcher: the inductive invariant.  That None is no client is an      *)
(* assumption of Dispatcher.  mClientMutex lets one client in at a time, and *)
(* a client engages at most one worker: from the signal in HandOver to the *)
(* posting of its result.                                                  *)
(***************************************************************************)

Inside == {"locked", "handed", "waiting", "signalled"}

\* Whoever is inside client() holds mClientMutex.
OneInside == \A c \in Clients : client[c] \in Inside <=> holder = c

Engaged(w) == process[w] \in {"signalled", "working"}

OneEngaged == \A v, w \in Workers : Engaged(v) /\ Engaged(w) => v = w

\* The engaged worker works for the client inside, which waits or will wait.
EngagedByHolder ==
    \A w \in Workers : Engaged(w) =>
        /\ holder \in Clients \ missed
        /\ client[holder] \in {"handed", "waiting"}
        /\ process[w] = "signalled" => mRequest = holder
        /\ process[w] = "working" => got[w] = holder

\* While the flag is set somebody solicits, or has just been signalled.
SolicitorExists ==
    mSolicitor => \E w \in Workers : process[w] \in {"waiting", "signalled"}

ResultIsHolders == \A c \in Clients : client[c] = "signalled" => mResult = c

DispatcherInv == /\ None \notin Clients
                 /\ D!TypeOK /\ OneInside /\ OneEngaged /\ EngagedByHolder
                 /\ SolicitorExists /\ ResultIsHolders
                 /\ D!MissedBlocksEverybody /\ D!AnswerIsMine

\* The initial state satisfies it.
LEMMA DispatcherInvInit == D!Init => DispatcherInv
BY TaskParameters
DEF D!DispatcherParameters, D!Init, DispatcherInv, D!TypeOK, OneInside,
    Inside, OneEngaged, Engaged, EngagedByHolder, SolicitorExists,
    ResultIsHolders, D!MissedBlocksEverybody, D!AnswerIsMine

\* A client that is about to hand its request over finds nobody engaged and
\* has missed nothing.
LEMMA LockedIsAlone ==
    ASSUME DispatcherInv, NEW c \in Clients, client[c] \in {"locked",
    "signalled"}
    PROVE  /\ holder = c
           /\ missed = {}
           /\ \A w \in Workers : ~Engaged(w)
BY DEF DispatcherInv, D!TypeOK, OneInside, Inside, EngagedByHolder,
       D!MissedBlocksEverybody

\* Every step preserves the types; that a worker has been given a request if it
\* works needs the rest of the invariant.
LEMMA DispatcherTypeStep == DispatcherInv /\ [D!Next]_D!vars => D!TypeOK'
<1> SUFFICES ASSUME DispatcherInv, [D!Next]_D!vars
             PROVE  D!TypeOK'
  OBVIOUS
<1>0. D!TypeOK /\ None \notin Clients
  BY DEF DispatcherInv
<1> USE <1>0 DEF D!TypeOK
<1>1. ASSUME NEW c \in Clients, D!LockClientMutex(c) PROVE D!TypeOK'
  BY <1>1 DEF D!LockClientMutex
<1>2. ASSUME NEW c \in Clients, D!Refuse(c) PROVE D!TypeOK'
  BY <1>2 DEF D!Refuse
<1>3. ASSUME NEW c \in Clients, D!HandOver(c) PROVE D!TypeOK'
  BY <1>3 DEF D!HandOver
<1>4. ASSUME NEW c \in Clients, D!WaitForResult(c) PROVE D!TypeOK'
  BY <1>4 DEF D!WaitForResult
<1>5. ASSUME NEW c \in Clients, D!SendResult(c) PROVE D!TypeOK'
  BY <1>5 DEF D!SendResult
<1>6. ASSUME NEW w \in Workers, D!Solicit(w) PROVE D!TypeOK'
  BY <1>6 DEF D!Solicit
<1>7. ASSUME NEW w \in Workers, D!SendRequest(w) PROVE D!TypeOK'
  <2>1. mRequest \in Clients
    BY <1>7 DEF D!SendRequest, DispatcherInv, EngagedByHolder, Engaged
  <2> QED
    BY <1>7, <2>1 DEF D!SendRequest
<1>8. ASSUME NEW w \in Workers, D!Result(w) PROVE D!TypeOK'
  BY <1>8 DEF D!Result
<1>9. CASE UNCHANGED D!vars
  BY <1>9 DEF D!vars
<1> QED
  BY <1>1, <1>2, <1>3, <1>4, <1>5, <1>6, <1>7, <1>8, <1>9
  DEF D!Next, D!ServeClient, D!ServeWorker

\* Every step preserves the rest.
LEMMA DispatcherInvStep == DispatcherInv /\ [D!Next]_D!vars => DispatcherInv'
<1> SUFFICES ASSUME DispatcherInv, [D!Next]_D!vars
             PROVE  DispatcherInv'
  OBVIOUS
<1>0. D!TypeOK'
  BY DispatcherTypeStep
<1> DEFINE Rest == /\ OneInside /\ OneEngaged /\ EngagedByHolder
                   /\ SolicitorExists /\ ResultIsHolders
                   /\ D!MissedBlocksEverybody /\ D!AnswerIsMine
<1> SUFFICES Rest'
  BY <1>0 DEF DispatcherInv
<1> USE DEF DispatcherInv, D!TypeOK, OneInside, Inside, OneEngaged, Engaged,
            EngagedByHolder,
        SolicitorExists, ResultIsHolders, D!MissedBlocksEverybody,
        D!AnswerIsMine
<1>1. ASSUME NEW c \in Clients, D!LockClientMutex(c) PROVE Rest'
  BY <1>1 DEF D!LockClientMutex
<1>2. ASSUME NEW c \in Clients, D!Refuse(c) PROVE Rest'
  BY <1>2, LockedIsAlone DEF D!Refuse
<1>3. ASSUME NEW c \in Clients, D!HandOver(c) PROVE Rest'
  BY <1>3, LockedIsAlone DEF D!HandOver
<1>4. ASSUME NEW c \in Clients, D!WaitForResult(c) PROVE Rest'
  BY <1>4 DEF D!WaitForResult
<1>5. ASSUME NEW c \in Clients, D!SendResult(c) PROVE Rest'
  BY <1>5, LockedIsAlone DEF D!SendResult
<1>6. ASSUME NEW w \in Workers, D!Solicit(w) PROVE Rest'
  BY <1>6 DEF D!Solicit
<1>7. ASSUME NEW w \in Workers, D!SendRequest(w) PROVE Rest'
  BY <1>7 DEF D!SendRequest
<1>8. ASSUME NEW w \in Workers, D!Result(w) PROVE Rest'
  BY <1>8 DEF D!Result
<1>9. CASE UNCHANGED D!vars
  BY <1>9 DEF D!vars
<1> QED
  BY <1>1, <1>2, <1>3, <1>4, <1>5, <1>6, <1>7, <1>8, <1>9
  DEF D!Next, D!ServeClient, D!ServeWorker

LEMMA DispatcherInvariant == D!SafeSpec => []DispatcherInv
BY DispatcherInvInit, DispatcherInvStep, PTL DEF D!SafeSpec

(***************************************************************************)
(* Dispatcher: the theorems.                                               *)
(***************************************************************************)

\* Every variable keeps its type.
THEOREM DispatcherTypeCorrect == D!Spec => []D!TypeOK
<1>1. DispatcherInv => D!TypeOK
  BY DEF DispatcherInv
<1> QED
  BY DispatcherInvariant, <1>1, PTL DEF D!Spec

\* A client is only ever sent the result of its own request.
THEOREM AnswersAreMine == D!Spec => []AnswerIsMine
<1>1. DispatcherInv => AnswerIsMine
  BY DEF DispatcherInv, AnswerIsMine
<1> QED
  BY DispatcherInvariant, <1>1, PTL DEF D!Spec

\* mSolicitor can be relied on under mClientMutex.
THEOREM HandOverAlwaysReaches == D!Spec => []HandOverReachesSolicitor
<1>1. DispatcherInv => HandOverReachesSolicitor
  BY LockedIsAlone
  DEF DispatcherInv, HandOverReachesSolicitor, D!HandOverReachesSolicitor,
      SolicitorExists, Engaged
<1> QED
  BY DispatcherInvariant, <1>1, PTL DEF D!Spec

\* A missed signal blocks the client that missed it, and with it all others.
THEOREM MissedAlwaysBlocks == D!Spec => []MissedBlocksEverybody
<1>1. DispatcherInv => MissedBlocksEverybody
  BY DEF DispatcherInv, MissedBlocksEverybody
<1> QED
  BY DispatcherInvariant, <1>1, PTL DEF D!Spec
=============================================================================
