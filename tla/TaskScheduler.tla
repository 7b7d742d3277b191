--------------------------- MODULE TaskScheduler ---------------------------
(***************************************************************************)
(* ThreadSupport::Scheduler of Playground/TaskScheduling/ThreadSupport.h:  *)
(* a worker thread runs the tasks that dispatch() puts into a concurrent   *)
(* queue; schedule() starts a detached thread that sleeps until a task is  *)
(* due, gives up if it sees that the scheduler is gone, and dispatches the *)
(* task otherwise.  The destructor dispatches a task that makes the worker *)
(* leave, waits for its promise, and then destroys mLifetime and, after    *)
(* it, concurrent_queue.                                                   *)
(***************************************************************************)
EXTENDS Naturals, Sequences

CONSTANTS Tasks,            \* the functions handed to the scheduler
          Scheduled,        \* those handed to schedule(), not dispatch()
          Throwing,         \* those that throw when they are run
          Quit              \* the destructor's task

ASSUME TaskSchedulerAssumption ==
    /\ Scheduled \subseteq Tasks
    /\ Throwing \subseteq Tasks
    /\ Quit \notin Tasks

VARIABLES concurrent_queue, \* tasks to run
          lifetime,         \* whether mLifetime still exists
          worker,           \* where the worker thread is
          current,          \* the task it runs
          owner,            \* where the thread that owns the scheduler is
          timer,            \* where each task's schedule() thread is
          due,              \* whether a task's absolute_time has passed
          future,           \* state of the future of each dispatched task
          dispatched, ran,  \* history: tasks in the order of push and of run
          misused           \* history: tasks pushed into a destroyed queue

vars == <<concurrent_queue, lifetime, worker, current, owner, timer, due,
          future, dispatched, ran, misused>>

AllTasks == Tasks \cup {Quit}

TypeOK ==
    /\ concurrent_queue \in Seq(AllTasks)
    /\ lifetime \in BOOLEAN
    /\ worker \in {"loop", "pop", "run", "left", "dead"}
    /\ current \in AllTasks
    /\ owner \in {"using", "waiting", "lifetime", "queue", "destroyed"}
    /\ timer \in [Tasks -> {"none", "clock", "asleep", "dispatch",
                            "cancelled", "over"}]
    /\ due \in [Tasks -> BOOLEAN]
    /\ future \in [AllTasks -> {"none", "pending", "set", "broken"}]
    /\ dispatched \in Seq(AllTasks)
    /\ ran \in Seq(AllTasks)
    /\ misused \subseteq Tasks

Init ==
    /\ concurrent_queue = << >>
    /\ lifetime = TRUE
    /\ worker = "loop"
    /\ current = Quit
    /\ owner = "using"
    /\ timer = [t \in Tasks |-> "none"]
    /\ due = [t \in Tasks |-> FALSE]
    /\ future = [t \in AllTasks |-> "none"]
    /\ dispatched = << >> /\ ran = << >>
    /\ misused = {}

threads == <<worker, current, ran>>
timers  == <<timer, due>>
-----------------------------------------------------------------------------
\* dispatch(): a promise, and a closure that fulfils it, into the queue.
Enqueue(t) ==
    /\ concurrent_queue' = Append(concurrent_queue, t)
    /\ dispatched' = Append(dispatched, t)
    /\ future' = [future EXCEPT ![t] = "pending"]

\* A user dispatches, or schedules, one of its tasks.
Dispatch(t) ==
    /\ owner = "using"
    /\ t \notin Scheduled
    /\ future[t] = "none"
    /\ Enqueue(t)
    /\ UNCHANGED <<lifetime, threads, owner, timers, misused>>

Schedule(t) ==
    /\ owner = "using"
    /\ t \in Scheduled
    /\ timer[t] = "none"
    /\ timer' = [timer EXCEPT ![t] = "clock"]
    /\ UNCHANGED <<concurrent_queue, lifetime, threads, owner, due, future,
                   dispatched, misused>>
-----------------------------------------------------------------------------
(* Mutations of the actions below, each a bug that one property catches *)

\* The queue is a stack.
PopLast ==
    /\ worker = "pop"
    /\ concurrent_queue # << >>
    /\ LET n == Len(concurrent_queue) IN
         /\ current' = concurrent_queue[n]
         /\ concurrent_queue' = SubSeq(concurrent_queue, 1, n - 1)
         /\ ran' = Append(ran, concurrent_queue[n])
    /\ worker' = "run"
    /\ UNCHANGED <<lifetime, owner, timers, future, dispatched, misused>>

\* The destructor's task overtakes the queued ones.
QuitFirst ==
    /\ owner = "using"
    /\ owner' = "waiting"
    /\ concurrent_queue' = << Quit >> \o concurrent_queue
    /\ dispatched' = Append(dispatched, Quit)
    /\ future' = [future EXCEPT ![Quit] = "pending"]
    /\ UNCHANGED <<lifetime, threads, timers, misused>>

\* The destructor waits for the worker without telling it to quit.
QuitUntold ==
    /\ owner = "using"
    /\ owner' = "waiting"
    /\ UNCHANGED <<concurrent_queue, lifetime, threads, timers, future,
                   dispatched, misused>>

\* The closures left in the queue leak, with their promises.
LeakQueue ==
    /\ owner = "queue"
    /\ owner' = "destroyed"
    /\ concurrent_queue' = << >>
    /\ UNCHANGED <<lifetime, threads, timers, future, dispatched, misused>>
-----------------------------------------------------------------------------
(* do_schedule() *)

\* absolute_time passes.
BecomeDue(t) ==
    /\ timer[t] \in {"clock", "asleep"}
    /\ ~due[t]
    /\ due' = [due EXCEPT ![t] = TRUE]
    /\ UNCHANGED <<concurrent_queue, lifetime, threads, owner, timer, future,
                   dispatched, misused>>

\* while (Clock::now() < absolute_time) usleep(...)
CheckClock(t) ==
    /\ timer[t] = "clock"
    /\ timer' = [timer EXCEPT ![t] = IF due[t] THEN "dispatch" ELSE "asleep"]
    /\ UNCHANGED <<concurrent_queue, lifetime, threads, owner, due, future,
                   dispatched, misused>>

\* lifetime_checker.expired() is looked at after a sleep, and only there.
WakeUp(t) ==
    /\ timer[t] = "asleep"
    /\ timer' = [timer EXCEPT ![t] = IF lifetime THEN "clock"
                                                 ELSE "cancelled"]
    /\ UNCHANGED <<concurrent_queue, lifetime, threads, owner, due, future,
                   dispatched, misused>>

\* dispatch(f) through a `this' that need not exist any more.
DispatchScheduled(t) ==
    /\ timer[t] = "dispatch"
    /\ timer' = [timer EXCEPT ![t] = "over"]
    /\ IF owner = "destroyed"
         THEN /\ misused' = misused \cup {t}
              /\ UNCHANGED <<concurrent_queue, dispatched, future>>
         ELSE Enqueue(t) /\ UNCHANGED misused
    /\ UNCHANGED <<lifetime, threads, owner, due>>

TimerThread(t) == CheckClock(t) \/ WakeUp(t) \/ DispatchScheduled(t)
-----------------------------------------------------------------------------
(* The worker *)

CheckLifetime ==
    /\ worker = "loop"
    /\ worker' = IF lifetime THEN "pop" ELSE "left"
    /\ UNCHANGED <<concurrent_queue, lifetime, current, owner, timers, future,
                   dispatched, ran, misused>>

Pop ==
    /\ worker = "pop"
    /\ concurrent_queue # << >>
    /\ current' = Head(concurrent_queue)
    /\ concurrent_queue' = Tail(concurrent_queue)
    /\ ran' = Append(ran, Head(concurrent_queue))
    /\ worker' = "run"
    /\ UNCHANGED <<lifetime, owner, timers, future, dispatched, misused>>

\* f(): it sets the promise, or an exception destroys the closure and with it
\* the promise.  QuitException is caught; any other one ends the thread, too,
\* and goes into the future of Async, which nobody has kept.
RunTask ==
    /\ worker = "run"
    /\ IF current = Quit \/ current \in Throwing
         THEN /\ future' = [future EXCEPT ![current] = "broken"]
              /\ worker' = IF current = Quit THEN "left" ELSE "dead"
         ELSE /\ future' = [future EXCEPT ![current] = "set"]
              /\ worker' = "loop"
    /\ UNCHANGED <<concurrent_queue, lifetime, current, owner, timers,
                   dispatched, ran, misused>>

Worker == CheckLifetime \/ Pop \/ RunTask
-----------------------------------------------------------------------------
(* ~Scheduler() *)

DispatchQuit ==
    /\ owner = "using"
    /\ owner' = "waiting"
    /\ Enqueue(Quit)
    /\ UNCHANGED <<lifetime, threads, timers, misused>>

\* wait() returns when the promise is set or broken.
QuitDone ==
    /\ owner = "waiting"
    /\ future[Quit] \in {"set", "broken"}
    /\ owner' = "lifetime"
    /\ UNCHANGED <<concurrent_queue, lifetime, threads, timers, future,
                   dispatched, misused>>

\* The members, in the reverse order of their declaration.  The closures left
\* in the queue take their promises with them.
DestroyLifetime ==
    /\ owner = "lifetime"
    /\ owner' = "queue"
    /\ lifetime' = FALSE
    /\ UNCHANGED <<concurrent_queue, threads, timers, future, dispatched,
                   misused>>

DestroyQueue ==
    /\ owner = "queue"
    /\ owner' = "destroyed"
    /\ future' = [t \in AllTasks |->
                    IF \E i \in DOMAIN concurrent_queue :
                          concurrent_queue[i] = t
                      THEN "broken" ELSE future[t]]
    /\ concurrent_queue' = << >>
    /\ UNCHANGED <<lifetime, threads, timers, dispatched, misused>>

Destructor == QuitDone \/ DestroyLifetime \/ DestroyQueue

\* Nothing more happens: the scheduler is gone and so are its threads, or
\* the destructor waits for a worker that an exception has killed.
Over == /\ \A t \in Tasks : timer[t] \in {"none", "cancelled", "over"}
        /\ \/ owner = "destroyed"
           \/ owner = "waiting" /\ worker = "dead"
        /\ UNCHANGED vars
-----------------------------------------------------------------------------
Next == \/ \E t \in Tasks : \/ Dispatch(t) \/ Schedule(t)
                            \/ BecomeDue(t) \/ TimerThread(t)
        \/ Worker
        \/ DispatchQuit \/ Destructor
        \/ Over

\* The threads run and time passes.
Fairness == /\ WF_vars(Worker)
            /\ WF_vars(Destructor)
            /\ \A t \in Tasks : WF_vars(TimerThread(t)) /\ WF_vars(BecomeDue(t))

SafeSpec == Init /\ [][Next]_vars

Spec == SafeSpec /\ Fairness
-----------------------------------------------------------------------------
(* Properties *)

Elements(s) == {s[i] : i \in DOMAIN s}

\* Tasks run one by one in the order of their dispatch() calls, none twice,
\* whichever threads dispatched them; until the queue is destroyed, what has
\* not run is still in it.
RunInDispatchOrder ==
    /\ \A i, j \in DOMAIN dispatched : dispatched[i] = dispatched[j] => i = j
    /\ owner # "destroyed" => dispatched = ran \o concurrent_queue
    /\ owner = "destroyed" => ran = SubSeq(dispatched, 1, Len(ran))

\* The destructor drains: when it gets past wait() and destroys the members,
\* every task dispatched before its own has had its promise answered by the
\* worker, and the worker has left and pops nothing any more.
QuitDrains ==
    owner \in {"lifetime", "queue", "destroyed"} =>
        /\ worker = "left"
        /\ \A j \in DOMAIN dispatched : dispatched[j] = Quit =>
             \A i \in 1 .. j - 1 :
                 /\ dispatched[i] \in Elements(ran)
                 /\ future[dispatched[i]] \in {"set", "broken"}

\* Whoever holds a future gets an answer: the task's result, or the promise
\* is broken when the closure or the queue goes.  Only a task that throws, and
\* so ends the worker, can leave it open.
FuturesAnswered ==
    \A t \in AllTasks :
        future[t] = "pending" ~> future[t] \in {"set", "broken"} \/ worker = "dead"

\* The destructor terminates, with the same exception.
DestructorReturns ==
    owner = "waiting" ~> owner = "destroyed" \/ worker = "dead"

\* main.cpp:21 says `Scheduler will be destroyed => scheduled threads are
\* cancelled!', so none of them dispatches on a destroyed scheduler.
ScheduledAreCancelled == misused = {}
=============================================================================
